--------------------------- MODULE ServersProofs ---------------------------
(***************************************************************************)
(* Proofs about Servers for any number of servers, windows and channels.   *)
(*                                                                         *)
(* The invariant is SafeWorld: the globals have their types, no entry      *)
(* counts as connected without a descriptor, and none is marked for        *)
(* clearing that is not to be closed.  One lemma per C function shows that *)
(* it leaves a safe world; only Resume() does not, and the                 *)
(* window_check_servers() that its callers make repairs the entry.         *)
(***************************************************************************)
EXTENDS Servers, TLAPS

SafeServer == {s \in Server : /\ IsConnected(s) => Open(s)
                              /\ s.clearPending => s.closePending}
SafeWorld == {w \in World : w.srv \in [Slots -> SafeServer]}

\* What Resume() may leave behind: an entry that counts as connected without a
\* descriptor, but that close_server() will not refuse to close.
LooseServer == SafeServer \cup
               {s \in Server : ~s.closePending /\ ~s.clearPending}
LooseWorld == {w \in World : w.srv \in [Slots -> LooseServer]}

LoginAnswers == {"ok", "wait", "fail"}

-----------------------------------------------------------------------------
(* Closing.                                                                *)

LEMMA ClosedSafe ==
    ASSUME NEW s \in Server
    PROVE  /\ Closed(s) \in Server
           /\ s \in SafeServer => Closed(s) \in SafeServer
           /\ ~s.closePending => Closed(s) \in SafeServer
<1>1. Closed(s) \in Server
  BY ZenonT(60) DEF Closed, Server
<1>2. CASE s.closePending
  BY <1>1, <1>2 DEF Closed
<1>3. CASE ~s.closePending
  <2>1. ~Closed(s).connected /\ ~Closed(s).clearPending
    BY <1>3 DEF Closed, Server
  <2>2. QED
    BY <1>1, <1>3, <2>1 DEF SafeServer, IsConnected
<1>4. QED
  BY <1>2, <1>3

LEMMA HungSafe ==
    ASSUME NEW s \in SafeServer
    PROVE  Hung(s) \in SafeServer /\ Hung(s).closeServ = s.closeServ
BY ZenonT(60) DEF Hung, Closed, Server, SafeServer, IsConnected, Open

\* An entry of a safe world may be replaced by any other safe entry.
LEMMA ReplaceEntry ==
    ASSUME NEW w \in SafeWorld, NEW i \in Slots, NEW s \in SafeServer
    PROVE  [w EXCEPT !.srv[i] = s] \in SafeWorld
BY DEF SafeWorld, World, SafeServer

LEMMA CloseServerSafe ==
    ASSUME NEW w \in SafeWorld, NEW i \in Slots
    PROVE  CloseServer(w, i) \in SafeWorld
<1>1. w.srv[i] \in SafeServer /\ w.srv[i] \in Server
  BY DEF SafeWorld, SafeServer
<1>2. Closed(w.srv[i]) \in SafeServer
  BY <1>1, ClosedSafe
<1>3. QED
  BY <1>2, ReplaceEntry DEF CloseServer

-----------------------------------------------------------------------------
(* The upkeep of windows.                                                  *)

LEMMA PrimeIsIndex == ASSUME NEW w PROVE Prime(w) \in Index
<1> DEFINE last == {i \in Entries(w) :
                        /\ HasWindow(w, i)
                        /\ \A j \in Entries(w) : HasWindow(w, j) => j <= i}
<1>1. last \subseteq Slots
  BY DEF Entries
<1>2. Prime(w) = IF last = {} THEN -1 ELSE CHOOSE i \in last : TRUE
  BY DEF Prime
<1>3. CASE last = {}
  BY <1>2, <1>3, MaxServersAssumption DEF Index
<1>4. CASE last # {}
  <2>1. Prime(w) \in last
    BY <1>2, <1>4
  <2>2. QED
    BY <1>1, <2>1, MaxServersAssumption DEF Slots, Index
<1>5. QED
  BY <1>3, <1>4

\* window_check_servers() repairs what Resume() leaves behind.
LEMMA CheckSafe ==
    ASSUME NEW w \in LooseWorld
    PROVE  WindowCheckServers(w) \in SafeWorld
<1> DEFINE srv == [i \in Slots |-> IF Swept(w, i) THEN Closed(w.srv[i]) ELSE w.srv[i]]
           win == [v \in Windows |-> IF \E i \in Entries(w) : v \in OnClosed(w, i)
                                     THEN w.primary ELSE w.win[v]]
           lost == ~(w.primary \in Slots /\ Open(srv[w.primary]))
           moved == [v \in Windows |-> IF lost /\ win[v] = w.primary
                                       THEN Prime(w) ELSE win[v]]
<1>1. w \in World
  BY DEF LooseWorld
<1>2. srv \in [Slots -> SafeServer]
  <2> SUFFICES ASSUME NEW i \in Slots
               PROVE  (IF Swept(w, i) THEN Closed(w.srv[i]) ELSE w.srv[i]) \in SafeServer
    BY Zenon
  <2>1. /\ w.srv[i] \in Server
        /\ \/ w.srv[i] \in SafeServer
           \/ ~w.srv[i].closePending /\ ~w.srv[i].clearPending
    BY <1>1 DEF LooseWorld, World, LooseServer
  <2>2. CASE Swept(w, i)
    BY <2>1, <2>2, ClosedSafe
  <2>3. CASE ~Swept(w, i)
    <3>1. Open(w.srv[i])
      BY <2>3 DEF Swept, HasWindow
    <3>2. QED
      BY <2>1, <2>3, <3>1 DEF SafeServer
  <2>4. QED
    BY <2>2, <2>3
<1>3. win \in [Windows -> Index \cup {NoWindow}]
  BY <1>1 DEF World
<1>4. moved \in [Windows -> Index \cup {NoWindow}]
  BY <1>3, PrimeIsIndex
<1>5. (IF lost THEN Prime(w) ELSE w.primary) \in Index
  BY <1>1, PrimeIsIndex DEF World
<1>6. WindowCheckServers(w) =
         [w EXCEPT !.srv = srv, !.win = moved,
                   !.primary = IF lost THEN Prime(w) ELSE @,
                   !.alive = \E i \in Entries(w) : HasWindow(w, i)]
  BY DEF WindowCheckServers
<1> HIDE DEF srv, win, lost, moved
<1>7. srv \in [Slots -> Server]
  BY <1>2 DEF SafeServer
<1>8. (\E i \in Entries(w) : HasWindow(w, i)) \in BOOLEAN
  OBVIOUS
<1>9. QED
  BY <1>1, <1>2, <1>4, <1>5, <1>6, <1>7, <1>8 DEF SafeWorld, World

LEMMA SafeIsLoose == SafeWorld \subseteq LooseWorld
BY DEF SafeWorld, LooseWorld, LooseServer

LEMMA CheckKeepsSafe ==
    ASSUME NEW w \in SafeWorld PROVE WindowCheckServers(w) \in SafeWorld
BY CheckSafe, SafeIsLoose

-----------------------------------------------------------------------------
(* Moving windows and channels.                                            *)

\* Nothing MoveChannels() writes bears on whether an entry is connected.
LEMMA MoveChannelsLoose ==
    ASSUME NEW w \in LooseWorld, NEW old \in Index, NEW new \in Slots,
           NEW transfer \in BOOLEAN, NEW win \in [Windows -> Index \cup {NoWindow}]
    PROVE  [w EXCEPT !.srv = MoveChannels(w, old, new, transfer), !.win = win]
              \in LooseWorld
<1>1. w \in World /\ w.srv \in [Slots -> Server]
  BY DEF LooseWorld, World
<1>2. old # -1 => old \in Slots
  BY MaxServersAssumption DEF Index, Slots
<1>3. /\ MoveChannels(w, old, new, transfer) \in [Slots -> Server]
      /\ \A i \in Slots :
            LET s == w.srv[i]
                t == MoveChannels(w, old, new, transfer)[i]
            IN  /\ t.closePending = s.closePending /\ t.sock = s.sock
                /\ t.connected = s.connected /\ t.loggedIn = s.loggedIn
                /\ t.clearPending => s.closePending \/ s.clearPending
  <2>1. CASE ~transfer \/ old = -1
    BY <1>1, <2>1 DEF MoveChannels
  <2>2. CASE transfer /\ old # -1
    <3> DEFINE Entry(i) ==
            IF i = old
            THEN IF w.srv[i].closePending THEN [w.srv[i] EXCEPT !.clearPending = TRUE]
                                          ELSE [w.srv[i] EXCEPT !.chans = {}]
            ELSE IF i = new /\ w.srv[old].chans # {}
            THEN [w.srv[i] EXCEPT !.chans = w.srv[old].chans]
            ELSE w.srv[i]
    <3>1. MoveChannels(w, old, new, transfer) = [i \in Slots |-> Entry(i)]
      BY <2>2 DEF MoveChannels
    <3>2. ASSUME NEW i \in Slots
          PROVE  /\ Entry(i) \in Server
                 /\ Entry(i).closePending = w.srv[i].closePending
                 /\ Entry(i).sock = w.srv[i].sock
                 /\ Entry(i).connected = w.srv[i].connected
                 /\ Entry(i).loggedIn = w.srv[i].loggedIn
                 /\ Entry(i).clearPending => w.srv[i].closePending \/ w.srv[i].clearPending
      BY <1>1, <1>2, <2>2, ZenonT(60) DEF Server
    <3> HIDE DEF Entry
    <3>3. QED
      BY <3>1, <3>2
  <2>3. QED
    BY <2>1, <2>2
<1> DEFINE srv == MoveChannels(w, old, new, transfer)
           x == [w EXCEPT !.srv = srv, !.win = win]
<1>4. x \in World /\ x.srv = srv
  <2> HIDE DEF srv
  <2>1. srv \in [Slots -> Server]
    BY <1>3 DEF srv
  <2>2. QED
    BY <1>1, <2>1 DEF World
<1>5. srv \in [Slots -> LooseServer]
  <2>1. ASSUME NEW i \in Slots PROVE srv[i] \in LooseServer
    <3>1. w.srv[i] \in LooseServer /\ srv[i] \in Server
      BY <1>3 DEF LooseWorld
    <3> HIDE DEF srv
    <3>2. QED
      BY <1>3, <3>1 DEF LooseServer, SafeServer, IsConnected, Open, srv
  <2>2. QED
    BY <1>3, <2>1
<1> HIDE DEF srv
<1>6. QED
  BY <1>4, <1>5 DEF LooseWorld, srv

LEMMA MoveWindowsSafe ==
    ASSUME NEW w \in LooseWorld, NEW old \in Index, NEW new \in Slots,
           NEW transfer \in BOOLEAN
    PROVE  MoveWindows(w, old, new, transfer) \in SafeWorld
<1> DEFINE win == [v \in Windows |-> IF w.win[v] = old THEN new ELSE w.win[v]]
<1>1. win \in [Windows -> Index \cup {NoWindow}]
  BY MaxServersAssumption DEF LooseWorld, World, Index, Slots
<1>2. [w EXCEPT !.srv = MoveChannels(w, old, new, transfer), !.win = win] \in LooseWorld
  BY <1>1, MoveChannelsLoose
<1>3. QED
  BY <1>2, CheckSafe DEF MoveWindows

LEMMA SetPrimarySafe ==
    ASSUME NEW w \in SafeWorld, NEW new \in Slots, NEW transfer \in BOOLEAN
    PROVE  SetPrimary(w, new, transfer) \in SafeWorld
<1> DEFINE x == [w EXCEPT !.primary = new]
<1>1. x \in LooseWorld
  <2>1. new \in Index
    BY MaxServersAssumption DEF Slots, Index
  <2>2. w \in LooseWorld
    BY SafeIsLoose
  <2>3. QED
    BY <2>1, <2>2 DEF LooseWorld, World
<1>2. w.primary \in Index
  BY DEF SafeWorld, World
<1> HIDE DEF x
<1>3. MoveWindows(x, w.primary, new, transfer) \in SafeWorld
  BY <1>1, <1>2, MoveWindowsSafe
<1>4. QED
  BY <1>3 DEF SetPrimary, x

LEMMA SetWindowSafe ==
    ASSUME NEW w \in SafeWorld, NEW v \in Windows, w.win[v] # NoWindow,
           NEW new \in Slots, NEW transfer \in BOOLEAN, NEW all \in BOOLEAN
    PROVE  SetWindow(w, v, new, transfer, all) \in SafeWorld
<1>1. w.win[v] \in Index
  BY DEF SafeWorld, World
<1>2. MoveWindows(w, w.win[v], new, transfer) \in SafeWorld
  BY <1>1, MoveWindowsSafe, SafeIsLoose
<1>3. [w EXCEPT !.win[v] = new] \in SafeWorld
  <2>1. new \in Index
    BY MaxServersAssumption DEF Slots, Index
  <2>2. QED
    BY <2>1 DEF SafeWorld, World
<1>4. WindowCheckServers([w EXCEPT !.win[v] = new]) \in SafeWorld
  BY <1>3, CheckKeepsSafe
<1>5. QED
  BY <1>2, <1>4 DEF SetWindow

-----------------------------------------------------------------------------
(* Logging in, and giving a switch up.                                     *)

\* Resume() patches two entries and then, perhaps, moves the windows.
LEMMA ResumeIsMove ==
    ASSUME NEW w \in SafeWorld, NEW i \in Slots, NEW old \in Slots
    PROVE  \E back \in LooseWorld :
              /\ back.win = w.win
              /\ Resume(w, i, old) \in {back, MoveWindows(back, i, old, FALSE)}
<1> DEFINE s == [w.srv[i] EXCEPT !.closeServ = -1]
           freed == [w.srv EXCEPT ![i] = s]
           again == [freed[old] EXCEPT !.closePending = FALSE, !.clearPending = FALSE,
                                       !.loggedIn = TRUE, !.connected = TRUE]
           srv == [freed EXCEPT ![old] = again]
           back == [w EXCEPT !.srv = srv]
<1>1. w \in World /\ w.srv \in [Slots -> SafeServer] /\ w.srv[i] \in SafeServer
  BY DEF SafeWorld
<1>2. s \in SafeServer
  <2>1. -1 \in Index
    BY MaxServersAssumption DEF Index
  <2>2. QED
    BY <1>1, <2>1 DEF SafeServer, Server, IsConnected, Open
<1>3. freed \in [Slots -> SafeServer]
  <2> HIDE DEF s
  <2>1. QED
    BY <1>1, <1>2
<1>4. again \in LooseServer
  <2> HIDE DEF freed
  <2>1. freed[old] \in Server
    BY <1>3 DEF SafeServer
  <2>2. QED
    BY <2>1 DEF Server, LooseServer
<1>5. back \in LooseWorld
  <2> HIDE DEF freed, again
  <2>1. srv \in [Slots -> LooseServer]
    BY <1>3, <1>4 DEF LooseServer
  <2>2. srv \in [Slots -> Server]
    BY <2>1 DEF SafeServer, LooseServer
  <2> HIDE DEF srv
  <2>3. QED
    BY <1>1, <2>1, <2>2 DEF LooseWorld, World
<1>6. back.win = w.win
  BY <1>1 DEF World
<1>7. Resume(w, i, old) = IF (\E v \in Windows : w.win[v] = i) /\ i # old
                          THEN MoveWindows(back, i, old, FALSE) ELSE back
  BY <1>6 DEF Resume
<1> HIDE DEF back
<1>8. QED
  BY <1>5, <1>6, <1>7

LEMMA ResumeLoose ==
    ASSUME NEW w \in SafeWorld, NEW i \in Slots, NEW old \in Slots
    PROVE  Resume(w, i, old) \in LooseWorld
<1>1. i \in Index
  BY MaxServersAssumption DEF Slots, Index
<1>2. PICK back \in LooseWorld :
         Resume(w, i, old) \in {back, MoveWindows(back, i, old, FALSE)}
  BY ResumeIsMove
<1>3. MoveWindows(back, i, old, FALSE) \in LooseWorld
  BY <1>1, MoveWindowsSafe, SafeIsLoose
<1>4. QED
  BY <1>2, <1>3

LEMMA ReestablishSafe ==
    ASSUME NEW w \in SafeWorld, NEW i \in Slots, NEW old \in Slots
    PROVE  ReestablishCloseServer(w, i, old) \in SafeWorld
BY ResumeLoose, SafeIsLoose, CheckSafe DEF ReestablishCloseServer

LEMMA FinishSwitchSafe ==
    ASSUME NEW w \in SafeWorld, NEW i \in Slots
    PROVE  FinishSwitch(w, i) \in SafeWorld
<1> DEFINE old == w.srv[i].closeServ
           s == [w.srv[i] EXCEPT !.addrs = FALSE, !.closeServ = -1]
           done == [w EXCEPT !.srv[i] = s]
           left == [done.srv[old] EXCEPT !.closePending = FALSE, !.clearPending = FALSE,
                        !.chans = IF w.srv[old].clearPending THEN {} ELSE @]
<1>1. w \in World /\ w.srv[i] \in SafeServer /\ old \in Index
  BY DEF SafeWorld, SafeServer, Server
<1>2. s \in SafeServer
  <2>1. -1 \in Index
    BY MaxServersAssumption DEF Index
  <2>2. QED
    BY <1>1, <2>1 DEF SafeServer, Server, IsConnected, Open
<1>3. done \in SafeWorld
  <2> HIDE DEF s
  <2>1. QED
    BY <1>2, ReplaceEntry
<1>4. FinishSwitch(w, i) = IF old = -1 THEN done
                           ELSE [done EXCEPT !.srv[old] = Closed(left)]
  <2>1. [w EXCEPT !.srv[i] = [@ EXCEPT !.addrs = FALSE, !.closeServ = -1]] = done
    BY <1>1 DEF World, Server, SafeServer
  <2>2. QED
    BY <2>1 DEF FinishSwitch
<1>5. ASSUME old # -1
      PROVE  [done EXCEPT !.srv[old] = Closed(left)] \in SafeWorld
  <2>1. old \in Slots
    BY <1>1, <1>5, MaxServersAssumption DEF Index, Slots
  <2>2. done.srv[old] \in Server
    BY <1>3, <2>1 DEF SafeWorld, World
  <2>3. left \in Server /\ ~left.closePending
    <3> HIDE DEF done
    <3>1. QED
      BY <2>2 DEF Server
  <2> HIDE DEF left, done, old
  <2>4. Closed(left) \in SafeServer
    BY <2>3, ClosedSafe
  <2>5. QED
    BY <1>3, <2>1, <2>4, ReplaceEntry
<1>6. QED
  BY <1>3, <1>4, <1>5

LEMMA LoginSafe ==
    ASSUME NEW w \in SafeWorld, NEW i \in Slots, NEW l \in LoginAnswers,
           l = "ok" => Open(w.srv[i])
    PROVE  LoginToServer(w, i, l) \in SafeWorld
<1>1. w.srv[i] \in SafeServer /\ w.srv[i] \in Server /\ w \in World
  BY DEF SafeWorld, SafeServer
<1>2. CASE l = "wait"
  <2> DEFINE s == [w.srv[i] EXCEPT !.tcpDone = TRUE]
  <2>1. s \in SafeServer
    BY <1>1 DEF SafeServer, Server, IsConnected, Open
  <2>2. LoginToServer(w, i, l) = [w EXCEPT !.srv[i] = s]
    BY <1>1, <1>2 DEF LoginToServer, World
  <2> HIDE DEF s
  <2>3. QED
    BY <2>1, <2>2, ReplaceEntry
<1>3. CASE l = "ok"
  <2> DEFINE s == [w.srv[i] EXCEPT !.tcpDone = TRUE, !.loggedIn = TRUE]
  <2>1. s \in SafeServer
    BY <1>1, <1>3 DEF SafeServer, Server, IsConnected, Open
  <2>2. LoginToServer(w, i, l) = FinishSwitch([w EXCEPT !.srv[i] = s], i)
    <3>1. [w EXCEPT !.srv[i] = [@ EXCEPT !.tcpDone = TRUE, !.loggedIn = TRUE]]
             = [w EXCEPT !.srv[i] = s]
      BY <1>1 DEF World, Server
    <3>2. QED
      BY <1>3, <3>1 DEF LoginToServer
  <2> HIDE DEF s
  <2>3. [w EXCEPT !.srv[i] = s] \in SafeWorld
    BY <2>1, ReplaceEntry
  <2>4. QED
    BY <2>2, <2>3, FinishSwitchSafe
<1>4. CASE l = "fail"
  <2> DEFINE old == w.srv[i].closeServ
             failed == CloseServer(w, i)
  <2>1. failed \in SafeWorld
    BY CloseServerSafe
  <2>2. old \notin {-1, i} => old \in Slots
    BY <1>1, MaxServersAssumption DEF Server, Index, Slots
  <2>3. LoginToServer(w, i, l) = IF ~w.srv[i].loggedIn /\ old \notin {-1, i}
                                 THEN ReestablishCloseServer(failed, i, old)
                                 ELSE failed
    BY <1>4 DEF LoginToServer
  <2> HIDE DEF old, failed
  <2>4. QED
    BY <2>1, <2>2, <2>3, ReestablishSafe
<1>5. QED
  BY <1>2, <1>3, <1>4 DEF LoginAnswers

-----------------------------------------------------------------------------
(* A window does not disappear because a connection is opened or given up: *)
(* it may only move to another entry, or to no server at all.              *)

LEMMA CheckKeepsWindow ==
    ASSUME NEW w \in World, NEW v \in Windows, w.win[v] \in Index
    PROVE  WindowCheckServers(w).win[v] \in Index
<1> DEFINE srv == [i \in Slots |-> IF Swept(w, i) THEN Closed(w.srv[i]) ELSE w.srv[i]]
           win == [u \in Windows |-> IF \E i \in Entries(w) : u \in OnClosed(w, i)
                                     THEN w.primary ELSE w.win[u]]
           lost == ~(w.primary \in Slots /\ Open(srv[w.primary]))
           moved == [u \in Windows |-> IF lost /\ win[u] = w.primary
                                       THEN Prime(w) ELSE win[u]]
<1>1. w.primary \in Index /\ Prime(w) \in Index
  BY PrimeIsIndex DEF World
<1>2. moved[v] \in Index
  BY <1>1
<1>3. WindowCheckServers(w) =
         [w EXCEPT !.srv = srv, !.win = moved,
                   !.primary = IF lost THEN Prime(w) ELSE @,
                   !.alive = \E i \in Entries(w) : HasWindow(w, i)]
  BY DEF WindowCheckServers
<1> HIDE DEF srv, win, lost, moved
<1>4. QED
  BY <1>2, <1>3 DEF World

LEMMA MoveKeepsWindow ==
    ASSUME NEW w \in LooseWorld, NEW old \in Index, NEW new \in Slots,
           NEW transfer \in BOOLEAN, NEW v \in Windows, w.win[v] \in Index
    PROVE  MoveWindows(w, old, new, transfer).win[v] \in Index
<1> DEFINE win == [u \in Windows |-> IF w.win[u] = old THEN new ELSE w.win[u]]
           x == [w EXCEPT !.srv = MoveChannels(w, old, new, transfer), !.win = win]
<1>1. new \in Index
  BY MaxServersAssumption DEF Index, Slots
<1>2. win \in [Windows -> Index \cup {NoWindow}] /\ win[v] \in Index
  BY <1>1 DEF LooseWorld, World
<1>3. MoveWindows(w, old, new, transfer) = WindowCheckServers(x)
  BY DEF MoveWindows
<1> HIDE DEF win
<1>4. x \in World
  BY <1>2, MoveChannelsLoose DEF LooseWorld
<1>5. x.win[v] \in Index
  BY <1>2 DEF LooseWorld, World
<1> HIDE DEF x
<1>6. QED
  BY <1>3, <1>4, <1>5, CheckKeepsWindow

LEMMA ResumeKeepsWindow ==
    ASSUME NEW w \in SafeWorld, NEW i \in Slots, NEW old \in Slots,
           NEW v \in Windows, w.win[v] \in Index
    PROVE  /\ Resume(w, i, old).win[v] \in Index
           /\ ReestablishCloseServer(w, i, old).win[v] \in Index
<1>1. Resume(w, i, old).win[v] \in Index
  <2>1. PICK back \in LooseWorld :
           /\ back.win = w.win
           /\ Resume(w, i, old) \in {back, MoveWindows(back, i, old, FALSE)}
    BY ResumeIsMove
  <2>2. i \in Index
    BY MaxServersAssumption DEF Slots, Index
  <2>3. MoveWindows(back, i, old, FALSE).win[v] \in Index
    BY <2>1, <2>2, MoveKeepsWindow
  <2>4. QED
    BY <2>1, <2>3
<1>2. Resume(w, i, old) \in World /\ w \in World
  BY ResumeLoose DEF LooseWorld, SafeWorld
<1>3. QED
  BY <1>1, <1>2, CheckKeepsWindow DEF ReestablishCloseServer

LEMMA LoginKeepsWindow ==
    ASSUME NEW w \in SafeWorld, NEW i \in Slots, NEW l \in LoginAnswers,
           NEW v \in Windows, w.win[v] \in Index
    PROVE  LoginToServer(w, i, l).win[v] \in Index
<1>1. CASE l = "wait"
  BY <1>1 DEF LoginToServer, SafeWorld, World
<1>2. CASE l = "ok"
  BY <1>2 DEF LoginToServer, FinishSwitch, SafeWorld, World
<1>3. CASE l = "fail"
  <2> DEFINE old == w.srv[i].closeServ
             failed == CloseServer(w, i)
  <2>1. failed \in SafeWorld /\ failed.win[v] \in Index
    BY CloseServerSafe DEF CloseServer, SafeWorld, World
  <2>2. old \notin {-1, i} => old \in Slots
    BY MaxServersAssumption DEF SafeWorld, World, Server, Index, Slots
  <2>3. LoginToServer(w, i, l) = IF ~w.srv[i].loggedIn /\ old \notin {-1, i}
                                 THEN ReestablishCloseServer(failed, i, old)
                                 ELSE failed
    BY <1>3 DEF LoginToServer
  <2> HIDE DEF old, failed
  <2>4. QED
    BY <2>1, <2>2, <2>3, ResumeKeepsWindow
<1>4. QED
  BY <1>1, <1>2, <1>3 DEF LoginAnswers

-----------------------------------------------------------------------------
(* Connecting.                                                             *)

LEMMA DialledSafe ==
    ASSUME NEW w \in SafeWorld, NEW i \in Slots, NEW c \in Index,
           NEW o \in {"pending", "up"}
    PROVE  /\ Dialled(w, i, c, o) \in SafeWorld
           /\ Open(Dialled(w, i, c, o).srv[i])
<1> DEFINE s == [Hung(w.srv[i]) EXCEPT
                    !.sock = o, !.loggedIn = FALSE,
                    !.addrs = o = "pending" /\ ~w.srv[i].addrs,
                    !.closeServ = IF c = i THEN -1 ELSE c]
           new == [w EXCEPT !.srv[i] = s]
<1>1. w \in World /\ w.srv[i] \in SafeServer /\ w.srv[i] \in Server
  BY DEF SafeWorld, SafeServer
<1>2. s \in SafeServer /\ Open(s)
  <2>1. Hung(w.srv[i]) \in SafeServer
    BY <1>1, HungSafe
  <2>2. (IF c = i THEN -1 ELSE c) \in Index
    BY MaxServersAssumption DEF Index
  <2>3. (o = "pending" /\ ~w.srv[i].addrs) \in BOOLEAN
    OBVIOUS
  <2>4. QED
    BY <2>1, <2>2, <2>3, ZenonT(60) DEF SafeServer, Server, IsConnected, Open
<1>3. new \in SafeWorld /\ new.srv[i] = s
  <2> HIDE DEF s
  <2>1. new \in SafeWorld
    BY <1>2, ReplaceEntry
  <2>2. new.srv[i] = s
    BY <1>1 DEF World
  <2>3. QED
    BY <2>1, <2>2
<1>4. Dialled(w, i, c, o) =
        IF c \in {-1, i} THEN new
        ELSE [new EXCEPT !.srv[c] =
                [new.srv[c] EXCEPT !.closePending = TRUE, !.connected = FALSE]]
  BY <1>1 DEF Dialled, World
<1> HIDE DEF s, new
<1>5. ASSUME c \notin {-1, i}
      PROVE  LET t == [new.srv[c] EXCEPT !.closePending = TRUE, !.connected = FALSE]
             IN  /\ [new EXCEPT !.srv[c] = t] \in SafeWorld
                 /\ [new EXCEPT !.srv[c] = t].srv[i] = new.srv[i]
  <2> DEFINE t == [new.srv[c] EXCEPT !.closePending = TRUE, !.connected = FALSE]
  <2>1. c \in Slots
    BY <1>5, MaxServersAssumption DEF Index, Slots
  <2>2. new.srv[c] \in SafeServer
    BY <1>3, <2>1 DEF SafeWorld
  <2>3. t \in SafeServer
    BY <2>2, ZenonT(60) DEF SafeServer, Server, IsConnected, Open
  <2> HIDE DEF t
  <2>4. [new EXCEPT !.srv[c] = t] \in SafeWorld
    BY <1>3, <2>1, <2>3, ReplaceEntry
  <2>5. [new EXCEPT !.srv[c] = t].srv[i] = new.srv[i]
    BY <1>3, <1>5, <2>1 DEF SafeWorld, World
  <2>6. QED
    BY <2>4, <2>5 DEF t
<1>6. QED
  BY <1>2, <1>3, <1>4, <1>5

\* A plain entry answers "ok", whatever else it might have said.
LEMMA AnsweredIsAnswer ==
    ASSUME NEW s, NEW l \in LoginAnswers PROVE Answered(s, l) \in LoginAnswers
BY DEF Answered, LoginAnswers

LEMMA ConnectSafe ==
    ASSUME NEW w \in SafeWorld, NEW i \in Slots, NEW c \in Index,
           NEW o \in ConnectOutcomes, NEW l \in LoginAnswers
    PROVE  ConnectToServer(w, i, c, o, l) \in SafeWorld
<1>1. c \notin {-1, i} => c \in Slots
  BY MaxServersAssumption DEF Index, Slots
<1>2. CASE IsConnected(w.srv[i])
  BY <1>1, <1>2, CloseServerSafe DEF ConnectToServer
<1>3. CASE ~IsConnected(w.srv[i]) /\ o = "fail"
  <2>1. w.srv[i] \in SafeServer
    BY DEF SafeWorld
  <2>2. [w EXCEPT !.srv[i] = Hung(w.srv[i])] \in SafeWorld
    BY <2>1, HungSafe, ReplaceEntry
  <2>3. QED
    BY <1>3, <2>2 DEF ConnectToServer, SafeWorld, World
<1>4. CASE ~IsConnected(w.srv[i]) /\ o # "fail"
  <2>1. o \in {"pending", "up"}
    BY <1>4, OutcomesAssumption DEF ConnectOutcomes
  <2>2. /\ Dialled(w, i, c, o) \in SafeWorld
        /\ LoginToServer(Dialled(w, i, c, o), i, Answered(w.srv[i], l)) \in SafeWorld
    BY <2>1, DialledSafe, LoginSafe, AnsweredIsAnswer
  <2>3. QED
    BY <1>4, <2>2 DEF ConnectToServer
<1>5. QED
  BY <1>2, <1>3, <1>4

LEMMA ConnectKeepsWindow ==
    ASSUME NEW w \in SafeWorld, NEW i \in Slots, NEW c \in Index,
           NEW o \in ConnectOutcomes, NEW l \in LoginAnswers,
           NEW v \in Windows, w.win[v] \in Index
    PROVE  ConnectToServer(w, i, c, o, l).win[v] \in Index
<1>1. CASE IsConnected(w.srv[i])
  BY <1>1 DEF ConnectToServer, CloseServer, SafeWorld, World
<1>2. CASE ~IsConnected(w.srv[i]) /\ o = "fail"
  BY <1>2 DEF ConnectToServer, SafeWorld, World
<1>3. CASE ~IsConnected(w.srv[i]) /\ o # "fail"
  <2> DEFINE d == Dialled(w, i, c, o)
  <2>1. o \in {"pending", "up"}
    BY <1>3, OutcomesAssumption DEF ConnectOutcomes
  <2>2. d \in SafeWorld
    BY <2>1, DialledSafe
  <2>3. d.win[v] \in Index
    BY DEF Dialled, SafeWorld, World
  <2>4. ConnectToServer(w, i, c, o, l) = IF o = "up" THEN LoginToServer(d, i, Answered(w.srv[i], l)) ELSE d
    BY <1>3 DEF ConnectToServer
  <2> HIDE DEF d
  <2>5. QED
    BY <2>2, <2>3, <2>4, LoginKeepsWindow, AnsweredIsAnswer
<1>4. QED
  BY <1>1, <1>2, <1>3

LEMMA Remainder ==
    ASSUME NEW a \in Int, NEW n \in Nat \ {0}
    PROVE  a % n \in 0 .. n - 1
OBVIOUS

LEMMA RemainderIsSlot ==
    ASSUME NEW w \in World, w.n > 0, NEW a \in Int
    PROVE  a % w.n \in Slots
<1>1. w.n \in Nat \ {0} /\ w.n <= MaxServers
  BY MaxServersAssumption DEF World
<1>2. a % w.n \in 0 .. w.n - 1
  BY <1>1, Remainder
<1>3. QED
  BY <1>1, <1>2, MaxServersAssumption DEF Slots

LEMMA GetConnectedSafe ==
    ASSUME NEW w \in SafeWorld, NEW s \in Int,
           NEW os \in [Slots -> ConnectOutcomes], NEW l \in LoginAnswers
    PROVE  GetConnected(w, s, os, l) \in SafeWorld
<1> DEFINE first == IF s = w.n THEN 0 ELSE IF s < 0 THEN w.n - 1 ELSE s
           At(k) == (first + k) % w.n
           Stops(i) == \/ Connects(w, i, os[i])
                       \/ w.srv[i].closePending /\ Open(w.srv[i])
           reached == {k \in 0 .. w.n - 1 : \A m \in 0 .. k - 1 : ~Stops(At(m))}
           ends == {k \in reached : Stops(At(k))}
           last == CHOOSE k \in ends : TRUE
           to == At(last)
           srv == [i \in Slots |-> IF \E k \in reached \ ends : i = At(k)
                                   THEN Hung(w.srv[i]) ELSE w.srv[i]]
           left == [w EXCEPT !.srv = srv]
           r == ConnectToServer(left, to, w.primary, os[to], l)
<1>1. w \in World /\ w.n \in Nat /\ first \in Int /\ w.primary \in Index
  BY MaxServersAssumption DEF SafeWorld, World
<1>2. left \in SafeWorld
  <2>1. srv \in [Slots -> SafeServer]
    BY HungSafe DEF SafeWorld
  <2> HIDE DEF srv
  <2>2. QED
    BY <1>1, <2>1, SMTT(30) DEF SafeWorld, World, SafeServer
<1>3. GetConnected(w, s, os, l) =
        IF ends = {} THEN left
        ELSE IF ~Connects(w, to, os[to])
             THEN [left EXCEPT !.srv[to] = Hung(@)]
        ELSE SetPrimary(r, to, last = 0 \/ ~IsConnected(w.srv[to]))
  BY DEF GetConnected
<1>4. ASSUME ends # {} PROVE to \in Slots
  <2>1. last \in ends
    BY <1>4
  <2>2. ends \subseteq Int
    BY <1>1
  <2> HIDE DEF ends, last
  <2>3. first + last \in Int
    BY <1>1, <2>1, <2>2, SMTT(30)
  <2>4. w.n > 0
    BY <1>1, <2>1 DEF ends
  <2>5. QED
    BY <1>1, <2>3, <2>4, RemainderIsSlot, SMTT(30)
<1> HIDE DEF first, At, Stops, reached, ends, last, to, left
<1>5. ASSUME ends # {} PROVE [left EXCEPT !.srv[to] = Hung(@)] \in SafeWorld
  <2>1. to \in Slots /\ left.srv[to] \in SafeServer
    BY <1>2, <1>4, <1>5 DEF SafeWorld
  <2>2. [left EXCEPT !.srv[to] = Hung(left.srv[to])] \in SafeWorld
    BY <1>2, <2>1, HungSafe, ReplaceEntry
  <2>3. QED
    BY <1>2, <2>2 DEF SafeWorld, World
<1>6. ASSUME ends # {} PROVE SetPrimary(r, to, last = 0 \/ ~IsConnected(w.srv[to])) \in SafeWorld
  <2>1. to \in Slots /\ os[to] \in ConnectOutcomes
    BY <1>4, <1>6
  <2>2. r \in SafeWorld
    BY <1>1, <1>2, <2>1, ConnectSafe
  <2> HIDE DEF r
  <2>3. (last = 0 \/ ~IsConnected(w.srv[to])) \in BOOLEAN
    OBVIOUS
  <2>4. QED
    BY <2>1, <2>2, <2>3, SetPrimarySafe
<1>7. QED
  BY <1>2, <1>3, <1>5, <1>6

LEMMA GroupGetConnectedNextSafe ==
    ASSUME NEW w \in SafeWorld, NEW i \in Slots,
           NEW os \in [Slots -> ConnectOutcomes], NEW l \in LoginAnswers
    PROVE  GroupGetConnectedNext(w, i, os, l) \in SafeWorld
<1> DEFINE Mate(k) == w.srv[(i + k) % w.n].group = w.srv[i].group
           next == {k \in 1 .. w.n - 1 : Mate(k) /\ \A m \in 1 .. k - 1 : ~Mate(m)}
           s == (i + (CHOOSE k \in next : TRUE)) % w.n
<1>1. w \in World /\ w.n \in Nat
  BY MaxServersAssumption DEF SafeWorld, World
<1>2. ASSUME next # {} PROVE s \in Int
  <2>1. PICK k \in next : k = CHOOSE m \in next : TRUE
    BY <1>2
  <2>2. k \in 1 .. w.n - 1
    OBVIOUS
  <2> HIDE DEF next
  <2>3. k \in Int /\ w.n > 0 /\ i + k \in Int
    BY <1>1, <2>2 DEF Slots
  <2>4. (i + k) % w.n \in Slots
    BY <1>1, <2>3, RemainderIsSlot
  <2>5. QED
    BY <2>1, <2>4 DEF Slots
<1>3. GroupGetConnectedNext(w, i, os, l) = IF next = {} THEN w
                                           ELSE GetConnected(w, s, os, l)
  BY DEF GroupGetConnectedNext
<1> HIDE DEF next, s
<1>4. QED
  BY <1>2, <1>3, GetConnectedSafe

-----------------------------------------------------------------------------
(* Losing a connection.                                                    *)

LEMMA TimesSafe ==
    ASSUME NEW w \in SafeWorld, NEW k \in 0 .. 2
    PROVE  [w EXCEPT !.times = k] \in SafeWorld
BY DEF SafeWorld, World

\* The counter stays within bounds because it is compared before it is raised.
LEMMA PrimaryLostSafe ==
    ASSUME NEW w \in SafeWorld, NEW i \in Slots,
           NEW os \in [Slots -> ConnectOutcomes], NEW l \in LoginAnswers
    PROVE  PrimaryLost(w, i, os, l) \in SafeWorld
<1>1. [WindowCheckServers(w) EXCEPT !.times = 0] \in SafeWorld
  <2>1. 0 \in 0 .. 2 /\ WindowCheckServers(w) \in SafeWorld
    BY CheckKeepsSafe
  <2>2. QED
    BY <2>1, TimesSafe
<1>2. GroupGetConnectedNext(w, i, os, l) \in SafeWorld
  BY GroupGetConnectedNextSafe
<1>3. ASSUME ~(w.times > 1)
      PROVE  GetConnected([w EXCEPT !.times = @ + 1], i, os, l) \in SafeWorld
  <2>1. w.times + 1 \in 0 .. 2
    BY <1>3 DEF SafeWorld, World
  <2>2. [w EXCEPT !.times = w.times + 1] \in SafeWorld
    BY <2>1, TimesSafe
  <2>3. i \in Int
    BY DEF Slots
  <2>4. [w EXCEPT !.times = @ + 1] = [w EXCEPT !.times = w.times + 1]
    BY DEF SafeWorld, World
  <2>5. QED
    BY <2>2, <2>3, <2>4, GetConnectedSafe
<1>4. QED
  BY <1>1, <1>2, <1>3 DEF PrimaryLost

LEMMA RedialSafe ==
    ASSUME NEW w \in SafeWorld, NEW i \in Slots, NEW o \in ConnectOutcomes,
           NEW l \in LoginAnswers
    PROVE  Redial(w, i, o, l) \in SafeWorld
<1>1. -1 \in Index
  BY MaxServersAssumption DEF Index
<1>2. ConnectToServer(w, i, -1, o, l) \in SafeWorld
  BY <1>1, ConnectSafe
<1>3. QED
  BY <1>2, CheckKeepsSafe DEF Redial

LEMMA MarkEofSafe ==
    ASSUME NEW w \in SafeWorld, NEW i \in Slots
    PROVE  [w EXCEPT !.srv[i].eof = TRUE] \in SafeWorld
<1> DEFINE s == [w.srv[i] EXCEPT !.eof = TRUE]
<1>1. w.srv[i] \in SafeServer /\ w.srv[i] \in Server /\ w \in World
  BY DEF SafeWorld, SafeServer
<1>2. s \in SafeServer
  BY <1>1 DEF SafeServer, Server, IsConnected, Open
<1>3. [w EXCEPT !.srv[i].eof = TRUE] = [w EXCEPT !.srv[i] = s]
  BY <1>1 DEF World, Server
<1> HIDE DEF s
<1>4. QED
  BY <1>2, <1>3, ReplaceEntry

LEMMA ServerEofSafe ==
    ASSUME NEW w \in SafeWorld, NEW i \in Slots,
           NEW os \in [Slots -> ConnectOutcomes], NEW l \in LoginAnswers
    PROVE  ServerEof(w, i, os, l) \in SafeWorld
<1> DEFINE old == w.srv[i].closeServ
           shut == CloseServer(w, i)
<1>1. shut \in SafeWorld
  BY CloseServerSafe
<1>2. old \notin {-1, i} => old \in Slots
  BY MaxServersAssumption DEF SafeWorld, World, Server, Index, Slots
<1>3. os[i] \in ConnectOutcomes
  OBVIOUS
<1> HIDE DEF old, shut
<1>4. /\ Redial(shut, i, os[i], l) \in SafeWorld
      /\ WindowCheckServers(shut) \in SafeWorld
      /\ PrimaryLost(shut, i, os, l) \in SafeWorld
      /\ old \notin {-1, i} => ReestablishCloseServer(shut, i, old) \in SafeWorld
  BY <1>1, <1>2, <1>3, RedialSafe, CheckKeepsSafe, PrimaryLostSafe, ReestablishSafe
<1>5. QED
  BY <1>4, MarkEofSafe DEF ServerEof, old, shut

-----------------------------------------------------------------------------
(* Adding and removing entries.                                            *)

LEMMA BlankSafe == Blank \in SafeServer
<1>1. -1 \in Index
  BY MaxServersAssumption DEF Index
<1>2. QED
  BY <1>1 DEF Blank, SafeServer, Server, IsConnected, Open

\* An entry the user adds is safe whatever its group and kind.
LEMMA NewEntriesSafe == NewEntries \subseteq SafeServer
<1> SUFFICES ASSUME NEW e \in NewEntries PROVE e \in SafeServer
  OBVIOUS
<1>1. PICK k \in Groups \X Ssls : e = [Blank EXCEPT !.group = k[1], !.ssl = k[2]]
  BY Zenon DEF NewEntries
<1> DEFINE g == k[1]
           t == k[2]
<1>2. g \in {0, 1} /\ t \in BOOLEAN
  BY InputAssumption, FlagsAssumption
<1>3. e \in Server
  <2>1. Blank \in Server
    BY BlankSafe DEF SafeServer
  <2>2. \A b \in Server : [b EXCEPT !.group = g, !.ssl = t] \in Server
    BY <1>2 DEF Server
  <2>3. QED
    BY <1>1, <2>1, <2>2
<1>4. ~e.connected /\ ~e.clearPending
  BY <1>1 DEF Blank
<1>5. QED
  BY <1>3, <1>4 DEF SafeServer, IsConnected

\* Whatever a command may add to the list is a safe entry.
LEMMA UnlistedSafe ==
    ASSUME NEW i, NEW s \in Unlisted(i) PROVE s \in SafeServer
BY BlankSafe, NewEntriesSafe DEF Unlisted

LEMMA NamedSafe ==
    ASSUME NEW w \in SafeWorld, NEW i \in Slots, i <= w.n, NEW s \in SafeServer
    PROVE  Named(w, i, s) \in SafeWorld
<1>1. s \in SafeServer
  OBVIOUS
<1>2. ASSUME ~(i < w.n) PROVE w.n + 1 \in 0 .. MaxServers
  BY <1>2, MaxServersAssumption DEF Slots, SafeWorld, World
<1>3. ASSUME ~(i < w.n)
      PROVE  [w EXCEPT !.n = w.n + 1, !.srv[i] = s] \in SafeWorld
  BY <1>1, <1>2, <1>3 DEF SafeWorld, World, SafeServer
<1>4. [w EXCEPT !.n = @ + 1, !.srv[i] = s] = [w EXCEPT !.n = w.n + 1, !.srv[i] = s]
  BY DEF SafeWorld, World
<1>5. QED
  BY <1>3, <1>4 DEF Named

LEMMA LoweredSafe ==
    ASSUME NEW w \in SafeWorld, NEW i \in Entries(w)
    PROVE  Lowered(w, i) \in SafeWorld
<1> DEFINE shut == CloseServer(w, i)
           Down(k) == IF k > i THEN k - 1 ELSE k
           srv == [j \in Slots |-> IF j < i THEN shut.srv[j]
                                   ELSE IF j + 1 < w.n THEN shut.srv[j + 1]
                                   ELSE Blank]
           win == [v \in Windows |-> Down(w.win[v])]
<1>1. i \in Slots /\ i < w.n /\ w.n \in 0 .. MaxServers
  BY DEF Entries, SafeWorld, World
<1>2. shut \in SafeWorld /\ shut.n = w.n /\ shut.primary = w.primary
  <2>1. shut \in SafeWorld
    BY <1>1, CloseServerSafe
  <2>2. QED
    BY <2>1 DEF CloseServer, SafeWorld, World
<1>3. srv \in [Slots -> SafeServer]
  <2>1. shut.srv \in [Slots -> SafeServer]
    BY <1>2 DEF SafeWorld
  <2> HIDE DEF shut
  <2>2. ASSUME NEW j \in Slots PROVE srv[j] \in SafeServer
    <3>1. CASE j < i
      BY <2>1, <3>1
    <3>2. CASE ~(j < i) /\ j + 1 < w.n
      <4>1. j + 1 \in Slots
        BY <1>1, <3>2, MaxServersAssumption DEF Slots
      <4>2. QED
        BY <2>1, <3>2, <4>1
    <3>3. CASE ~(j < i) /\ ~(j + 1 < w.n)
      BY <3>3, BlankSafe
    <3>4. QED
      BY <3>1, <3>2, <3>3
  <2>3. QED
    BY <2>2
<1>4. win \in [Windows -> Index \cup {NoWindow}]
  BY <1>1, MaxServersAssumption DEF SafeWorld, World, Index, Slots, NoWindow
<1>5. Down(w.primary) \in Index /\ w.n - 1 \in 0 .. MaxServers
  BY <1>1, MaxServersAssumption DEF SafeWorld, World, Index, Slots
<1>6. Lowered(w, i) = [shut EXCEPT !.n = w.n - 1, !.srv = srv, !.win = win,
                                   !.primary = Down(w.primary)]
  <2>1. shut.n = w.n /\ shut.primary = w.primary
    BY <1>2
  <2> HIDE DEF srv, win
  <2>2. QED
    BY <1>2, <2>1 DEF Lowered, SafeWorld, World, srv, win
<1> DEFINE p == Down(w.primary)
           m == w.n - 1
<1> HIDE DEF shut, srv, win, p, m
<1>7. [shut EXCEPT !.n = m, !.srv = srv, !.win = win, !.primary = p] \in SafeWorld
  <2>1. srv \in [Slots -> Server]
    BY <1>3 DEF SafeServer
  <2>2. p \in Index /\ m \in 0 .. MaxServers
    BY <1>5 DEF p, m
  <2>3. QED
    BY <1>2, <1>3, <1>4, <2>1, <2>2 DEF SafeWorld, World
<1>8. QED
  BY <1>6, <1>7 DEF p, m

-----------------------------------------------------------------------------
(* The invariant.                                                          *)

Safe == world \in SafeWorld

LEMMA InitSafe == Init => Safe
<1> SUFFICES ASSUME NEW n \in 1 .. MaxServers, NEW new \in [Slots -> NewEntries],
                    NEW v \in Windows,
                    world = [n |-> n,
                             srv |-> [i \in Slots |-> IF i < n THEN new[i] ELSE Blank],
                             win |-> [u \in Windows |-> IF u = v THEN -1 ELSE NoWindow],
                             primary |-> -1, times |-> 0, asked |-> -1, alive |-> FALSE]
             PROVE  Safe
  BY DEF Init
<1> DEFINE srv == [i \in Slots |-> IF i < n THEN new[i] ELSE Blank]
           win == [u \in Windows |-> IF u = v THEN -1 ELSE NoWindow]
<1>1. srv \in [Slots -> SafeServer]
  BY BlankSafe, NewEntriesSafe
<1>2. -1 \in Index /\ n \in 0 .. MaxServers
  BY MaxServersAssumption DEF Index
<1>3. win \in [Windows -> Index \cup {NoWindow}]
  BY <1>2
<1>4. world = [n |-> n, srv |-> srv, win |-> win, primary |-> -1, times |-> 0,
               asked |-> -1, alive |-> FALSE]
  OBVIOUS
<1> HIDE DEF srv, win
<1>5. srv \in [Slots -> Server]
  BY <1>1 DEF SafeServer
<1>6. world \in World
  BY <1>2, <1>3, <1>4, <1>5 DEF World
<1>7. world.srv = srv
  BY <1>4
<1>8. QED
  BY <1>1, <1>6, <1>7 DEF Safe, SafeWorld

LEMMA NetworkSafe ==
    ASSUME Safe, NEW i \in Slots, NetAccept(i) \/ NetFail(i)
    PROVE  Safe'
<1>1. world.srv[i] \in SafeServer /\ world.srv[i] \in Server /\ world \in World
  BY DEF Safe, SafeWorld, SafeServer
<1>2. ASSUME NEW k \in {"up", "dead"}, world' = [world EXCEPT !.srv[i].sock = k]
      PROVE  Safe'
  <2> DEFINE s == [world.srv[i] EXCEPT !.sock = k]
  <2>1. s \in SafeServer
    BY <1>1 DEF SafeServer, Server, IsConnected, Open
  <2>2. world' = [world EXCEPT !.srv[i] = s]
    BY <1>1, <1>2 DEF World, Server
  <2> HIDE DEF s
  <2>3. QED
    BY <2>1, <2>2, ReplaceEntry DEF Safe
<1>3. QED
  BY <1>2 DEF NetAccept, NetFail

\* An entry that answers has a descriptor, so that logging it in is safe.
LEMMA AnswersSafe ==
    ASSUME NEW s, NEW l \in LoginOutcomes(s) PROVE l \in LoginAnswers
BY DEF LoginOutcomes, LoginAnswers

LEMMA DoServerAcceptedSafe ==
    ASSUME Safe, NEW i \in Slots, DoServerAccepted(i) \/ DoServerHandshake(i)
    PROVE  Safe'
<1>1. PICK l \in LoginOutcomes(world.srv[i]) : world' = LoginToServer(world, i, l)
  BY DEF DoServerAccepted, DoServerHandshake
<1>2. Open(world.srv[i])
  BY DEF DoServerAccepted, DoServerHandshake, Handshaking, Open
<1>3. QED
  BY <1>1, <1>2, AnswersSafe, LoginSafe DEF Safe

LEMMA DoServerEofSafe ==
    ASSUME Safe, NEW i \in Slots, DoServerEof(i)
    PROVE  Safe'
<1>1. PICK os \in [Slots -> ConnectOutcomes], l \in LoginAnswers,
           m \in LoginOutcomes(world.srv[i]) :
           LET in == IF world.srv[i].loggedIn THEN world
                                             ELSE LoginToServer(world, i, m)
           IN  world' = IF in.srv[i].loggedIn THEN ServerEof(in, i, os, l) ELSE in
  BY DEF DoServerEof, LoginAnswers, Answers, Dials
<1> DEFINE in == IF world.srv[i].loggedIn THEN world ELSE LoginToServer(world, i, m)
<1>2. in \in SafeWorld
  <2>1. Open(world.srv[i])
    BY DEF DoServerEof, Open
  <2>2. LoginToServer(world, i, m) \in SafeWorld
    BY <2>1, AnswersSafe, LoginSafe DEF Safe
  <2>3. QED
    BY <2>2 DEF Safe
<1>3. world' = IF in.srv[i].loggedIn THEN ServerEof(in, i, os, l) ELSE in
  BY <1>1
<1> HIDE DEF in
<1>4. QED
  BY <1>2, <1>3, ServerEofSafe DEF Safe

LEMMA WelcomeSafe ==
    ASSUME Safe, NEW i \in Slots, Welcome(i)
    PROVE  Safe'
<1> DEFINE s == [world.srv[i] EXCEPT !.connected = TRUE, !.eof = FALSE]
<1>1. world.srv[i] \in SafeServer /\ world.srv[i] \in Server /\ world \in World
  BY DEF Safe, SafeWorld, SafeServer
<1>2. s \in SafeServer
  BY <1>1 DEF Welcome, Talking, SafeServer, Server, IsConnected, Open
<1>3. world' = [world EXCEPT !.srv[i] = s]
  BY <1>1 DEF Welcome, World, Server
<1> HIDE DEF s
<1>4. QED
  BY <1>2, <1>3, ReplaceEntry DEF Safe

LEMMA ClosedBySafe ==
    ASSUME Safe, NEW i \in Entries(world), Killed(i) \/ NoPermission(i) \/ Banned(i)
    PROVE  Safe'
<1> DEFINE w == WindowCheckServers(CloseServer(world, i))
<1>1. i \in Slots
  BY DEF Entries
<1>2. w \in SafeWorld
  BY <1>1, CloseServerSafe, CheckKeepsSafe DEF Safe
<1>3. CASE Killed(i)
  BY <1>2, <1>3 DEF Killed, Safe
<1>4. CASE NoPermission(i)
  <2>1. \/ world' = w
        \/ \E os \in [Slots -> ConnectOutcomes], l \in LoginAnswers :
              world' = GetConnected(w, i + 1, os, l)
    BY <1>4 DEF NoPermission, LoginAnswers, Answers, Dials
  <2>2. i + 1 \in Int
    BY <1>1 DEF Slots
  <2> HIDE DEF w
  <2>3. QED
    BY <1>2, <2>1, <2>2, GetConnectedSafe DEF Safe
<1>5. CASE Banned(i)
  <2>1. world' = IF w.n > 1 THEN Lowered(w, i) ELSE w
    BY <1>5 DEF Banned
  <2>2. w.n = world.n
    BY <1>1 DEF WindowCheckServers, CloseServer, Safe, SafeWorld, World
  <2> HIDE DEF w
  <2>3. i \in Entries(w)
    BY <2>2 DEF Entries
  <2>4. QED
    BY <1>2, <2>1, <2>3, LoweredSafe DEF Safe
<1>6. QED
  BY <1>3, <1>4, <1>5

LEMMA AskedSafe ==
    ASSUME NEW w \in SafeWorld, NEW i \in Index
    PROVE  [w EXCEPT !.asked = i] \in SafeWorld
BY DEF SafeWorld, World

LEMMA PasswordSafe ==
    ASSUME Safe, PasswordSendline \/ (\E i \in Slots : GetPassword(i))
    PROVE  Safe'
<1>1. -1 \in Index /\ Slots \subseteq Index
  BY MaxServersAssumption DEF Index, Slots
<1>2. CASE PasswordSendline
  <2>1. PICK o \in ConnectOutcomes, l \in LoginAnswers :
             world' = [ConnectToServer(world, world.asked, -1, o, l) EXCEPT !.asked = -1]
    BY <1>2, OutcomesAssumption DEF PasswordSendline, LoginAnswers, Answers
  <2>2. world.asked \in Slots
    BY <1>2, MaxServersAssumption DEF PasswordSendline, Safe, SafeWorld, World, Index, Slots
  <2>3. ConnectToServer(world, world.asked, -1, o, l) \in SafeWorld
    BY <1>1, <2>2, ConnectSafe DEF Safe
  <2>4. QED
    BY <1>1, <2>1, <2>3, AskedSafe DEF Safe
<1>3. ASSUME NEW i \in Slots, GetPassword(i) PROVE Safe'
  <2>1. CloseServer(world, i) \in SafeWorld
    BY CloseServerSafe DEF Safe
  <2>2. QED
    BY <1>1, <1>3, <2>1, AskedSafe DEF GetPassword, Safe
<1>4. QED
  BY <1>2, <1>3

-----------------------------------------------------------------------------
(* What the user types.                                                    *)

LEMMA AnsweredSafe ==
    ASSUME NEW w \in SafeWorld, NEW i \in Slots, NEW c \in Index,
           NEW o \in ConnectOutcomes, NEW l \in LoginAnswers, NEW transfer \in BOOLEAN
    PROVE  /\ ConnectToServer(w, i, c, o, l) \in SafeWorld
           /\ SetPrimary(ConnectToServer(w, i, c, o, l), i, transfer) \in SafeWorld
BY ConnectSafe, SetPrimarySafe

LEMMA ServerCmdSafe ==
    ASSUME Safe, NEW i \in Slots, ServerCmd(i)
    PROVE  Safe'
<1>1. PICK o \in ConnectOutcomes, l \in LoginAnswers, new \in Unlisted(i) :
           LET w == Named(world, i, new)
               r == ConnectToServer(w, i, w.primary, o, l)
           IN  world' = IF Connects(w, i, o)
                        THEN SetPrimary(r, i, ~IsConnected(w.srv[i])) ELSE r
  BY OutcomesAssumption, ZenonT(60) DEF ServerCmd, LoginAnswers, Answers
<1> DEFINE w == Named(world, i, new)
           r == ConnectToServer(w, i, w.primary, o, l)
           transfer == ~IsConnected(w.srv[i])
<1>2. w \in SafeWorld
  BY UnlistedSafe, NamedSafe DEF ServerCmd, Safe
<1>3. world' = IF Connects(w, i, o) THEN SetPrimary(r, i, transfer) ELSE r
  BY <1>1
<1>4. transfer \in BOOLEAN
  OBVIOUS
<1> HIDE DEF w, transfer
<1>5. w.primary \in Index
  BY <1>2 DEF SafeWorld, World
<1>6. r \in SafeWorld /\ SetPrimary(r, i, transfer) \in SafeWorld
  BY <1>2, <1>4, <1>5, AnsweredSafe
<1>7. QED
  BY <1>3, <1>6 DEF Safe

LEMMA ServerStepSafe ==
    ASSUME Safe, NEW d \in {-1, 1}, ServerStep(d)
    PROVE  Safe'
<1>1. PICK os \in [Slots -> ConnectOutcomes], l \in LoginAnswers :
           world' = GetConnected(world, world.primary + d, os, l)
  BY DEF ServerStep, LoginAnswers, Answers, Dials
<1>2. world.primary + d \in Int
  BY MaxServersAssumption DEF Safe, SafeWorld, World, Index
<1>3. QED
  BY <1>1, <1>2, GetConnectedSafe DEF Safe

\* Windows are not disturbed by connecting, so that v exists when it moves.
LEMMA WindowServerSafe ==
    ASSUME Safe, NEW v \in Windows, NEW i \in Slots, NEW every \in BOOLEAN,
           WindowServer(v, i, every)
    PROVE  Safe'
<1>1. PICK o \in ConnectOutcomes, l \in LoginAnswers, new \in Unlisted(i) :
           LET w == Named(world, i, new)
               all == every \/ \A u \in Windows \ {v} : w.win[u] # w.win[v]
               r == ConnectToServer(w, i, IF all THEN w.win[v] ELSE -1, o, l)
           IN  world' = WindowCheckServers(
                    IF Connects(w, i, o)
                    THEN SetWindow(r, v, i, ~IsConnected(w.srv[i]), all) ELSE r)
  BY OutcomesAssumption, ZenonT(60) DEF WindowServer, LoginAnswers, Answers
<1> DEFINE w == Named(world, i, new)
           all == every \/ \A u \in Windows \ {v} : w.win[u] # w.win[v]
           r == ConnectToServer(w, i, IF all THEN w.win[v] ELSE -1, o, l)
           transfer == ~IsConnected(w.srv[i])
           c == IF all THEN w.win[v] ELSE -1
<1>2. w \in SafeWorld
  BY UnlistedSafe, NamedSafe DEF WindowServer, Safe
<1>3. world' = WindowCheckServers(IF Connects(w, i, o)
                                  THEN SetWindow(r, v, i, transfer, all) ELSE r)
  BY <1>1
<1>4. transfer \in BOOLEAN /\ all \in BOOLEAN
  OBVIOUS
<1>5. w.win[v] \in Index
  <2>1. world.win[v] \in Index
    BY DEF WindowServer, Safe, SafeWorld, World
  <2>2. QED
    BY <2>1 DEF Named, Safe, SafeWorld, World
<1>6. c \in Index
  BY <1>5, MaxServersAssumption DEF Index
<1>7. r = ConnectToServer(w, i, c, o, l)
  OBVIOUS
<1> HIDE DEF w, transfer, all, c, r
<1>8. r \in SafeWorld /\ r.win[v] \in Index
  BY <1>2, <1>5, <1>6, <1>7, ConnectSafe, ConnectKeepsWindow
<1>9. r.win[v] # NoWindow
  BY <1>8, MaxServersAssumption DEF Index, NoWindow
<1>10. SetWindow(r, v, i, transfer, all) \in SafeWorld
  BY <1>4, <1>8, <1>9, SetWindowSafe
<1>11. QED
  BY <1>3, <1>8, <1>10, CheckKeepsSafe DEF Safe

LEMMA DisconnectSafe ==
    ASSUME Safe, NEW i \in Slots, Disconnect(i)
    PROVE  Safe'
<1> DEFINE old == world.srv[i].closeServ
           shut == [CloseServer(world, i) EXCEPT !.srv[i].eof = TRUE]
<1>1. world' = WindowCheckServers(IF old \notin {-1, i}
                                  THEN Resume(shut, i, old) ELSE shut)
  BY DEF Disconnect
<1>2. shut \in SafeWorld
  BY CloseServerSafe, MarkEofSafe DEF Safe
<1>3. old \notin {-1, i} => old \in Slots
  BY MaxServersAssumption DEF Safe, SafeWorld, World, Server, Index, Slots
<1> HIDE DEF old, shut
<1>4. QED
  BY <1>1, <1>2, <1>3, ResumeLoose, SafeIsLoose, CheckSafe DEF Safe

LEMMA WindowsSafe ==
    ASSUME Safe, NEW v \in Windows, NewWindow(v) \/ DeleteWindow(v)
    PROVE  Safe'
<1>1. ASSUME NEW k \in Index \cup {NoWindow}
      PROVE  [world EXCEPT !.win[v] = k] \in SafeWorld
  BY DEF Safe, SafeWorld, World
<1>2. CASE NewWindow(v)
  <2>1. PICK u \in Windows : world' = [world EXCEPT !.win[v] = world.win[u]]
    BY <1>2 DEF NewWindow
  <2>2. world.win[u] \in Index \cup {NoWindow}
    BY DEF Safe, SafeWorld, World
  <2>3. QED
    BY <1>1, <2>1, <2>2 DEF Safe
<1>3. CASE DeleteWindow(v)
  BY <1>1, <1>3, CheckKeepsSafe DEF DeleteWindow, Safe
<1>4. QED
  BY <1>2, <1>3

LEMMA JoinChannelSafe ==
    ASSUME Safe, NEW i \in Slots, NEW c \in Channels, JoinChannel(i, c)
    PROVE  Safe'
<1> DEFINE s == [world.srv[i] EXCEPT !.chans = @ \cup {c}]
<1>1. world.srv[i] \in SafeServer /\ world.srv[i] \in Server /\ world \in World
  BY DEF Safe, SafeWorld, SafeServer
<1>2. s \in SafeServer
  BY <1>1 DEF SafeServer, Server, IsConnected, Open
<1>3. world' = [world EXCEPT !.srv[i] = s]
  BY <1>1 DEF JoinChannel, World, Server
<1> HIDE DEF s
<1>4. QED
  BY <1>2, <1>3, ReplaceEntry DEF Safe

-----------------------------------------------------------------------------
(* The theorems.                                                           *)

LEMMA NextSafe == Safe /\ [Next]_vars => Safe'
<1> SUFFICES ASSUME Safe, [Next]_vars PROVE Safe'
  OBVIOUS
<1>1. CASE UNCHANGED vars
  BY <1>1 DEF vars, Safe
<1>2. CASE Network
  BY <1>2, NetworkSafe DEF Network, Entries
<1>3. ASSUME NEW i \in Entries(world), DoServer(i) PROVE Safe'
  <2>1. i \in Slots
    BY DEF Entries
  <2>2. QED
    BY <1>3, <2>1, DoServerAcceptedSafe, DoServerEofSafe, WelcomeSafe, ClosedBySafe,
       PasswordSafe DEF DoServer
<1>4. CASE User
  <2>1. ASSUME NEW i \in Slots, ServerCmd(i) PROVE Safe'
    BY <2>1, ServerCmdSafe
  <2>2. ASSUME NEW d \in {-1, 1}, ServerStep(d) PROVE Safe'
    BY <2>2, ServerStepSafe
  <2>3. ASSUME NEW v \in Windows, NEW i \in Slots, NEW every \in BOOLEAN,
               WindowServer(v, i, every)
        PROVE  Safe'
    BY <2>3, WindowServerSafe
  <2>4. ASSUME NEW i \in Entries(world), Disconnect(i) \/ DeleteServer(i)
        PROVE  Safe'
    BY <2>4, DisconnectSafe, LoweredSafe DEF DeleteServer, Entries, Safe
  <2>5. ASSUME NEW v \in Windows, NewWindow(v) \/ DeleteWindow(v) PROVE Safe'
    BY <2>5, WindowsSafe
  <2>6. ASSUME NEW i \in Entries(world), NEW c \in Channels, JoinChannel(i, c)
        PROVE  Safe'
    BY <2>6, JoinChannelSafe DEF Entries
  <2>7. QED
    BY <1>4, <2>1, <2>2, <2>3, <2>4, <2>5, <2>6, PasswordSafe DEF User
<1>5. QED
  BY <1>1, <1>2, <1>3, <1>4 DEF Next

LEMMA SafeInvariant == Spec => []Safe
<1>1. Init => Safe
  BY InitSafe
<1>2. Safe /\ [Next]_vars => Safe'
  BY NextSafe
<1>3. QED
  BY <1>1, <1>2, PTL DEF Spec

\* The globals keep their types whatever the user, the network and the servers
\* do; in particular times, which do_server() never resets on success, stays
\* within 0 .. 2.
THEOREM TypeCorrect == Spec => []TypeOK
<1>1. Safe => TypeOK
  BY DEF Safe, SafeWorld, TypeOK
<1>2. QED
  BY <1>1, SafeInvariant, PTL

\* A server that counts as connected has a descriptor: close_server() may
\* refuse to reset an entry, and reestablish_close_server() may mark one
\* connected that was closed, but no handler ends with the two in conflict.
THEOREM ConnectedAlwaysOpen == Spec => []ConnectedIsOpen
<1>1. Safe => ConnectedIsOpen
  BY DEF Safe, SafeWorld, SafeServer, ConnectedIsOpen
<1>2. QED
  BY <1>1, SafeInvariant, PTL

\* A channel list is marked for clearing only while the server is to be closed,
\* although the two flags are set and reset by different functions.
THEOREM ClearOnlyWhileClosing == Spec => []ClearOnlyIfPending
<1>1. Safe => ClearOnlyIfPending
  BY DEF Safe, SafeWorld, SafeServer, ClearOnlyIfPending
<1>2. QED
  BY <1>1, SafeInvariant, PTL

=============================================================================
