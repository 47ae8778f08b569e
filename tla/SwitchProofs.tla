--------------------------- MODULE SwitchProofs ---------------------------
(***************************************************************************)
(* Proofs about Servers that concern a switch from one server to another,  *)
(* for any number of servers, windows and channels: SwitchConsistent and   *)
(* OldConnectionKept.                                                      *)
(*                                                                         *)
(* They hold if the user begins no switch while one is unfinished and      *)
(* moves all windows at once (OnlySwitches); what goes wrong otherwise is  *)
(* in the README.  Then there is one switch at a time: the invariant       *)
(* OneSwitch says that all windows are with the primary server, that only  *)
(* the primary server holds another entry back, that only the entry it     *)
(* holds back is CLOSE_PENDING, and that nothing else is open.             *)
(*                                                                         *)
(* The C functions keep it only together: between them it is weaker, and   *)
(* each weaker form has a name.  Ready: a new server is being connected    *)
(* and the windows have not followed yet.  Failed: it is closed, and the   *)
(* old one still waits to be closed.  Gathered: the windows have been      *)
(* moved, and window_check_servers() has to close what has none.  Still:   *)
(* no switch is under way.                                                 *)
(***************************************************************************)
EXTENDS ServersProofs, FiniteSetTheorems

\* The constants under which a switch is claimed to be orderly.
OnlySwitches == Patient /\ Commands \subseteq {"server", "disconnect"}

\* x is an entry of the list, or there is no server.
Serves(w, x) == x = -1 \/ x \in Entries(w)

\* Every window that exists is with x, and there is one.
Together(w, x) ==
    /\ \A v \in Windows : w.win[v] \in {x, NoWindow}
    /\ \E v \in Windows : w.win[v] = x

\* Only x holds another entry back, and only what x holds back is pending.
Held(w, x) ==
    /\ \A i \in Slots : w.srv[i].closeServ # -1 =>
          /\ i = x /\ Open(w.srv[i]) /\ ~w.srv[i].loggedIn
          /\ w.srv[i].closeServ # i /\ w.srv[w.srv[i].closeServ].closePending
    /\ \A j \in Slots : w.srv[j].closePending =>
          x \in Slots /\ w.srv[x].closeServ = j /\ j \in Entries(w)

\* No switch is under way.
Still(w) == \A j \in Slots : w.srv[j].closeServ = -1 /\ ~w.srv[j].closePending

\* At most one switch is under way: the invariant.
OneSwitch(w) ==
    /\ w.asked = -1
    /\ Serves(w, w.primary) /\ Together(w, w.primary) /\ Held(w, w.primary)
    /\ \A j \in Slots : Open(w.srv[j]) => j = w.primary \/ w.srv[j].closePending

\* Slots beyond the list have no descriptor.
OnlyListed(w) == \A j \in Slots : Open(w.srv[j]) => j \in Entries(w)

\* What window_check_servers() needs to find to leave one switch: all windows
\* with x, which is the primary server or takes its place.
Gathered(w, x) ==
    /\ w.asked = -1
    /\ Serves(w, x) /\ Together(w, x) /\ Held(w, x) /\ OnlyListed(w)
    /\ w.primary = x \/ w.primary = -1 \/ ~Open(w.srv[w.primary])

\* What window_set_server() needs to find to make new the primary server.
Ready(w, new) ==
    /\ w.asked = -1
    /\ new \in Entries(w)
    /\ Serves(w, w.primary) /\ Together(w, w.primary) /\ Held(w, new) /\ OnlyListed(w)
    /\ w.primary = new =>
          \A j \in Slots : Open(w.srv[j]) => j = new \/ w.srv[j].closePending

-----------------------------------------------------------------------------
LEMMA StillIsHeld == ASSUME NEW w, NEW x, Still(w) PROVE Held(w, x)
BY Zenon DEF Still, Held

LEMMA OneSwitchListed ==
    ASSUME NEW w, OneSwitch(w) PROVE OnlyListed(w)
<1>1. ASSUME NEW j \in Slots, Open(w.srv[j]) PROVE j \in Entries(w)
  <2>1. CASE j = w.primary
    <3>1. j # -1
      BY DEF Slots
    <3>2. QED
      BY <2>1, <3>1 DEF OneSwitch, Serves
  <2>2. CASE w.srv[j].closePending
    BY <2>2 DEF OneSwitch, Held
  <2>3. QED
    BY <1>1, <2>1, <2>2 DEF OneSwitch
<1>2. QED
  BY <1>1 DEF OnlyListed

LEMMA OneSwitchGathered ==
    ASSUME NEW w, OneSwitch(w) PROVE Gathered(w, w.primary)
BY OneSwitchListed DEF OneSwitch, Gathered

LEMMA StillReady ==
    ASSUME NEW w, NEW i \in Entries(w), OneSwitch(w), Still(w)
    PROVE  Ready(w, i)
BY OneSwitchListed, StillIsHeld DEF OneSwitch, Ready

\* With no entry waiting to be closed there is no switch under way.
LEMMA NothingPending ==
    ASSUME NEW w \in SafeWorld, OneSwitch(w),
           \A j \in Entries(w) : ~w.srv[j].closePending
    PROVE  Still(w)
<1>1. ASSUME NEW j \in Slots PROVE ~w.srv[j].closePending
  BY <1>1 DEF OneSwitch, Held
<1>2. ASSUME NEW j \in Slots PROVE w.srv[j].closeServ = -1
  <2>1. w.srv[j].closeServ \in Index
    BY DEF SafeWorld, World, Server
  <2>2. w.srv[j].closeServ # -1 => w.srv[j].closeServ \in Slots
    BY <2>1, MaxServersAssumption DEF Index, Slots
  <2>3. QED
    BY <1>1, <2>2 DEF OneSwitch, Held
<1>3. QED
  BY <1>1, <1>2 DEF Still

\* An entry that is not connecting holds nothing back; if it is the primary one,
\* no switch is under way.
LEMMA NotHolding ==
    ASSUME NEW w \in SafeWorld, OneSwitch(w), NEW i \in Slots,
           w.srv[i].loggedIn \/ ~Open(w.srv[i])
    PROVE  w.srv[i].closeServ = -1
BY DEF OneSwitch, Held

LEMMA PrimaryStill ==
    ASSUME NEW w \in SafeWorld, OneSwitch(w),
           w.primary = -1 \/ w.srv[w.primary].closeServ = -1
    PROVE  Still(w)
<1>1. -1 \notin Slots
  BY DEF Slots
<1>2. ASSUME NEW j \in Slots PROVE ~w.srv[j].closePending
  BY <1>1, <1>2 DEF OneSwitch, Held
<1>3. QED
  BY <1>2, NothingPending DEF Entries

\* What a switch depends on: other fields of the entries may change.
LEMMA Alike ==
    ASSUME NEW v, NEW w, OneSwitch(w),
           v.n = w.n, v.asked = w.asked, v.primary = w.primary, v.win = w.win,
           \A j \in Slots : /\ Open(v.srv[j]) <=> Open(w.srv[j])
                            /\ v.srv[j].closeServ = w.srv[j].closeServ
                            /\ v.srv[j].closePending = w.srv[j].closePending
                            /\ \/ v.srv[j].loggedIn = w.srv[j].loggedIn
                               \/ w.srv[j].closeServ = -1
           , w \in SafeWorld
    PROVE  OneSwitch(v) /\ (Still(w) => Still(v))
<1>1. Entries(v) = Entries(w)
  BY DEF Entries
<1>2. Serves(v, v.primary) /\ Together(v, v.primary)
  BY <1>1 DEF OneSwitch, Serves, Together
<1>3. ASSUME NEW i \in Slots
      PROVE  w.srv[i].closeServ # -1 => w.srv[i].closeServ \in Slots
  <2>1. w.srv[i].closeServ \in Index
    BY DEF SafeWorld, World, Server
  <2>2. QED
    BY <2>1, MaxServersAssumption DEF Index, Slots
<1>4. ASSUME NEW i \in Slots, v.srv[i].closeServ # -1
      PROVE  /\ i = v.primary /\ Open(v.srv[i]) /\ ~v.srv[i].loggedIn
             /\ v.srv[i].closeServ # i /\ v.srv[v.srv[i].closeServ].closePending
  BY <1>3, <1>4 DEF OneSwitch, Held
<1>5. ASSUME NEW j \in Slots, v.srv[j].closePending
      PROVE  v.primary \in Slots /\ v.srv[v.primary].closeServ = j /\ j \in Entries(v)
  BY <1>1, <1>5 DEF OneSwitch, Held
<1>6. Held(v, v.primary)
  BY <1>4, <1>5 DEF Held
<1>7. QED
  BY <1>2, <1>6 DEF OneSwitch, Still

-----------------------------------------------------------------------------
(* The upkeep of windows.                                                  *)

\* No window's server survives: everything is closed and nobody is pending.
LEMMA NobodyServes ==
    ASSUME NEW w \in LooseWorld, NEW x, Gathered(w, x), x = -1 \/ ~Open(w.srv[x])
    PROVE  Still(w) /\ \A i \in Slots : ~HasWindow(w, i)
<1>1. ASSUME NEW i \in Slots PROVE w.srv[i].closeServ = -1
  BY <1>1 DEF Gathered, Held, Slots
<1>2. ASSUME NEW j \in Slots PROVE ~w.srv[j].closePending
  <2>1. j # -1
    BY DEF Slots
  <2>2. QED
    BY <1>1, <2>1 DEF Gathered, Held
<1>3. ASSUME NEW i \in Slots, HasWindow(w, i) PROVE FALSE
  <2>1. Open(w.srv[i]) /\ i # -1 /\ i # NoWindow
    BY <1>3 DEF HasWindow, Slots, NoWindow
  <2>2. i # x
    BY <2>1
  <2>3. i # w.primary
    BY <2>1, <2>2 DEF Gathered
  <2>4. \A v \in Windows : w.win[v] # i
    BY <2>1, <2>2 DEF Gathered, Together
  <2>5. QED
    BY <1>3, <2>3, <2>4 DEF HasWindow
<1>4. QED
  BY <1>1, <1>2, <1>3 DEF Still

\* The window's server survives, and is the only one.
LEMMA OneServes ==
    ASSUME NEW w \in LooseWorld, NEW x \in Slots, Gathered(w, x), Open(w.srv[x])
    PROVE  /\ \A i \in Slots : HasWindow(w, i) <=> i = x
           /\ Prime(w) = x
           /\ \A v \in Windows, i \in Slots : v \notin OnClosed(w, i)
<1>1. x \in Entries(w) /\ x # -1
  BY DEF Gathered, OnlyListed, Slots
<1>2. HasWindow(w, x)
  BY DEF Gathered, Together, HasWindow
<1>3. ASSUME NEW i \in Slots, HasWindow(w, i) PROVE i = x
  <2>1. Open(w.srv[i]) /\ i # NoWindow /\ i # -1
    BY <1>3 DEF HasWindow, Slots, NoWindow
  <2>2. i = w.primary => i = x
    BY <2>1 DEF Gathered
  <2>3. (\E v \in Windows : w.win[v] = i) => i = x
    BY <2>1 DEF Gathered, Together
  <2>4. QED
    BY <1>3, <2>2, <2>3 DEF HasWindow
<1>4. Prime(w) = x
  <2> DEFINE last == {i \in Entries(w) :
                        /\ HasWindow(w, i)
                        /\ \A j \in Entries(w) : HasWindow(w, j) => j <= i}
  <2>1. last = {x}
    <3>1. x <= x
      BY DEF Slots
    <3>2. \A i \in Entries(w) : HasWindow(w, i) => i = x
      BY <1>3 DEF Entries
    <3> HIDE DEF Gathered
    <3>3. QED
      BY <1>1, <1>2, <3>1, <3>2
  <2>2. Prime(w) = IF last = {} THEN -1 ELSE CHOOSE i \in last : TRUE
    BY DEF Prime
  <2> HIDE DEF last
  <2>3. QED
    BY <2>1, <2>2
<1>5. ASSUME NEW v \in Windows, NEW i \in Slots PROVE v \notin OnClosed(w, i)
  <2>1. i # NoWindow
    BY DEF Slots, NoWindow
  <2>2. QED
    BY <2>1 DEF OnClosed, Gathered, Together
<1>6. QED
  BY <1>2, <1>3, <1>4, <1>5

\* What window_check_servers() may change.
LEMMA CheckParts ==
    ASSUME NEW w \in LooseWorld
    PROVE  LET r == WindowCheckServers(w)
           IN  /\ r.n = w.n /\ r.asked = w.asked
               /\ \A j \in Slots : r.srv[j] = IF HasWindow(w, j) THEN w.srv[j]
                                                                ELSE Closed(w.srv[j])
               /\ r.primary = IF w.primary \in Slots /\ Open(r.srv[w.primary])
                              THEN w.primary ELSE Prime(w)
               /\ \A v \in Windows :
                     LET to == IF \E i \in Entries(w) : v \in OnClosed(w, i)
                               THEN w.primary ELSE w.win[v]
                     IN  r.win[v] = IF to = w.primary THEN r.primary ELSE to
               /\ r.alive = \E i \in Entries(w) : HasWindow(w, i)
<1> DEFINE srv == [i \in Slots |-> IF Swept(w, i) THEN Closed(w.srv[i]) ELSE w.srv[i]]
           win == [v \in Windows |-> IF \E i \in Entries(w) : v \in OnClosed(w, i)
                                     THEN w.primary ELSE w.win[v]]
           lost == ~(w.primary \in Slots /\ Open(srv[w.primary]))
           moved == [v \in Windows |-> IF lost /\ win[v] = w.primary
                                       THEN Prime(w) ELSE win[v]]
           primary == IF lost THEN Prime(w) ELSE w.primary
           alive == \E i \in Entries(w) : HasWindow(w, i)
           r == WindowCheckServers(w)
<1>1. w \in World
  BY DEF LooseWorld
<1>2. r = [w EXCEPT !.srv = srv, !.win = moved, !.primary = primary, !.alive = alive]
  BY <1>1 DEF WindowCheckServers, World
<1>3. \A j \in Slots : srv[j] = IF HasWindow(w, j) THEN w.srv[j] ELSE Closed(w.srv[j])
  BY DEF Swept
<1>4. \A v \in Windows :
         moved[v] = IF win[v] = w.primary THEN primary ELSE win[v]
  OBVIOUS
<1>5. \A v \in Windows : win[v] = IF \E i \in Entries(w) : v \in OnClosed(w, i)
                                  THEN w.primary ELSE w.win[v]
  OBVIOUS
<1> HIDE DEF srv, win, moved, alive
<1>6. /\ r.n = w.n /\ r.asked = w.asked /\ r.srv = srv /\ r.win = moved
      /\ r.primary = primary /\ r.alive = alive
  BY <1>1, <1>2 DEF World
<1>7. QED
  BY <1>3, <1>4, <1>5, <1>6 DEF alive

\* window_check_servers() leaves one switch, and keeps the connection of x.
LEMMA CheckOne ==
    ASSUME NEW w \in LooseWorld, NEW x, Gathered(w, x)
    PROVE  /\ OneSwitch(WindowCheckServers(w))
           /\ Entries(WindowCheckServers(w)) = Entries(w)
           /\ Still(w) => Still(WindowCheckServers(w))
           /\ ~WindowCheckServers(w).alive => Still(WindowCheckServers(w))
           /\ \A j \in Slots : WindowCheckServers(w).srv[j].loggedIn => w.srv[j].loggedIn
           /\ x # -1 /\ Open(w.srv[x]) =>
                 /\ WindowCheckServers(w).primary = x
                 /\ Open(WindowCheckServers(w).srv[x])
<1> DEFINE r == WindowCheckServers(w)
<1>1. /\ w \in World /\ w.srv \in [Slots -> Server] /\ w.primary \in Index
      /\ NoWindow \notin Index /\ -1 \notin Slots /\ NoWindow \notin Slots
      /\ \A i \in Index : i # -1 => i \in Slots
  BY MaxServersAssumption DEF LooseWorld, World, Slots, Index, NoWindow
<1>2. /\ r.n = w.n /\ r.asked = w.asked
      /\ \A j \in Slots : r.srv[j] = IF HasWindow(w, j) THEN w.srv[j]
                                                        ELSE Closed(w.srv[j])
      /\ r.primary = IF w.primary \in Slots /\ Open(r.srv[w.primary])
                     THEN w.primary ELSE Prime(w)
      /\ \A v \in Windows :
            LET to == IF \E i \in Entries(w) : v \in OnClosed(w, i)
                      THEN w.primary ELSE w.win[v]
            IN  r.win[v] = IF to = w.primary THEN r.primary ELSE to
      /\ r.alive = \E i \in Entries(w) : HasWindow(w, i)
  BY CheckParts
<1> HIDE DEF r
<1>3. Entries(r) = Entries(w)
  BY <1>2 DEF Entries
<1>4. ASSUME NEW j \in Slots
      PROVE  /\ r.srv[j].closeServ = w.srv[j].closeServ
             /\ r.srv[j].closePending = w.srv[j].closePending
             /\ r.srv[j].loggedIn => w.srv[j].loggedIn
             /\ Open(r.srv[j]) => Open(w.srv[j])
             /\ ~HasWindow(w, j) /\ ~w.srv[j].closePending => ~Open(r.srv[j])
             /\ HasWindow(w, j) => r.srv[j] = w.srv[j]
  <2>1. w.srv[j] \in Server
    BY <1>1
  <2>2. r.srv[j] = IF HasWindow(w, j) THEN w.srv[j] ELSE Closed(w.srv[j])
    BY <1>2
  <2>3. /\ Closed(w.srv[j]).closeServ = w.srv[j].closeServ
        /\ Closed(w.srv[j]).closePending = w.srv[j].closePending
        /\ Closed(w.srv[j]).loggedIn => w.srv[j].loggedIn
        /\ Open(Closed(w.srv[j])) => Open(w.srv[j])
        /\ ~w.srv[j].closePending => ~Open(Closed(w.srv[j]))
    BY <2>1 DEF Closed, Server, Open
  <2>4. QED
    BY <2>2, <2>3
<1>5. Still(w) => Still(r)
  BY <1>4 DEF Still
<1>6. CASE x = -1 \/ ~Open(w.srv[x])
  <2>1. Still(w) /\ \A i \in Slots : ~HasWindow(w, i)
    BY <1>6, NobodyServes
  <2>2. Still(r) /\ \A j \in Slots : ~Open(r.srv[j])
    BY <1>4, <1>5, <2>1 DEF Still
  <2>3. Prime(w) = -1
    BY <2>1 DEF Prime, Entries
  <2>4. r.primary = -1
    BY <1>2, <2>2, <2>3
  <2>5. ASSUME NEW v \in Windows, w.win[v] = x PROVE r.win[v] = -1
    <3>1. CASE x = -1
      <4>1. \A i \in Entries(w) : v \notin OnClosed(w, i)
        BY <1>1, <2>5, <3>1 DEF OnClosed, Entries
      <4>2. QED
        BY <1>2, <2>4, <2>5, <3>1, <4>1
    <3>2. CASE x # -1
      <4>1. v \in OnClosed(w, x) /\ x \in Entries(w)
        BY <1>6, <2>5, <3>2 DEF OnClosed, Gathered, Serves
      <4>2. QED
        BY <1>2, <2>4, <4>1
    <3>3. QED
      BY <3>1, <3>2
  <2>6. ASSUME NEW v \in Windows, w.win[v] = NoWindow PROVE r.win[v] = NoWindow
    <3>1. \A i \in Entries(w) : v \notin OnClosed(w, i)
      BY <1>1, <2>6 DEF OnClosed, Entries
    <3>2. NoWindow # w.primary
      BY <1>1
    <3>3. QED
      BY <1>2, <2>6, <3>1, <3>2
  <2>7. Together(r, -1)
    BY <2>5, <2>6 DEF Gathered, Together
  <2>8. OneSwitch(r)
    BY <1>2, <2>2, <2>4, <2>7, StillIsHeld DEF OneSwitch, Serves, Gathered
  <2>9. QED
    BY <1>3, <1>4, <1>6, <2>2, <2>8 DEF r
<1>7. CASE x # -1 /\ Open(w.srv[x])
  <2>1. x \in Entries(w) /\ x \in Slots
    BY <1>7 DEF Gathered, Serves, Entries
  <2>2. /\ \A i \in Slots : HasWindow(w, i) <=> i = x
        /\ Prime(w) = x
        /\ \A v \in Windows, i \in Slots : v \notin OnClosed(w, i)
    BY <1>7, <2>1, OneServes
  <2>3. r.primary = x
    <3>1. CASE w.primary = x
      BY <1>2, <2>2, <3>1
    <3>2. CASE w.primary # x
      <4>1. w.primary \notin Slots \/ ~Open(r.srv[w.primary])
        BY <1>1, <1>4, <3>2 DEF Gathered
      <4>2. QED
        BY <1>2, <2>2, <4>1
    <3>3. QED
      BY <3>1, <3>2
  <2>4. ASSUME NEW v \in Windows PROVE r.win[v] = w.win[v]
    <3>1. \A i \in Entries(w) : v \notin OnClosed(w, i)
      BY <2>2 DEF Entries
    <3>2. r.win[v] = IF w.win[v] = w.primary THEN r.primary ELSE w.win[v]
      BY <1>2, <3>1
    <3>3. w.win[v] = w.primary => w.win[v] = x
      BY <1>1 DEF Gathered, Together
    <3>4. QED
      BY <2>3, <3>2, <3>3
  <2>5. Together(r, x)
    BY <2>4 DEF Gathered, Together
  <2>6. r.srv[x] = w.srv[x]
    BY <1>4, <2>1, <2>2
  <2>7. Held(r, x)
    <3>1. ASSUME NEW i \in Slots, r.srv[i].closeServ # -1
          PROVE  /\ i = x /\ Open(r.srv[i]) /\ ~r.srv[i].loggedIn
                 /\ r.srv[i].closeServ # i /\ r.srv[r.srv[i].closeServ].closePending
      <4>1. w.srv[i].closeServ # -1
        BY <1>4, <3>1
      <4>2. /\ i = x /\ Open(w.srv[i]) /\ ~w.srv[i].loggedIn
            /\ w.srv[i].closeServ # i /\ w.srv[w.srv[i].closeServ].closePending
        BY <4>1 DEF Gathered, Held
      <4>3. w.srv[i].closeServ \in Slots
        BY <1>1, <4>1 DEF Server
      <4>4. QED
        BY <1>4, <2>6, <4>2, <4>3
    <3>2. ASSUME NEW j \in Slots, r.srv[j].closePending
          PROVE  x \in Slots /\ r.srv[x].closeServ = j /\ j \in Entries(r)
      BY <1>3, <1>4, <2>6, <3>2 DEF Gathered, Held
    <3>3. QED
      BY <3>1, <3>2 DEF Held
  <2>8. ASSUME NEW j \in Slots, Open(r.srv[j]), j # x PROVE r.srv[j].closePending
    BY <1>4, <2>2, <2>8
  <2>9. OneSwitch(r)
    BY <1>2, <1>3, <2>1, <2>3, <2>5, <2>7, <2>8 DEF OneSwitch, Serves, Gathered
  <2>10. r.alive
    BY <1>2, <2>1, <2>2
  <2>11. QED
    BY <1>3, <1>4, <1>5, <1>7, <2>3, <2>6, <2>9, <2>10 DEF r
<1>8. QED
  BY <1>6, <1>7

LEMMA CheckKeepsOne ==
    ASSUME NEW w \in SafeWorld, OneSwitch(w)
    PROVE  /\ OneSwitch(WindowCheckServers(w))
           /\ Still(w) => Still(WindowCheckServers(w))
           /\ Entries(WindowCheckServers(w)) = Entries(w)
           /\ ~WindowCheckServers(w).alive => Still(WindowCheckServers(w))
           /\ \A j \in Slots : WindowCheckServers(w).srv[j].loggedIn => w.srv[j].loggedIn
BY OneSwitchGathered, CheckOne, SafeIsLoose

-----------------------------------------------------------------------------
(* Moving the windows to the new primary server.                           *)

\* Nothing MoveChannels() writes bears on who closes whom.
LEMMA MoveChannelsApart ==
    ASSUME NEW w \in World, NEW old \in Index, NEW new \in Slots,
           NEW transfer \in BOOLEAN, NEW j \in Slots
    PROVE  LET s == w.srv[j]
               t == MoveChannels(w, old, new, transfer)[j]
           IN  /\ t.sock = s.sock /\ t.closeServ = s.closeServ
               /\ t.closePending = s.closePending /\ t.loggedIn = s.loggedIn
<1> DEFINE Entry(i) ==
            IF i = old
            THEN IF w.srv[i].closePending THEN [w.srv[i] EXCEPT !.clearPending = TRUE]
                                          ELSE [w.srv[i] EXCEPT !.chans = {}]
            ELSE IF i = new /\ w.srv[old].chans # {}
            THEN [w.srv[i] EXCEPT !.chans = w.srv[old].chans]
            ELSE w.srv[i]
<1>1. MoveChannels(w, old, new, transfer) =
        IF ~transfer \/ old = -1 THEN w.srv ELSE [i \in Slots |-> Entry(i)]
  BY DEF MoveChannels
<1>2. /\ Entry(j).sock = w.srv[j].sock
      /\ Entry(j).closeServ = w.srv[j].closeServ
      /\ Entry(j).closePending = w.srv[j].closePending
      /\ Entry(j).loggedIn = w.srv[j].loggedIn
  BY DEF World, Server
<1> HIDE DEF Entry
<1>3. QED
  BY <1>1, <1>2

LEMMA MoveWindowsOne ==
    ASSUME NEW w \in LooseWorld, NEW old \in Index, NEW new \in Entries(w),
           NEW transfer \in BOOLEAN,
           w.asked = -1, Together(w, old), Held(w, new), OnlyListed(w),
           w.primary = new \/ ~Open(w.srv[w.primary])
    PROVE  /\ OneSwitch(MoveWindows(w, old, new, transfer))
           /\ Still(w) => Still(MoveWindows(w, old, new, transfer))
           /\ \A j \in Slots : MoveWindows(w, old, new, transfer).srv[j].loggedIn
                               => w.srv[j].loggedIn
           /\ Open(w.srv[new]) =>
                 /\ MoveWindows(w, old, new, transfer).primary = new
                 /\ Open(MoveWindows(w, old, new, transfer).srv[new])
<1> DEFINE srv == MoveChannels(w, old, new, transfer)
           win == [v \in Windows |-> IF w.win[v] = old THEN new ELSE w.win[v]]
           x == [w EXCEPT !.srv = srv, !.win = win]
<1>1. /\ w \in World /\ new \in Slots /\ new \in Index /\ NoWindow \notin Index
      /\ \A i \in Index : i # -1 => i \in Slots
  BY MaxServersAssumption DEF LooseWorld, Entries, Slots, Index, NoWindow
<1>2. win \in [Windows -> Index \cup {NoWindow}]
  BY <1>1 DEF World
<1>3. ASSUME NEW j \in Slots
      PROVE  /\ srv[j].sock = w.srv[j].sock
             /\ srv[j].closeServ = w.srv[j].closeServ
             /\ srv[j].closePending = w.srv[j].closePending
             /\ srv[j].loggedIn = w.srv[j].loggedIn
  BY <1>1, MoveChannelsApart
<1>4. \A v \in Windows : win[v] = IF w.win[v] = old THEN new ELSE w.win[v]
  OBVIOUS
<1>5. MoveWindows(w, old, new, transfer) = WindowCheckServers(x)
  BY DEF MoveWindows
<1> HIDE DEF srv, win
<1>6. x \in LooseWorld
  BY <1>1, <1>2, MoveChannelsLoose, Zenon DEF srv
<1>7. /\ x.n = w.n /\ x.asked = w.asked /\ x.primary = w.primary
      /\ x.srv = srv /\ x.win = win
  BY <1>1 DEF World
<1> HIDE DEF x
<1>8. Entries(x) = Entries(w)
  BY <1>7 DEF Entries
<1>9. Together(x, new)
  BY <1>1, <1>4, <1>7 DEF Together
<1>10. Held(x, new)
  <2>1. ASSUME NEW i \in Slots, x.srv[i].closeServ # -1
        PROVE  /\ i = new /\ Open(x.srv[i]) /\ ~x.srv[i].loggedIn
               /\ x.srv[i].closeServ # i /\ x.srv[x.srv[i].closeServ].closePending
    <3>1. w.srv[i].closeServ # -1
      BY <1>3, <1>7, <2>1
    <3>2. /\ i = new /\ Open(w.srv[i]) /\ ~w.srv[i].loggedIn
          /\ w.srv[i].closeServ # i /\ w.srv[w.srv[i].closeServ].closePending
      BY <3>1 DEF Held
    <3>3. w.srv[i].closeServ \in Slots
      BY <1>1, <3>1 DEF World, Server
    <3>4. QED
      BY <1>3, <1>7, <3>2, <3>3 DEF Open
  <2>2. ASSUME NEW j \in Slots, x.srv[j].closePending
        PROVE  new \in Slots /\ x.srv[new].closeServ = j /\ j \in Entries(x)
    BY <1>1, <1>3, <1>7, <1>8, <2>2 DEF Held
  <2>3. QED
    BY <2>1, <2>2 DEF Held
<1>11. OnlyListed(x)
  BY <1>3, <1>7, <1>8 DEF OnlyListed, Open
<1>12. x.primary = new \/ x.primary = -1 \/ ~Open(x.srv[x.primary])
  <2>1. w.primary \in Slots \/ w.primary = -1
    BY <1>1 DEF World
  <2>2. QED
    BY <1>3, <1>7, <2>1 DEF Open
<1>13. Gathered(x, new)
  BY <1>7, <1>8, <1>9, <1>10, <1>11, <1>12 DEF Gathered, Serves
<1>14. Still(w) => Still(x)
  BY <1>3, <1>7 DEF Still
<1> DEFINE r == WindowCheckServers(x)
<1>15. /\ OneSwitch(r) /\ (Still(x) => Still(r))
       /\ \A j \in Slots : r.srv[j].loggedIn => x.srv[j].loggedIn
       /\ new # -1 /\ Open(x.srv[new]) => r.primary = new /\ Open(r.srv[new])
  BY <1>6, <1>13, CheckOne
<1>16. new # -1
  BY <1>1 DEF Slots
<1> HIDE DEF r
<1>17. QED
  BY <1>1, <1>3, <1>5, <1>7, <1>14, <1>15, <1>16 DEF r, Open

\* window_set_server(-1, new, ...) makes new the primary server of one switch.
LEMMA SetPrimaryOne ==
    ASSUME NEW w \in SafeWorld, NEW new \in Slots, Ready(w, new),
           NEW transfer \in BOOLEAN
    PROVE  OneSwitch(SetPrimary(w, new, transfer))
<1> DEFINE x == [w EXCEPT !.primary = new]
<1>1. CASE w.primary = new
  BY <1>1 DEF SetPrimary, Ready, OneSwitch
<1>2. CASE w.primary # new
  <2>1. x \in LooseWorld /\ w.primary \in Index
    <3>1. new \in Index
      BY MaxServersAssumption DEF Slots, Index
    <3>2. QED
      BY <3>1, SafeIsLoose DEF LooseWorld, World
  <2>2. /\ x.n = w.n /\ x.asked = w.asked /\ x.primary = new
        /\ x.srv = w.srv /\ x.win = w.win
    BY DEF SafeWorld, World
  <2>3. SetPrimary(w, new, transfer) = MoveWindows(x, w.primary, new, transfer)
    BY <1>2 DEF SetPrimary
  <2> HIDE DEF x
  <2>4. /\ new \in Entries(x) /\ Together(x, w.primary) /\ Held(x, new)
        /\ OnlyListed(x)
    BY <2>2 DEF Ready, Entries, Together, Held, OnlyListed
  <2>5. x.asked = -1
    BY <2>2 DEF Ready
  <2>6. QED
    BY <2>1, <2>2, <2>3, <2>4, <2>5, MoveWindowsOne
<1>3. QED
  BY <1>1, <1>2

-----------------------------------------------------------------------------
(* Changing one entry.                                                     *)

LEMMA EntryReplaced ==
    ASSUME NEW w \in World, NEW i \in Slots, NEW s
    PROVE  LET r == [w EXCEPT !.srv[i] = s]
           IN  /\ r.n = w.n /\ r.asked = w.asked /\ r.primary = w.primary
               /\ r.win = w.win /\ r.times = w.times
               /\ r.srv[i] = s
               /\ \A j \in Slots : j # i => r.srv[j] = w.srv[j]
BY DEF World

LEMMA ClosedFields ==
    ASSUME NEW s \in Server
    PROVE  /\ Closed(s).closeServ = s.closeServ
           /\ Closed(s).closePending = s.closePending
           /\ Closed(s).ssl = s.ssl
           /\ s.closePending => Closed(s) = s
           /\ ~s.closePending => ~Open(Closed(s)) /\ ~Closed(s).loggedIn
           /\ Open(Closed(s)) => Open(s)
BY DEF Closed, Server, Open

\* An entry that holds nothing back may be closed: it has no switch to undo.
LEMMA CloseOne ==
    ASSUME NEW w \in SafeWorld, NEW i \in Slots, OneSwitch(w), w.srv[i].closeServ = -1
    PROVE  OneSwitch(CloseServer(w, i)) /\ (Still(w) => Still(CloseServer(w, i)))
<1> DEFINE r == CloseServer(w, i)
<1>1. w \in World /\ w.srv \in [Slots -> Server] /\ w.srv[i] \in Server
  BY DEF SafeWorld, World
<1>2. CASE w.srv[i].closePending
  <2>1. Closed(w.srv[i]) = w.srv[i]
    BY <1>2 DEF Closed
  <2>2. r = w
    BY <1>1, <2>1 DEF CloseServer, World
  <2>3. QED
    BY <2>2
<1>3. CASE ~w.srv[i].closePending
  <2>1. /\ r.n = w.n /\ r.asked = w.asked /\ r.primary = w.primary
        /\ r.win = w.win /\ r.srv[i] = Closed(w.srv[i])
        /\ \A j \in Slots : j # i => r.srv[j] = w.srv[j]
    BY <1>1, EntryReplaced DEF CloseServer, World
  <2>2. /\ r.srv[i].closeServ = -1 /\ ~r.srv[i].closePending /\ ~Open(r.srv[i])
    BY <1>1, <1>3, <2>1, ClosedFields
  <2> HIDE DEF r
  <2>3. Entries(r) = Entries(w)
    BY <2>1 DEF Entries
  <2>4. Serves(r, r.primary) /\ Together(r, r.primary)
    BY <2>1, <2>3 DEF OneSwitch, Serves, Together
  <2>5. ASSUME NEW k \in Slots, r.srv[k].closeServ # -1
        PROVE  /\ k = r.primary /\ Open(r.srv[k]) /\ ~r.srv[k].loggedIn
               /\ r.srv[k].closeServ # k /\ r.srv[r.srv[k].closeServ].closePending
    <3>1. k # i
      BY <2>2, <2>5
    <3>2. /\ k = w.primary /\ Open(w.srv[k]) /\ ~w.srv[k].loggedIn
          /\ w.srv[k].closeServ # k /\ w.srv[w.srv[k].closeServ].closePending
      BY <2>1, <2>5, <3>1 DEF OneSwitch, Held
    <3>3. w.srv[k].closeServ \in Slots /\ w.srv[k].closeServ # i
      <4>1. w.srv[k].closeServ \in Index
        BY <1>1 DEF Server
      <4>2. QED
        BY <1>3, <2>1, <2>5, <3>1, <3>2, <4>1, MaxServersAssumption DEF Index, Slots
    <3>4. QED
      BY <2>1, <3>1, <3>2, <3>3
  <2>6. ASSUME NEW j \in Slots, r.srv[j].closePending
        PROVE  r.primary \in Slots /\ r.srv[r.primary].closeServ = j /\ j \in Entries(r)
    <3>1. j # i /\ w.srv[j].closePending
      BY <2>1, <2>2, <2>6
    <3>2. w.primary \in Slots /\ w.srv[w.primary].closeServ = j /\ j \in Entries(w)
      BY <3>1 DEF OneSwitch, Held
    <3>3. w.primary # i
      <4>1. j # -1
        BY DEF Slots
      <4>2. QED
        BY <3>2, <4>1
    <3>4. QED
      BY <2>1, <2>3, <3>2, <3>3
  <2>7. ASSUME NEW j \in Slots, Open(r.srv[j])
        PROVE  j = r.primary \/ r.srv[j].closePending
    BY <2>1, <2>2, <2>7 DEF OneSwitch
  <2>8. OneSwitch(r)
    BY <2>1, <2>4, <2>5, <2>6, <2>7 DEF OneSwitch, Held
  <2>9. Still(w) => Still(r)
    BY <2>1, <2>2 DEF Still
  <2>10. QED
    BY <2>8, <2>9 DEF r
<1>4. QED
  BY <1>2, <1>3

\* Whatever is closed between two switches, the world stays as described.
LEMMA StillOne ==
    ASSUME NEW w \in SafeWorld, OneSwitch(w), Still(w), NEW r,
           r.n = w.n, r.asked = w.asked, r.primary = w.primary, r.win = w.win,
           \A j \in Slots : /\ Open(r.srv[j]) => Open(w.srv[j])
                            /\ r.srv[j].closeServ = w.srv[j].closeServ
                            /\ r.srv[j].closePending = w.srv[j].closePending
    PROVE  OneSwitch(r) /\ Still(r)
<1>1. Still(r)
  BY DEF Still
<1>2. Serves(r, r.primary) /\ Together(r, r.primary)
  BY DEF OneSwitch, Serves, Together, Entries
<1>3. QED
  BY <1>1, <1>2, StillIsHeld DEF OneSwitch, Still

LEMMA HungFields ==
    ASSUME NEW s \in Server
    PROVE  /\ Hung(s).closeServ = s.closeServ
           /\ Hung(s).closePending = s.closePending
           /\ Open(Hung(s)) => Open(s)
           /\ s.closePending => (Open(Hung(s)) <=> Open(s)) /\ Hung(s).loggedIn = s.loggedIn
           /\ Hung(s).ssl = s.ssl
BY DEF Hung, Closed, Server, Open

\* Fields of the entry that connect_to_server() has dialled, and of the old one.
LEMMA DialledParts ==
    ASSUME NEW w \in SafeWorld, NEW i \in Slots, NEW c \in Index,
           NEW o \in {"pending", "up"}
    PROVE  LET r == Dialled(w, i, c, o)
           IN  /\ r.n = w.n /\ r.asked = w.asked /\ r.primary = w.primary
               /\ r.win = w.win
               /\ Open(r.srv[i]) /\ ~r.srv[i].loggedIn
               /\ r.srv[i].closeServ = IF c = i THEN -1 ELSE c
               /\ r.srv[i].closePending = w.srv[i].closePending
               /\ \A j \in Slots : j \notin {i, c} => r.srv[j] = w.srv[j]
               /\ c \notin {-1, i} =>
                     /\ r.srv[c].closePending
                     /\ r.srv[c].closeServ = w.srv[c].closeServ
                     /\ r.srv[c].sock = w.srv[c].sock
                     /\ r.srv[c].loggedIn = w.srv[c].loggedIn
<1> DEFINE s == [Hung(w.srv[i]) EXCEPT
                    !.sock = o, !.loggedIn = FALSE,
                    !.addrs = o = "pending" /\ ~w.srv[i].addrs,
                    !.closeServ = IF c = i THEN -1 ELSE c]
           new == [w EXCEPT !.srv[i] = s]
           r == Dialled(w, i, c, o)
<1>1. /\ w \in World /\ w.srv[i] \in Server /\ w.srv \in [Slots -> Server]
      /\ Hung(w.srv[i]) \in Server
  BY HungSafe DEF SafeWorld, World, SafeServer
<1>2. /\ Open(s) /\ ~s.loggedIn
      /\ s.closeServ = IF c = i THEN -1 ELSE c
      /\ s.closePending = w.srv[i].closePending
  <2>1. Hung(w.srv[i]).closePending = w.srv[i].closePending
    BY <1>1, HungFields
  <2>2. QED
    BY <1>1, <2>1 DEF Server, Open
<1>3. r = IF c \in {-1, i} THEN new
          ELSE [new EXCEPT !.srv[c] =
                   [new.srv[c] EXCEPT !.closePending = TRUE, !.connected = FALSE]]
  BY <1>1 DEF Dialled, World
<1> HIDE DEF s
<1>4. /\ new.n = w.n /\ new.asked = w.asked /\ new.primary = w.primary
      /\ new.win = w.win /\ new.srv = [w.srv EXCEPT ![i] = s]
  BY <1>1 DEF World
<1>5. CASE c \in {-1, i}
  BY <1>1, <1>2, <1>3, <1>4, <1>5
<1>6. CASE c \notin {-1, i}
  <2> DEFINE t == [new.srv[c] EXCEPT !.closePending = TRUE, !.connected = FALSE]
  <2>1. c \in Slots
    BY <1>6, MaxServersAssumption DEF Index, Slots
  <2>2. new.srv[c] = w.srv[c] /\ new.srv[c] \in Server
    BY <1>1, <1>4, <1>6, <2>1
  <2>3. /\ t.closePending /\ t.closeServ = w.srv[c].closeServ
        /\ t.sock = w.srv[c].sock /\ t.loggedIn = w.srv[c].loggedIn
    <3> HIDE DEF new
    <3>1. QED
      BY <2>2 DEF Server
  <2>4. r = [new EXCEPT !.srv[c] = t]
    BY <1>3, <1>6
  <2> HIDE DEF t
  <2>5. /\ r.n = w.n /\ r.asked = w.asked /\ r.primary = w.primary
        /\ r.win = w.win /\ r.srv = [w.srv EXCEPT ![i] = s, ![c] = t]
    BY <1>1, <1>4, <2>4 DEF World
  <2> HIDE DEF r, new
  <2>6. /\ r.srv[i] = s /\ r.srv[c] = t
        /\ \A j \in Slots : j \notin {i, c} => r.srv[j] = w.srv[j]
    BY <1>1, <1>6, <2>1, <2>5
  <2>7. QED
    BY <1>2, <1>6, <2>3, <2>5, <2>6 DEF r
<1>7. QED
  BY <1>5, <1>6

-----------------------------------------------------------------------------
(* The end of a switch.                                                    *)

\* Entry i is closed and old waits for it: the state in which a switch is undone.
\* The windows are with x, the primary server.
Failed(w, i, old, x) ==
    /\ w.asked = -1
    /\ i \in Entries(w) /\ old \in Entries(w) /\ old # i
    /\ x \in {i, old} /\ w.primary = x /\ Together(w, x)
    /\ ~Open(w.srv[i]) /\ ~w.srv[i].closePending /\ w.srv[old].closePending
    /\ \A j \in Slots : j # i => w.srv[j].closeServ = -1
    /\ \A j \in Slots : j # old => ~w.srv[j].closePending /\ ~Open(w.srv[j])

\* Resume() gives old back what it had: its windows, and no switch under way.
LEMMA ResumeOne ==
    ASSUME NEW w \in SafeWorld, NEW i \in Slots, NEW old \in Slots, NEW x,
           Failed(w, i, old, x)
    PROVE  /\ OneSwitch(Resume(w, i, old)) /\ Still(Resume(w, i, old))
           /\ Resume(w, i, old).srv[i].loggedIn => w.srv[i].loggedIn
           /\ Open(w.srv[old]) => /\ Resume(w, i, old).primary = old
                                  /\ Open(Resume(w, i, old).srv[old])
<1> DEFINE s == [w.srv[i] EXCEPT !.closeServ = -1]
           freed == [w.srv EXCEPT ![i] = s]
           again == [freed[old] EXCEPT !.closePending = FALSE, !.clearPending = FALSE,
                                       !.loggedIn = TRUE, !.connected = TRUE]
           srv == [freed EXCEPT ![old] = again]
           back == [w EXCEPT !.srv = srv]
<1>1. /\ w \in World /\ w.srv \in [Slots -> Server] /\ w.srv[i] \in Server
      /\ i # old /\ old \in Entries(w) /\ i \in Entries(w)
  BY DEF SafeWorld, World, Failed
<1>2. /\ s \in Server /\ s.closeServ = -1 /\ s.sock = w.srv[i].sock
      /\ s.closePending = w.srv[i].closePending /\ s.loggedIn = w.srv[i].loggedIn
      /\ s.connected = w.srv[i].connected /\ s.clearPending = w.srv[i].clearPending
  <2>1. -1 \in Index
    BY MaxServersAssumption DEF Index
  <2>2. QED
    BY <1>1, <2>1 DEF Server
<1>3. freed[old] = w.srv[old] /\ freed[old] \in Server
  BY <1>1
<1> HIDE DEF s
<1>4. /\ again \in Server /\ ~again.closePending /\ ~again.clearPending
      /\ again.closeServ = w.srv[old].closeServ /\ again.sock = w.srv[old].sock
  <2> HIDE DEF freed
  <2>1. QED
    BY <1>3 DEF Server
<1>5. /\ srv[i] = s /\ srv[old] = again
      /\ \A j \in Slots : j \notin {i, old} => srv[j] = w.srv[j]
      /\ srv \in [Slots -> Server]
  <2> HIDE DEF again
  <2>1. QED
    BY <1>1, <1>2, <1>4
<1> HIDE DEF again, freed, srv
<1>6. /\ back.n = w.n /\ back.asked = w.asked /\ back.primary = w.primary
      /\ back.win = w.win /\ back.srv = srv /\ back \in World
  BY <1>1, <1>5 DEF World
<1>7. back \in LooseWorld
  <2>1. s \in SafeServer
    <3>1. w.srv[i] \in SafeServer
      BY DEF SafeWorld
    <3>2. QED
      BY <1>2, <3>1 DEF SafeServer, IsConnected, Open
  <2>2. again \in LooseServer
    BY <1>4 DEF LooseServer
  <2>3. ASSUME NEW j \in Slots PROVE srv[j] \in LooseServer
    BY <1>5, <2>1, <2>2 DEF SafeWorld, LooseServer
  <2>4. srv \in [Slots -> LooseServer]
    BY <1>5, <2>3
  <2>5. QED
    BY <1>6, <2>4 DEF LooseWorld
<1>8. Resume(w, i, old) = IF (\E v \in Windows : w.win[v] = i) /\ i # old
                          THEN MoveWindows(back, i, old, FALSE) ELSE back
  BY <1>6 DEF Resume, s, freed, again, srv
<1> HIDE DEF back
<1>9. Entries(back) = Entries(w)
  BY <1>6 DEF Entries
<1>10. Still(back)
  BY <1>2, <1>4, <1>5, <1>6 DEF Still, Failed
<1>11. \A j \in Slots : Open(back.srv[j]) => j = old
  BY <1>2, <1>5, <1>6 DEF Failed, Open
<1>12. OnlyListed(back)
  BY <1>1, <1>9, <1>11 DEF OnlyListed
<1>13. back.srv[i].loggedIn = w.srv[i].loggedIn
  BY <1>2, <1>5, <1>6
<1>14. Together(back, x) /\ back.primary = x /\ back.asked = -1
  BY <1>6 DEF Together, Failed
<1>15. Open(w.srv[old]) => Open(back.srv[old])
  BY <1>4, <1>5, <1>6 DEF Open
<1>16. CASE x = i
  <2>1. \E v \in Windows : w.win[v] = i
    BY <1>16 DEF Failed, Together
  <2>2. Resume(w, i, old) = MoveWindows(back, i, old, FALSE)
    BY <1>1, <1>8, <2>1
  <2>3. i \in Index
    BY MaxServersAssumption DEF Index, Slots
  <2>4. ~Open(back.srv[back.primary])
    BY <1>1, <1>11, <1>14, <1>16
  <2>5. Held(back, old)
    BY <1>10, StillIsHeld
  <2>6. old \in Entries(back) /\ Together(back, i) /\ back.asked = -1 /\ FALSE \in BOOLEAN
    BY <1>1, <1>9, <1>14, <1>16
  <2> DEFINE m == MoveWindows(back, i, old, FALSE)
  <2>7. /\ OneSwitch(m) /\ (Still(back) => Still(m))
        /\ \A j \in Slots : m.srv[j].loggedIn => back.srv[j].loggedIn
        /\ Open(back.srv[old]) => m.primary = old /\ Open(m.srv[old])
    BY <1>7, <1>12, <2>3, <2>4, <2>5, <2>6, MoveWindowsOne
  <2> HIDE DEF m
  <2>8. QED
    BY <1>10, <1>13, <1>15, <2>2, <2>7 DEF m
<1>17. CASE x = old
  <2>1. ~ \E v \in Windows : w.win[v] = i
    <3>1. i # NoWindow
      BY DEF Slots, NoWindow
    <3>2. QED
      BY <1>1, <1>17, <3>1 DEF Failed, Together
  <2>2. Resume(w, i, old) = back
    BY <1>8, <2>1
  <2>3. OneSwitch(back)
    BY <1>1, <1>9, <1>10, <1>11, <1>14, <1>17, StillIsHeld DEF OneSwitch, Serves
  <2>4. QED
    BY <1>10, <1>13, <1>14, <1>17, <1>15, <2>2, <2>3
<1>18. QED
  BY <1>16, <1>17 DEF Failed

\* So does reestablish_close_server(), which then looks after the windows.
LEMMA ReestablishOne ==
    ASSUME NEW w \in SafeWorld, NEW i \in Slots, NEW old \in Slots, NEW x,
           Failed(w, i, old, x)
    PROVE  LET r == ReestablishCloseServer(w, i, old)
           IN  /\ OneSwitch(r) /\ Still(r) /\ Entries(r) = Entries(w)
               /\ r.srv[i].loggedIn => w.srv[i].loggedIn
               /\ Open(w.srv[old]) => Open(r.srv[old])
<1> DEFINE b == Resume(w, i, old)
<1>1. /\ OneSwitch(b) /\ Still(b) /\ (b.srv[i].loggedIn => w.srv[i].loggedIn)
      /\ Open(w.srv[old]) => b.primary = old /\ Open(b.srv[old])
  BY ResumeOne
<1>2. b \in LooseWorld
  BY ResumeLoose
<1>3. ReestablishCloseServer(w, i, old) = WindowCheckServers(b)
  BY DEF ReestablishCloseServer, Failed
<1>4. Entries(b) = Entries(w)
  <2>1. b.n = w.n
    BY DEF Resume, MoveWindows, WindowCheckServers, SafeWorld, World
  <2>2. QED
    BY <2>1, SMTT(30) DEF Entries
<1> DEFINE r == WindowCheckServers(b)
<1> HIDE DEF b
<1>5. /\ OneSwitch(r) /\ Entries(r) = Entries(b) /\ Still(r)
      /\ \A j \in Slots : r.srv[j].loggedIn => b.srv[j].loggedIn
      /\ b.primary # -1 /\ Open(b.srv[b.primary]) => Open(r.srv[b.primary])
  BY <1>1, <1>2, OneSwitchGathered, CheckOne
<1>6. old # -1
  BY DEF Slots
<1> HIDE DEF r
<1>7. QED
  BY <1>1, <1>3, <1>4, <1>5, <1>6 DEF r

-----------------------------------------------------------------------------
(* Logging in.                                                             *)

LEMMA HeldApart ==
    ASSUME NEW w \in SafeWorld, NEW i \in Slots, Held(w, i)
    PROVE  /\ w.srv[i].closeServ # i /\ ~w.srv[i].closePending
           /\ w.srv[i].closeServ \in Slots \/ w.srv[i].closeServ = -1
           /\ \A j \in Slots : j # i => w.srv[j].closeServ = -1
           /\ \A j \in Slots : w.srv[j].closePending => w.srv[i].closeServ = j
<1>1. \A j \in Slots : w.srv[j].closePending => w.srv[i].closeServ = j
  BY DEF Held
<1>2. \A j \in Slots : j # i => w.srv[j].closeServ = -1
  BY DEF Held
<1>3. w.srv[i].closeServ # i
  BY DEF Held, Slots
<1>4. w.srv[i].closeServ \in Index
  BY DEF SafeWorld, World, Server
<1>5. w.srv[i].closeServ \in Slots \/ w.srv[i].closeServ = -1
  BY <1>4, MaxServersAssumption, SMTT(30) DEF Index, Slots
<1>6. QED
  BY <1>1, <1>2, <1>3, <1>5

\* Fields after a login that succeeds: the switch of i is decided.
LEMMA LoggedInParts ==
    ASSUME NEW w \in SafeWorld, NEW i \in Slots, w.srv[i].closeServ # i
    PROVE  LET r == LoginToServer(w, i, "ok")
               old == w.srv[i].closeServ
           IN  /\ r.n = w.n /\ r.asked = w.asked /\ r.primary = w.primary
               /\ r.win = w.win
               /\ r.srv[i].closeServ = -1
               /\ r.srv[i].closePending = w.srv[i].closePending
               /\ r.srv[i].sock = w.srv[i].sock /\ r.srv[i].chans = w.srv[i].chans
               /\ \A j \in Slots : j \notin {i, old} => r.srv[j] = w.srv[j]
               /\ old # -1 => /\ ~r.srv[old].closePending /\ ~Open(r.srv[old])
                              /\ r.srv[old].closeServ = w.srv[old].closeServ
<1> DEFINE r == LoginToServer(w, i, "ok")
           old == w.srv[i].closeServ
           in == [w EXCEPT !.srv[i] = [@ EXCEPT !.tcpDone = TRUE, !.loggedIn = TRUE]]
           s == [in.srv[i] EXCEPT !.addrs = FALSE, !.closeServ = -1]
           done == [in EXCEPT !.srv[i] = s]
           left == [done.srv[old] EXCEPT !.closePending = FALSE, !.clearPending = FALSE,
                        !.chans = IF in.srv[old].clearPending THEN {} ELSE @]
<1>1. /\ w \in World /\ w.srv \in [Slots -> Server] /\ w.srv[i] \in Server
      /\ old \in Index /\ old # i
  BY DEF SafeWorld, World, Server
<1>2. old # -1 => old \in Slots
  BY <1>1, MaxServersAssumption DEF Index, Slots
<1> HIDE DEF old
<1>3. /\ in \in World /\ in.n = w.n /\ in.asked = w.asked /\ in.primary = w.primary
      /\ in.win = w.win /\ in.srv[i].closeServ = old
      /\ in.srv[i] = [w.srv[i] EXCEPT !.tcpDone = TRUE, !.loggedIn = TRUE]
      /\ \A j \in Slots : j # i => in.srv[j] = w.srv[j]
  BY <1>1 DEF World, Server, old
<1>4. r = IF old = -1 THEN done ELSE [done EXCEPT !.srv[old] = Closed(left)]
  <2>1. r = FinishSwitch(in, i)
    BY DEF LoginToServer
  <2>2. [in EXCEPT !.srv[i] = [@ EXCEPT !.addrs = FALSE, !.closeServ = -1]] = done
    BY <1>3 DEF World
  <2> HIDE DEF in
  <2>3. QED
    BY <1>3, <2>1, <2>2 DEF FinishSwitch
<1>5. /\ s.closeServ = -1 /\ s.closePending = w.srv[i].closePending
      /\ s.sock = w.srv[i].sock /\ s.chans = w.srv[i].chans
  BY <1>1, <1>3 DEF Server
<1> HIDE DEF in, s, r
<1>6. /\ done.n = w.n /\ done.asked = w.asked /\ done.primary = w.primary
      /\ done.win = w.win /\ done.srv[i] = s
      /\ \A j \in Slots : j # i => done.srv[j] = w.srv[j]
      /\ done.srv = [in.srv EXCEPT ![i] = s] /\ DOMAIN done.srv = Slots
  BY <1>3 DEF World
<1>7. ASSUME NEW c, NEW z
      PROVE  LET x == [done EXCEPT !.srv[c] = z]
             IN  /\ x.n = done.n /\ x.asked = done.asked /\ x.primary = done.primary
                 /\ x.win = done.win /\ x.srv = [done.srv EXCEPT ![c] = z]
  BY <1>3 DEF World
<1>8. CASE old # -1
  <2>1. done.srv[old] = w.srv[old] /\ w.srv[old] \in Server
    BY <1>1, <1>2, <1>6, <1>8
  <2> HIDE DEF done
  <2>2. /\ ~left.closePending /\ left.closeServ = w.srv[old].closeServ
        /\ left \in Server
    BY <2>1, ZenonT(60) DEF Server
  <2> HIDE DEF left
  <2>3. /\ ~Closed(left).closePending /\ ~Open(Closed(left))
        /\ Closed(left).closeServ = w.srv[old].closeServ
    BY <2>2, ClosedFields
  <2>4. r = [done EXCEPT !.srv[old] = Closed(left)]
    BY <1>4, <1>8
  <2>5. /\ r.n = w.n /\ r.asked = w.asked /\ r.primary = w.primary
        /\ r.win = w.win /\ r.srv = [done.srv EXCEPT ![old] = Closed(left)]
    BY <1>6, <1>7, <2>4
  <2>6. /\ r.srv[i] = s /\ r.srv[old] = Closed(left)
        /\ \A j \in Slots : j \notin {i, old} => r.srv[j] = w.srv[j]
    BY <1>1, <1>2, <1>6, <1>8, <2>5
  <2>7. QED
    BY <1>5, <1>8, <2>3, <2>5, <2>6 DEF r, old
<1>9. CASE old = -1
  BY <1>4, <1>5, <1>6, <1>9, ZenonT(60) DEF r, old
<1>10. QED
  BY <1>8, <1>9

\* Then no switch is under way, and no other connection is opened.
LEMMA LoggedInStill ==
    ASSUME NEW w \in SafeWorld, NEW i \in Slots, Held(w, i)
    PROVE  LET r == LoginToServer(w, i, "ok")
           IN  /\ Still(r)
               /\ r.n = w.n /\ r.asked = w.asked /\ r.primary = w.primary
               /\ r.win = w.win
               /\ \A j \in Slots : Open(r.srv[j]) =>
                     Open(w.srv[j]) /\ (j = i \/ ~w.srv[j].closePending)
<1> DEFINE r == LoginToServer(w, i, "ok")
           old == w.srv[i].closeServ
<1>1. /\ old # i /\ ~w.srv[i].closePending /\ (old \in Slots \/ old = -1)
      /\ \A j \in Slots : j # i => w.srv[j].closeServ = -1
      /\ \A j \in Slots : w.srv[j].closePending => old = j
  BY HeldApart
<1>2. /\ r.n = w.n /\ r.asked = w.asked /\ r.primary = w.primary
      /\ r.win = w.win
      /\ r.srv[i].closeServ = -1
      /\ r.srv[i].closePending = w.srv[i].closePending
      /\ r.srv[i].sock = w.srv[i].sock
      /\ \A j \in Slots : j \notin {i, old} => r.srv[j] = w.srv[j]
      /\ old # -1 => /\ ~r.srv[old].closePending /\ ~Open(r.srv[old])
                     /\ r.srv[old].closeServ = w.srv[old].closeServ
  BY <1>1, LoggedInParts
<1> HIDE DEF r, old
<1>3. -1 \notin Slots
  BY DEF Slots
<1>4. ASSUME NEW j \in Slots
      PROVE  /\ r.srv[j].closeServ = -1 /\ ~r.srv[j].closePending
             /\ Open(r.srv[j]) => Open(w.srv[j]) /\ (j = i \/ ~w.srv[j].closePending)
  <2>1. CASE j = i
    BY <1>1, <1>2, <2>1 DEF Open
  <2>2. CASE j # i /\ j = old
    BY <1>1, <1>2, <1>3, <2>2
  <2>3. CASE j # i /\ j # old
    BY <1>1, <1>2, <2>3
  <2>4. QED
    BY <2>1, <2>2, <2>3
<1>5. QED
  BY <1>2, <1>4 DEF Still, r

\* A login that fails while the old server waits: the switch is to be undone.
LEMMA LoginFailed ==
    ASSUME NEW w \in SafeWorld, NEW i \in Entries(w), Held(w, i), w.asked = -1,
           w.srv[i].closeServ # -1,
           NEW x \in {i, w.srv[i].closeServ}, w.primary = x, Together(w, x),
           \A j \in Slots : Open(w.srv[j]) => j = i \/ j = w.srv[i].closeServ
    PROVE  Failed(CloseServer(w, i), i, w.srv[i].closeServ, x)
<1> DEFINE r == CloseServer(w, i)
           old == w.srv[i].closeServ
<1>1. i \in Slots
  BY DEF Entries
<1>2. /\ old # i /\ ~w.srv[i].closePending /\ old \in Slots
      /\ \A j \in Slots : j # i => w.srv[j].closeServ = -1
      /\ \A j \in Slots : w.srv[j].closePending => old = j
  BY <1>1, HeldApart
<1>3. w.srv[old].closePending /\ old \in Entries(w)
  BY <1>1, <1>2 DEF Held
<1>4. w \in World /\ w.srv[i] \in Server /\ [w EXCEPT !.srv[i] = Closed(@)] =
         [w EXCEPT !.srv[i] = Closed(w.srv[i])]
  BY <1>1 DEF SafeWorld, World
<1>5. /\ r.n = w.n /\ r.asked = w.asked /\ r.primary = w.primary
      /\ r.win = w.win /\ r.srv[i] = Closed(w.srv[i])
      /\ \A j \in Slots : j # i => r.srv[j] = w.srv[j]
  BY <1>1, <1>4, EntryReplaced DEF CloseServer
<1>6. ~Open(r.srv[i]) /\ ~r.srv[i].closePending
  BY <1>2, <1>4, <1>5, ClosedFields
<1> HIDE DEF r, old
<1>7. Entries(r) = Entries(w) /\ Together(r, x)
  BY <1>5 DEF Entries, Together
<1>8. ASSUME NEW j \in Slots, j # old PROVE ~r.srv[j].closePending /\ ~Open(r.srv[j])
  BY <1>2, <1>5, <1>6, <1>8 DEF old
<1>9. QED
  BY <1>2, <1>3, <1>5, <1>6, <1>7, <1>8 DEF Failed, r, old

\* login_to_server() for an entry that is not logged in yet.
LEMMA LoginOne ==
    ASSUME NEW w \in SafeWorld, NEW i \in Entries(w), NEW l \in LoginAnswers,
           OneSwitch(w), ~w.srv[i].loggedIn, l = "ok" => Open(w.srv[i])
    PROVE  LET r == LoginToServer(w, i, l)
           IN  /\ OneSwitch(r) /\ Entries(r) = Entries(w)
               /\ r.srv[i].loggedIn => Open(r.srv[i])
<1> DEFINE r == LoginToServer(w, i, l)
           old == w.srv[i].closeServ
<1>1. i \in Slots /\ w \in World /\ w.srv \in [Slots -> Server] /\ w.srv[i] \in Server
      /\ (old \in Slots \/ old = -1) /\ i # -1
  BY MaxServersAssumption, SMTT(30) DEF Entries, SafeWorld, World, Server, Index, Slots
<1>2. CASE l = "wait"
  <2> DEFINE s == [w.srv[i] EXCEPT !.tcpDone = TRUE]
  <2>1. r = [w EXCEPT !.srv[i] = s]
    BY <1>1, <1>2 DEF LoginToServer, World
  <2>2. /\ Open(s) <=> Open(w.srv[i])
        /\ s.closeServ = w.srv[i].closeServ /\ s.closePending = w.srv[i].closePending
        /\ s.loggedIn = w.srv[i].loggedIn
    BY <1>1 DEF Server, Open
  <2> HIDE DEF s
  <2>3. /\ r.n = w.n /\ r.asked = w.asked /\ r.primary = w.primary
        /\ r.win = w.win /\ r.srv[i] = s
        /\ \A j \in Slots : j # i => r.srv[j] = w.srv[j]
    BY <1>1, <2>1, EntryReplaced
  <2> HIDE DEF r
  <2>4. OneSwitch(r)
    BY <2>2, <2>3, Alike
  <2>5. QED
    BY <2>2, <2>3, <2>4 DEF r, Entries
<1>3. CASE l = "ok" /\ old # -1
  <2>1. i = w.primary
    BY <1>1, <1>3 DEF OneSwitch, Held
  <2>2. Held(w, i)
    BY <2>1 DEF OneSwitch
  <2>3. /\ Still(r)
        /\ r.n = w.n /\ r.asked = w.asked /\ r.primary = w.primary
        /\ r.win = w.win
        /\ \A j \in Slots : Open(r.srv[j]) =>
              Open(w.srv[j]) /\ (j = i \/ ~w.srv[j].closePending)
    BY <1>1, <1>3, <2>2, LoggedInStill
  <2>4. Open(r.srv[i])
    <3>1. old # i
      BY <1>1, <2>2, HeldApart
    <3>2. r.srv[i].sock = w.srv[i].sock
      BY <1>1, <1>3, <3>1, LoggedInParts
    <3>3. QED
      BY <1>3, <3>2 DEF Open
  <2> HIDE DEF r, old
  <2>5. Entries(r) = Entries(w)
    BY <2>3 DEF Entries
  <2>6. Serves(r, r.primary) /\ Together(r, r.primary)
    BY <2>3, <2>5 DEF OneSwitch, Serves, Together
  <2>7. \A j \in Slots : Open(r.srv[j]) => j = r.primary
    BY <2>1, <2>3 DEF OneSwitch
  <2>8. OneSwitch(r)
    BY <2>3, <2>6, <2>7, StillIsHeld DEF OneSwitch
  <2>9. QED
    BY <2>4, <2>5, <2>8 DEF r
<1>4. CASE l = "ok" /\ old = -1
  <2> DEFINE s == [w.srv[i] EXCEPT !.tcpDone = TRUE, !.loggedIn = TRUE,
                                   !.addrs = FALSE, !.closeServ = -1]
             in == [w EXCEPT !.srv[i] = [@ EXCEPT !.tcpDone = TRUE, !.loggedIn = TRUE]]
  <2>1. r = [w EXCEPT !.srv[i] = s]
    <3>1. r = FinishSwitch(in, i)
      BY <1>4 DEF LoginToServer
    <3>2. in.srv[i].closeServ = -1
      BY <1>1, <1>4 DEF World, Server
    <3>3. [in EXCEPT !.srv[i] = [@ EXCEPT !.addrs = FALSE, !.closeServ = -1]]
             = [w EXCEPT !.srv[i] = s]
      BY <1>1 DEF World, Server
    <3> HIDE DEF in, r, s
    <3>4. QED
      BY <3>1, <3>2, <3>3 DEF FinishSwitch
  <2>2. /\ Open(s) <=> Open(w.srv[i])
        /\ s.closeServ = -1 /\ s.closePending = w.srv[i].closePending
    BY <1>1 DEF Server, Open
  <2> HIDE DEF s
  <2>3. /\ r.n = w.n /\ r.asked = w.asked /\ r.primary = w.primary
        /\ r.win = w.win /\ r.srv[i] = s
        /\ \A j \in Slots : j # i => r.srv[j] = w.srv[j]
    BY <1>1, <2>1, EntryReplaced
  <2> HIDE DEF r
  <2>4. OneSwitch(r)
    BY <1>4, <2>2, <2>3, Alike
  <2>5. QED
    BY <1>4, <2>2, <2>3, <2>4 DEF r, Entries
<1>5. CASE l = "fail"
  <2> DEFINE failed == CloseServer(w, i)
  <2>1. r = IF old \notin {-1, i} THEN ReestablishCloseServer(failed, i, old) ELSE failed
    BY <1>5 DEF LoginToServer
  <2>2. failed \in SafeWorld
    BY <1>1, CloseServerSafe
  <2>3. /\ Entries(failed) = Entries(w) /\ ~failed.srv[i].loggedIn
    BY <1>1 DEF CloseServer, Closed, World, Server, Entries
  <2>4. CASE old = -1
    <3>1. r = failed
      BY <2>1, <2>4
    <3>2. OneSwitch(failed)
      BY <1>1, <2>4, CloseOne
    <3>3. QED
      BY <2>3, <3>1, <3>2
  <2>5. CASE old # -1
    <3>1. i = w.primary
      BY <1>1, <2>5 DEF OneSwitch, Held
    <3>2. Held(w, i) /\ w.asked = -1 /\ Together(w, i)
      BY <3>1 DEF OneSwitch
    <3>3. old # i /\ \A j \in Slots : w.srv[j].closePending => old = j
      BY <1>1, <3>2, HeldApart
    <3>4. \A j \in Slots : Open(w.srv[j]) => j = i \/ j = old
      BY <3>1, <3>3 DEF OneSwitch
    <3>5. Failed(failed, i, old, i)
      BY <2>5, <3>1, <3>2, <3>4, LoginFailed
    <3>6. r = ReestablishCloseServer(failed, i, old)
      BY <2>1, <2>5, <3>3
    <3> HIDE DEF failed, old, r
    <3>7. /\ OneSwitch(r) /\ Entries(r) = Entries(failed)
          /\ r.srv[i].loggedIn => failed.srv[i].loggedIn
      BY <1>1, <2>2, <2>5, <3>5, <3>6, ReestablishOne
    <3>8. QED
      BY <2>3, <3>7 DEF r
  <2>6. QED
    BY <2>4, <2>5
<1>6. QED
  BY <1>2, <1>3, <1>4, <1>5 DEF LoginAnswers

-----------------------------------------------------------------------------
(* Connecting.                                                             *)

\* A switch begins: entry i is dialled and the primary server waits for it.
LEMMA DialledReady ==
    ASSUME NEW w \in SafeWorld, NEW i \in Entries(w), NEW o \in {"pending", "up"},
           OneSwitch(w), Still(w)
    PROVE  LET r == Dialled(w, i, w.primary, o)
           IN  /\ Ready(r, i) /\ Entries(r) = Entries(w) /\ r.primary = w.primary
               /\ Open(r.srv[i]) /\ ~r.srv[i].loggedIn
               /\ r.srv[i].closeServ = IF w.primary = i THEN -1 ELSE w.primary
               /\ \A j \in Slots : Open(r.srv[j]) => j = i \/ j = w.primary
<1> DEFINE c == w.primary
           r == Dialled(w, i, c, o)
<1>1. i \in Slots /\ i # -1 /\ c \in Index /\ (c \in Slots \/ c = -1)
  BY MaxServersAssumption DEF Entries, SafeWorld, World, Index, Slots
<1>2. /\ r.n = w.n /\ r.asked = w.asked /\ r.primary = w.primary
      /\ r.win = w.win
      /\ Open(r.srv[i]) /\ ~r.srv[i].loggedIn
      /\ r.srv[i].closeServ = IF c = i THEN -1 ELSE c
      /\ r.srv[i].closePending = w.srv[i].closePending
      /\ \A j \in Slots : j \notin {i, c} => r.srv[j] = w.srv[j]
      /\ c \notin {-1, i} =>
            /\ r.srv[c].closePending
            /\ r.srv[c].closeServ = w.srv[c].closeServ
            /\ r.srv[c].sock = w.srv[c].sock
            /\ r.srv[c].loggedIn = w.srv[c].loggedIn
  BY <1>1, DialledParts, SMTT(30)
<1>3. Serves(w, c) /\ Together(w, c) /\ w.asked = -1
  BY DEF OneSwitch
<1>4. \A j \in Slots : Open(w.srv[j]) => j = c
  BY DEF OneSwitch, Still
<1> HIDE DEF r, c
<1>5. Entries(r) = Entries(w) /\ Serves(r, c) /\ Together(r, c)
  BY <1>2, <1>3 DEF Entries, Serves, Together
<1>6. \A j \in Slots : Open(r.srv[j]) => j = i \/ j = c
  BY <1>2, <1>4
<1>7. \A j \in Slots : r.srv[j].closePending => j = c /\ c # i
  <2>1. \A j \in Slots : ~w.srv[j].closePending
    BY DEF Still
  <2>2. ASSUME NEW j \in Slots, r.srv[j].closePending PROVE j = c /\ c # i
    BY <1>1, <1>2, <2>1, <2>2
  <2>3. QED
    BY <2>2
<1>8. \A j \in Slots : r.srv[j].closeServ # -1 => j = i /\ c \notin {-1, i}
  <2>1. \A j \in Slots : w.srv[j].closeServ = -1
    BY DEF Still
  <2>2. ASSUME NEW j \in Slots, r.srv[j].closeServ # -1 PROVE j = i /\ c \notin {-1, i}
    <3>1. ASSUME j \notin {i, c} PROVE FALSE
      BY <1>2, <2>1, <2>2, <3>1
    <3>2. ASSUME j = c, j # i PROVE FALSE
      <4>1. c \notin {-1, i}
        BY <3>2 DEF Slots
      <4>2. QED
        BY <1>2, <2>1, <2>2, <3>2, <4>1
    <3>3. j = i
      BY <3>1, <3>2
    <3>4. QED
      BY <1>2, <2>2, <3>3
  <2>3. QED
    BY <2>2
<1>9. Held(r, i)
  <2>1. ASSUME NEW j \in Slots, r.srv[j].closeServ # -1
        PROVE  /\ j = i /\ Open(r.srv[j]) /\ ~r.srv[j].loggedIn
               /\ r.srv[j].closeServ # j /\ r.srv[r.srv[j].closeServ].closePending
    BY <1>2, <1>8, <2>1
  <2>2. ASSUME NEW j \in Slots, r.srv[j].closePending
        PROVE  i \in Slots /\ r.srv[i].closeServ = j /\ j \in Entries(r)
    <3>1. j = c /\ c # i /\ c # -1
      BY <1>7, <2>2 DEF Slots
    <3>2. QED
      BY <1>1, <1>2, <1>5, <3>1 DEF Serves
  <2>3. QED
    BY <2>1, <2>2 DEF Held
<1>10. OnlyListed(r)
  BY <1>1, <1>5, <1>6 DEF OnlyListed, Serves, Slots
<1>11. Ready(r, i)
  BY <1>2, <1>3, <1>5, <1>6, <1>9, <1>10 DEF Ready, c
<1>12. QED
  BY <1>2, <1>5, <1>6, <1>11 DEF r, c

\* The peer is there at once and the login is attempted in the same step.
LEMMA UpReady ==
    ASSUME NEW w \in SafeWorld, NEW i \in Entries(w), NEW l \in LoginAnswers,
           OneSwitch(w), Still(w)
    PROVE  Ready(LoginToServer(Dialled(w, i, w.primary, "up"), i, l), i)
<1> DEFINE c == w.primary
           d == Dialled(w, i, c, "up")
           r == LoginToServer(d, i, l)
<1>1. i \in Slots /\ i # -1 /\ c \in Index /\ (c \in Slots \/ c = -1)
  BY MaxServersAssumption DEF Entries, SafeWorld, World, Index, Slots
<1>2. d \in SafeWorld
  BY <1>1, DialledSafe
<1>3. /\ Ready(d, i) /\ Entries(d) = Entries(w) /\ d.primary = c
      /\ Open(d.srv[i]) /\ ~d.srv[i].loggedIn
      /\ d.srv[i].closeServ = IF c = i THEN -1 ELSE c
      /\ \A j \in Slots : Open(d.srv[j]) => j = i \/ j = c
  BY DialledReady
<1> HIDE DEF c, d
<1>4. /\ d \in World /\ d.srv[i] \in Server /\ i \in Entries(d)
      /\ d.asked = -1 /\ Held(d, i) /\ OnlyListed(d) /\ Serves(d, c) /\ Together(d, c)
  BY <1>1, <1>2, <1>3 DEF SafeWorld, World, Ready
<1>5. CASE l = "wait"
  <2> DEFINE s == [d.srv[i] EXCEPT !.tcpDone = TRUE]
  <2>1. r = [d EXCEPT !.srv[i] = s]
    BY <1>1, <1>4, <1>5 DEF LoginToServer, World
  <2>2. /\ Open(s) /\ ~s.loggedIn
        /\ s.closeServ = d.srv[i].closeServ /\ s.closePending = d.srv[i].closePending
    BY <1>3, <1>4 DEF Server, Open
  <2> HIDE DEF s
  <2>3. /\ r.n = d.n /\ r.asked = d.asked /\ r.primary = d.primary
        /\ r.win = d.win /\ r.srv[i] = s
        /\ \A j \in Slots : j # i => r.srv[j] = d.srv[j]
    BY <1>1, <1>4, <2>1, EntryReplaced
  <2> HIDE DEF r
  <2>4. Entries(r) = Entries(d)
    BY <2>3 DEF Entries
  <2>5. Serves(r, c) /\ Together(r, c) /\ OnlyListed(r)
    BY <1>3, <1>4, <2>2, <2>3, <2>4 DEF Serves, Together, OnlyListed
  <2>6. Held(r, i)
    <3>1. ASSUME NEW j \in Slots, r.srv[j].closeServ # -1
          PROVE  /\ j = i /\ Open(r.srv[j]) /\ ~r.srv[j].loggedIn
                 /\ r.srv[j].closeServ # j /\ r.srv[r.srv[j].closeServ].closePending
      <4>1. d.srv[j].closeServ # -1
        BY <2>2, <2>3, <3>1
      <4>2. /\ j = i /\ d.srv[j].closeServ # i
            /\ d.srv[d.srv[j].closeServ].closePending
        BY <1>4, <4>1 DEF Held
      <4>3. d.srv[j].closeServ \in Slots
        BY <1>1, <1>2, <1>4, <4>1, <4>2, HeldApart
      <4>4. QED
        BY <2>2, <2>3, <4>2, <4>3
    <3>2. ASSUME NEW j \in Slots, r.srv[j].closePending
          PROVE  i \in Slots /\ r.srv[i].closeServ = j /\ j \in Entries(r)
      BY <1>4, <2>2, <2>3, <2>4, <3>2 DEF Held
    <3>3. QED
      BY <3>1, <3>2 DEF Held
  <2>7. d.primary = i => \A j \in Slots : Open(r.srv[j]) => j = i
    BY <1>3, <2>2, <2>3
  <2>8. Ready(r, i)
    BY <1>3, <1>4, <2>3, <2>4, <2>5, <2>6, <2>7 DEF Ready
  <2>9. QED
    BY <2>8 DEF r, d, c
<1>6. CASE l = "ok"
  <2>1. /\ Still(r)
        /\ r.n = d.n /\ r.asked = d.asked /\ r.primary = d.primary
        /\ r.win = d.win
        /\ \A j \in Slots : Open(r.srv[j]) =>
              Open(d.srv[j]) /\ (j = i \/ ~d.srv[j].closePending)
    BY <1>1, <1>2, <1>4, <1>6, LoggedInStill
  <2> HIDE DEF r
  <2>2. Entries(r) = Entries(d)
    BY <2>1 DEF Entries
  <2>3. Serves(r, c) /\ Together(r, c) /\ OnlyListed(r)
    BY <1>4, <2>1, <2>2 DEF Serves, Together, OnlyListed
  <2>4. d.primary = i => \A j \in Slots : Open(r.srv[j]) => j = i
    BY <1>3, <2>1
  <2>5. Ready(r, i)
    BY <1>3, <1>4, <2>1, <2>2, <2>3, <2>4, StillIsHeld DEF Ready
  <2>6. QED
    BY <2>5 DEF r, d, c
<1>7. CASE l = "fail"
  <2> DEFINE failed == CloseServer(d, i)
             old == d.srv[i].closeServ
  <2>1. r = IF old \notin {-1, i} THEN ReestablishCloseServer(failed, i, old) ELSE failed
    BY <1>3, <1>7 DEF LoginToServer
  <2>2. failed \in SafeWorld
    BY <1>1, <1>2, CloseServerSafe
  <2>3. [d EXCEPT !.srv[i] = Closed(@)] = [d EXCEPT !.srv[i] = Closed(d.srv[i])]
    BY <1>1, <1>4 DEF World
  <2>4. /\ failed.n = d.n /\ failed.asked = d.asked /\ failed.primary = d.primary
        /\ failed.win = d.win /\ failed.srv[i] = Closed(d.srv[i])
        /\ \A j \in Slots : j # i => failed.srv[j] = d.srv[j]
    BY <1>1, <1>4, <2>3, EntryReplaced DEF CloseServer
  <2>5. /\ old # i /\ ~d.srv[i].closePending /\ (old \in Slots \/ old = -1)
        /\ \A j \in Slots : j # i => d.srv[j].closeServ = -1
        /\ \A j \in Slots : d.srv[j].closePending => old = j
    BY <1>1, <1>2, <1>4, HeldApart
  <2>6. Entries(failed) = Entries(d)
    BY <2>4 DEF Entries
  <2>7. CASE old = -1
    <3>1. r = failed
      BY <2>1, <2>7
    <3>2. /\ Closed(d.srv[i]).closeServ = -1 /\ ~Closed(d.srv[i]).closePending
          /\ ~Open(Closed(d.srv[i]))
      BY <1>4, <2>5, <2>7, ClosedFields
    <3> HIDE DEF failed
    <3>3. Still(failed)
      BY <2>4, <2>5, <2>7, <3>2 DEF Still, Slots
    <3>4. Serves(failed, c) /\ Together(failed, c) /\ OnlyListed(failed)
      BY <1>4, <2>4, <2>6, <3>2 DEF Serves, Together, OnlyListed
    <3>5. d.primary = i => \A j \in Slots : Open(failed.srv[j]) => j = i
      BY <1>3, <2>4
    <3>6. Ready(failed, i)
      BY <1>3, <1>4, <2>4, <2>6, <3>3, <3>4, <3>5, StillIsHeld DEF Ready
    <3>7. QED
      BY <3>1, <3>6 DEF r, d, c
  <2>8. CASE old # -1
    <3>1. old = c
      BY <1>3, <2>8
    <3>2. Failed(failed, i, old, c)
      BY <1>2, <1>3, <1>4, <2>8, <3>1, LoginFailed
    <3>3. r = ReestablishCloseServer(failed, i, old)
      BY <2>1, <2>5, <2>8
    <3> HIDE DEF failed, old, r
    <3>4. OneSwitch(r) /\ Still(r) /\ Entries(r) = Entries(failed)
      BY <1>1, <2>2, <2>5, <2>8, <3>2, <3>3, ReestablishOne
    <3>5. Ready(r, i)
      BY <1>4, <2>6, <3>4, StillReady
    <3>6. QED
      BY <3>5 DEF r, d, c
  <2>9. QED
    BY <2>7, <2>8
<1>8. QED
  BY <1>5, <1>6, <1>7 DEF LoginAnswers

\* connect_to_server() for an attempt that leaves a connection: the windows may
\* follow to the new entry.
LEMMA ConnectReady ==
    ASSUME NEW w \in SafeWorld, NEW i \in Entries(w), NEW o \in ConnectOutcomes,
           NEW l \in LoginAnswers, OneSwitch(w), Still(w), Connects(w, i, o)
    PROVE  Ready(ConnectToServer(w, i, w.primary, o, l), i)
<1>1. i \in Slots /\ w.srv[i] \in SafeServer
  BY DEF Entries, SafeWorld
<1>2. CASE IsConnected(w.srv[i])
  <2>1. Open(w.srv[i])
    BY <1>1, <1>2 DEF SafeServer
  <2>2. w.primary = i
    BY <1>1, <2>1 DEF OneSwitch, Still
  <2>3. ConnectToServer(w, i, w.primary, o, l) = w
    BY <1>2, <2>2 DEF ConnectToServer
  <2>4. QED
    BY <2>3, StillReady
<1>3. CASE ~IsConnected(w.srv[i])
  <2>1. o \in {"pending", "up"}
    BY <1>3 DEF Connects, ConnectOutcomes
  <2>2. Ready(Dialled(w, i, w.primary, o), i)
    BY <2>1, DialledReady
  <2>3. Ready(LoginToServer(Dialled(w, i, w.primary, "up"), i, Answered(w.srv[i], l)), i)
    BY UpReady, AnsweredIsAnswer
  <2>4. QED
    BY <1>3, <2>1, <2>2, <2>3 DEF ConnectToServer
<1>4. QED
  BY <1>2, <1>3

\* An attempt that fails leaves the entry closed, and the switch as it was.
LEMMA HungOne ==
    ASSUME NEW w \in SafeWorld, NEW i \in Slots, OneSwitch(w), Still(w)
    PROVE  OneSwitch([w EXCEPT !.srv[i] = Hung(@)]) /\ Still([w EXCEPT !.srv[i] = Hung(@)])
<1> DEFINE r == [w EXCEPT !.srv[i] = Hung(w.srv[i])]
<1>1. w \in World /\ w.srv[i] \in Server
  BY DEF SafeWorld, World
<1>2. [w EXCEPT !.srv[i] = Hung(@)] = r
  BY <1>1 DEF World
<1>3. /\ r.n = w.n /\ r.asked = w.asked /\ r.primary = w.primary
      /\ r.win = w.win /\ r.srv[i] = Hung(w.srv[i])
      /\ \A j \in Slots : j # i => r.srv[j] = w.srv[j]
  BY <1>1, EntryReplaced
<1>4. /\ Hung(w.srv[i]).closeServ = w.srv[i].closeServ
      /\ Hung(w.srv[i]).closePending = w.srv[i].closePending
      /\ Open(Hung(w.srv[i])) => Open(w.srv[i])
  BY <1>1, HungFields
<1> HIDE DEF r
<1>5. \A j \in Slots : /\ Open(r.srv[j]) => Open(w.srv[j])
                       /\ r.srv[j].closeServ = w.srv[j].closeServ
                       /\ r.srv[j].closePending = w.srv[j].closePending
  BY <1>3, <1>4
<1>6. QED
  BY <1>2, <1>3, <1>5, StillOne

\* The channels of the entries, and which of them wait to be closed.
SameChannels(w, r) ==
    \A j \in Slots : /\ r.srv[j].chans = w.srv[j].chans
                     /\ r.srv[j].closePending = w.srv[j].closePending

LEMMA HungKeeps ==
    ASSUME NEW s \in Server
    PROVE  Hung(s).chans = s.chans /\ Hung(s).closePending = s.closePending
BY DEF Hung, Closed, Server

\* How get_connected() ends, once the attempts that fail have closed their
\* entries and left the world as in left: none is left to try, an entry that
\* could not be closed stops the search, or one is being connected.
GotNothing(left, r) == r = left \/ \E to \in Entries(left) : r = [left EXCEPT !.srv[to] = Hung(@)]
GotConnected(left, r, l) ==
    \E to \in Entries(left), o \in ConnectOutcomes, transfer \in BOOLEAN :
        /\ Connects(left, to, o)
        /\ r = SetPrimary(ConnectToServer(left, to, left.primary, o, l), to, transfer)

LEMMA GetConnectedEnds ==
    ASSUME NEW w \in SafeWorld, NEW s \in Int,
           NEW os \in [Slots -> ConnectOutcomes], NEW l \in LoginAnswers,
           OneSwitch(w), Still(w)
    PROVE  \E left \in SafeWorld :
              /\ OneSwitch(left) /\ Still(left) /\ left.primary = w.primary
              /\ SameChannels(w, left)
              /\ \/ GotNothing(left, GetConnected(w, s, os, l))
                 \/ GotConnected(left, GetConnected(w, s, os, l), l)
<1> DEFINE first == IF s = w.n THEN 0 ELSE IF s < 0 THEN w.n - 1 ELSE s
           At(k) == (first + k) % w.n
           Stops(i) == \/ Connects(w, i, os[i])
                       \/ w.srv[i].closePending /\ Open(w.srv[i])
           reached == {k \in 0 .. w.n - 1 : \A m \in 0 .. k - 1 : ~Stops(At(m))}
           ends == {k \in reached : Stops(At(k))}
           last == CHOOSE k \in ends : TRUE
           to == At(last)
           srv == [i \in Slots |-> IF \E k \in reached \ ends : i = At(k)
                                   THEN Hung(w.srv[i]) ELSE w.srv[i]]
           left == [w EXCEPT !.srv = srv]
           r == ConnectToServer(left, to, w.primary, os[to], l)
           transfer == last = 0 \/ ~IsConnected(w.srv[to])
<1>1. w \in World /\ w.n \in Nat /\ first \in Int /\ w.primary \in Index
  BY MaxServersAssumption DEF SafeWorld, World
<1>2. left \in SafeWorld /\ left.n = w.n /\ left.srv = srv /\ left.primary = w.primary
      /\ left.win = w.win /\ left.asked = w.asked
  <2>1. srv \in [Slots -> SafeServer]
    BY HungSafe DEF SafeWorld
  <2> HIDE DEF srv
  <2>2. QED
    BY <1>1, <2>1, SMTT(30) DEF SafeWorld, World, SafeServer
<1>3. ASSUME NEW j \in Slots
      PROVE  /\ Open(srv[j]) => Open(w.srv[j])
             /\ srv[j].closeServ = w.srv[j].closeServ
             /\ srv[j].closePending = w.srv[j].closePending
             /\ srv[j].chans = w.srv[j].chans
  <2>1. srv[j] \in {w.srv[j], Hung(w.srv[j])}
    OBVIOUS
  <2>2. w.srv[j] \in Server
    BY <1>1 DEF World
  <2> HIDE DEF srv
  <2>3. QED
    BY <2>1, <2>2, HungFields, HungKeeps
<1>4. OneSwitch(left) /\ Still(left)
  <2> HIDE DEF srv, left
  <2>1. QED
    BY <1>2, <1>3, StillOne
<1>5. GetConnected(w, s, os, l) =
        IF ends = {} THEN left
        ELSE IF ~Connects(w, to, os[to])
             THEN [left EXCEPT !.srv[to] = Hung(@)]
        ELSE SetPrimary(r, to, transfer)
  BY DEF GetConnected
<1>6. ASSUME ends # {} PROVE to \in Entries(w) /\ srv[to] = w.srv[to]
  <2>1. last \in ends /\ Stops(to)
    BY <1>6, Zenon
  <2>2. ends \subseteq Int
    BY <1>1
  <2>3. \A k \in reached \ ends : ~Stops(At(k))
    BY Zenon
  <2>4. ~ \E k \in reached \ ends : to = At(k)
    <3> HIDE DEF reached, ends, At, Stops, to
    <3>1. QED
      BY <2>1, <2>3
  <2>5. w.n > 0
    <3>1. ends \subseteq 0 .. w.n - 1
      OBVIOUS
    <3> HIDE DEF first, At, Stops, reached, ends, last, to, srv, left, r, transfer
    <3>2. QED
      BY <1>1, <2>1, <3>1
  <2>6. first + last \in Int
    <3> HIDE DEF first, ends, last
    <3>1. QED
      BY <1>1, <2>1, <2>2
  <2>7. to \in Slots
    <3> HIDE DEF first, last
    <3>1. QED
      BY <1>1, <2>5, <2>6, RemainderIsSlot
  <2>8. to \in 0 .. w.n - 1
    <3> HIDE DEF first, last
    <3>1. w.n \in Nat \ {0}
      BY <1>1, <2>5
    <3>2. QED
      BY <2>6, <3>1, Remainder
  <2> HIDE DEF to
  <2>9. to \in Entries(w)
    <3>1. to < w.n
      BY <1>1, <2>8
    <3>2. QED
      BY <2>7, <3>1 DEF Entries
  <2>10. QED
    BY <2>4, <2>7, <2>9, Zenon
<1> HIDE DEF first, At, Stops, reached, ends, last, to, srv, left
<1>7. SameChannels(w, left)
  BY <1>2, <1>3 DEF SameChannels
<1>8. ASSUME ends # {}
      PROVE  \/ GotNothing(left, GetConnected(w, s, os, l))
             \/ GotConnected(left, GetConnected(w, s, os, l), l)
  <2>1. to \in Slots /\ to \in Entries(left) /\ os[to] \in ConnectOutcomes
    BY <1>2, <1>6, <1>8 DEF Entries
  <2>2. left.srv[to] = w.srv[to]
    BY <1>2, <1>6, <1>8
  <2>3. CASE Connects(w, to, os[to])
    <3>1. Connects(left, to, os[to])
      BY <2>2, <2>3 DEF Connects
    <3>2. /\ transfer \in BOOLEAN
          /\ GetConnected(w, s, os, l) =
                SetPrimary(ConnectToServer(left, to, left.primary, os[to], l), to, transfer)
      BY <1>2, <1>5, <1>8, <2>3
    <3> HIDE DEF transfer
    <3>3. QED
      BY <2>1, <3>1, <3>2 DEF GotConnected
  <2>4. CASE ~Connects(w, to, os[to])
    BY <1>5, <1>8, <2>1, <2>4 DEF GotNothing
  <2>5. QED
    BY <2>3, <2>4
<1>9. ASSUME ends = {} PROVE GotNothing(left, GetConnected(w, s, os, l))
  BY <1>5, <1>9 DEF GotNothing
<1>10. QED
  BY <1>2, <1>4, <1>7, <1>8, <1>9

\* get_connected() leaves one switch under way, or none.
LEMMA GetConnectedOne ==
    ASSUME NEW w \in SafeWorld, NEW s \in Int,
           NEW os \in [Slots -> ConnectOutcomes], NEW l \in LoginAnswers,
           OneSwitch(w), Still(w)
    PROVE  OneSwitch(GetConnected(w, s, os, l))
<1> DEFINE r == GetConnected(w, s, os, l)
<1>1. PICK left \in SafeWorld :
         /\ OneSwitch(left) /\ Still(left)
         /\ GotNothing(left, r) \/ GotConnected(left, r, l)
  BY GetConnectedEnds
<1> HIDE DEF r
<1>2. Entries(left) \subseteq Slots /\ left.primary \in Index
  BY DEF Entries, SafeWorld, World
<1>3. ASSUME GotNothing(left, r) PROVE OneSwitch(r)
  <2>1. CASE r = left
    BY <1>1, <2>1
  <2>2. CASE \E to \in Entries(left) : r = [left EXCEPT !.srv[to] = Hung(@)]
    <3>1. PICK to \in Entries(left) : r = [left EXCEPT !.srv[to] = Hung(@)]
      BY <2>2
    <3>2. OneSwitch([left EXCEPT !.srv[to] = Hung(@)])
      BY <1>1, <1>2, HungOne
    <3>3. QED
      BY <3>1, <3>2
  <2>3. QED
    BY <1>3, <2>1, <2>2 DEF GotNothing
<1>4. ASSUME GotConnected(left, r, l) PROVE OneSwitch(r)
  <2>1. PICK to \in Entries(left), o \in ConnectOutcomes, transfer \in BOOLEAN :
           /\ Connects(left, to, o)
           /\ r = SetPrimary(ConnectToServer(left, to, left.primary, o, l), to, transfer)
    BY <1>4 DEF GotConnected
  <2> DEFINE c == ConnectToServer(left, to, left.primary, o, l)
  <2>2. Ready(c, to) /\ c \in SafeWorld /\ to \in Slots
    BY <1>1, <1>2, <2>1, ConnectReady, ConnectSafe
  <2>3. r = SetPrimary(c, to, transfer)
    BY <2>1
  <2> HIDE DEF c
  <2>4. QED
    BY <2>2, <2>3, SetPrimaryOne
<1>5. QED
  BY <1>1, <1>3, <1>4 DEF r

LEMMA GroupGetConnectedNextTries ==
    ASSUME NEW w \in SafeWorld, NEW i \in Slots, NEW os, NEW l
    PROVE  LET r == GroupGetConnectedNext(w, i, os, l)
           IN  r = w \/ \E s \in Int : r = GetConnected(w, s, os, l)
<1> DEFINE Mate(k) == w.srv[(i + k) % w.n].group = w.srv[i].group
           next == {k \in 1 .. w.n - 1 : Mate(k) /\ \A m \in 1 .. k - 1 : ~Mate(m)}
           s == (i + (CHOOSE k \in next : TRUE)) % w.n
<1>1. w \in World /\ w.n \in Nat
  BY MaxServersAssumption DEF SafeWorld, World
<1>2. ASSUME next # {} PROVE s \in Int
  <2>1. PICK k \in next : k = CHOOSE m \in next : TRUE
    BY <1>2
  <2>2. k \in 1 .. w.n - 1
    OBVIOUS
  <2> HIDE DEF next
  <2>3. k \in Int /\ w.n > 0 /\ i + k \in Int
    BY <1>1, <2>2 DEF Slots
  <2>4. (i + k) % w.n \in Slots
    BY <1>1, <2>3, RemainderIsSlot
  <2>5. QED
    BY <2>1, <2>4 DEF Slots
<1>3. GroupGetConnectedNext(w, i, os, l) = IF next = {} THEN w
                                           ELSE GetConnected(w, s, os, l)
  BY DEF GroupGetConnectedNext
<1> HIDE DEF next, s
<1>4. QED
  BY <1>2, <1>3

LEMMA GroupGetConnectedNextOne ==
    ASSUME NEW w \in SafeWorld, NEW i \in Slots,
           NEW os \in [Slots -> ConnectOutcomes], NEW l \in LoginAnswers,
           OneSwitch(w), Still(w)
    PROVE  OneSwitch(GroupGetConnectedNext(w, i, os, l))
<1>1. \/ GroupGetConnectedNext(w, i, os, l) = w
      \/ \E s \in Int : GroupGetConnectedNext(w, i, os, l) = GetConnected(w, s, os, l)
  BY GroupGetConnectedNextTries
<1>2. QED
  BY <1>1, GetConnectedOne

-----------------------------------------------------------------------------
(* Losing a connection.                                                    *)

\* times, and the eof of an entry, have no part in a switch.
LEMMA TimesOne ==
    ASSUME NEW w \in SafeWorld, OneSwitch(w), NEW k
    PROVE  /\ OneSwitch([w EXCEPT !.times = k])
           /\ Still(w) => Still([w EXCEPT !.times = k])
<1> DEFINE r == [w EXCEPT !.times = k]
<1>1. /\ r.n = w.n /\ r.asked = w.asked /\ r.primary = w.primary
      /\ r.win = w.win /\ r.srv = w.srv
  BY DEF SafeWorld, World
<1> HIDE DEF r
<1>2. OneSwitch(r) /\ (Still(w) => Still(r))
  BY <1>1, Alike
<1>3. QED
  BY <1>2 DEF r

LEMMA MarkEofParts ==
    ASSUME NEW w \in SafeWorld, NEW i \in Slots
    PROVE  LET r == [w EXCEPT !.srv[i].eof = TRUE]
           IN  /\ r.n = w.n /\ r.asked = w.asked /\ r.primary = w.primary
               /\ r.win = w.win
               /\ \A j \in Slots : /\ r.srv[j].sock = w.srv[j].sock
                                   /\ r.srv[j].closeServ = w.srv[j].closeServ
                                   /\ r.srv[j].closePending = w.srv[j].closePending
                                   /\ r.srv[j].loggedIn = w.srv[j].loggedIn
                                   /\ r.srv[j].chans = w.srv[j].chans
<1> DEFINE s == [w.srv[i] EXCEPT !.eof = TRUE]
           r == [w EXCEPT !.srv[i] = s]
<1>1. w \in World /\ w.srv[i] \in Server
  BY DEF SafeWorld, World
<1>2. [w EXCEPT !.srv[i].eof = TRUE] = r
  BY <1>1 DEF World, Server
<1>3. /\ s.sock = w.srv[i].sock /\ s.closeServ = w.srv[i].closeServ
      /\ s.closePending = w.srv[i].closePending /\ s.loggedIn = w.srv[i].loggedIn
      /\ s.chans = w.srv[i].chans
  BY <1>1 DEF Server
<1> HIDE DEF s
<1>4. /\ r.n = w.n /\ r.asked = w.asked /\ r.primary = w.primary
      /\ r.win = w.win /\ r.srv[i] = s
      /\ \A j \in Slots : j # i => r.srv[j] = w.srv[j]
  BY <1>1, EntryReplaced
<1> HIDE DEF r
<1>5. QED
  BY <1>2, <1>3, <1>4

LEMMA MarkEofOne ==
    ASSUME NEW w \in SafeWorld, NEW i \in Slots, OneSwitch(w)
    PROVE  OneSwitch([w EXCEPT !.srv[i].eof = TRUE])
<1> DEFINE r == [w EXCEPT !.srv[i].eof = TRUE]
<1>1. /\ r.n = w.n /\ r.asked = w.asked /\ r.primary = w.primary
      /\ r.win = w.win
      /\ \A j \in Slots : /\ r.srv[j].sock = w.srv[j].sock
                          /\ r.srv[j].closeServ = w.srv[j].closeServ
                          /\ r.srv[j].closePending = w.srv[j].closePending
                          /\ r.srv[j].loggedIn = w.srv[j].loggedIn
  BY MarkEofParts
<1> HIDE DEF r
<1>2. OneSwitch(r)
  BY <1>1, Alike DEF Open
<1>3. QED
  BY <1>2 DEF r

LEMMA PrimaryLostOne ==
    ASSUME NEW w \in SafeWorld, NEW i \in Slots,
           NEW os \in [Slots -> ConnectOutcomes], NEW l \in LoginAnswers,
           OneSwitch(w), Still(w)
    PROVE  OneSwitch(PrimaryLost(w, i, os, l))
<1>1. OneSwitch([WindowCheckServers(w) EXCEPT !.times = 0])
  BY CheckKeepsOne, CheckKeepsSafe, TimesOne
<1>2. OneSwitch(GroupGetConnectedNext(w, i, os, l))
  BY GroupGetConnectedNextOne
<1>3. ASSUME ~(w.times > 1)
      PROVE  OneSwitch(GetConnected([w EXCEPT !.times = @ + 1], i, os, l))
  <2>1. w.times + 1 \in 0 .. 2
    BY <1>3 DEF SafeWorld, World
  <2> DEFINE k == w.times + 1
             x == [w EXCEPT !.times = k]
  <2>2. [w EXCEPT !.times = @ + 1] = x
    BY DEF SafeWorld, World
  <2> HIDE DEF k
  <2>3. x \in SafeWorld /\ OneSwitch(x) /\ Still(x)
    BY <2>1, TimesSafe, TimesOne DEF k
  <2>4. i \in Int
    BY DEF Slots
  <2> HIDE DEF x
  <2>5. QED
    BY <2>2, <2>3, <2>4, GetConnectedOne
<1>4. QED
  BY <1>1, <1>2, <1>3 DEF PrimaryLost

LEMMA RedialledParts ==
    ASSUME NEW w \in SafeWorld, NEW i \in Slots, NEW o \in {"pending", "up"}
    PROVE  LET r == Dialled(w, i, -1, o)
           IN  /\ r.n = w.n /\ r.asked = w.asked /\ r.primary = w.primary
               /\ r.win = w.win
               /\ Open(r.srv[i]) /\ ~r.srv[i].loggedIn
               /\ r.srv[i].closeServ = -1
               /\ r.srv[i].closePending = w.srv[i].closePending
               /\ \A j \in Slots : j \notin {i, -1} => r.srv[j] = w.srv[j]
<1>1. -1 \in Index
  BY MaxServersAssumption DEF Index
<1> SUFFICES ASSUME NEW c \in Index, c = -1
             PROVE  LET r == Dialled(w, i, c, o)
                    IN  /\ r.n = w.n /\ r.asked = w.asked /\ r.primary = w.primary
                        /\ r.win = w.win
                        /\ Open(r.srv[i]) /\ ~r.srv[i].loggedIn
                        /\ r.srv[i].closeServ = c
                        /\ r.srv[i].closePending = w.srv[i].closePending
                        /\ \A j \in Slots : j \notin {i, c} => r.srv[j] = w.srv[j]
  BY <1>1
<1>2. i # -1
  BY DEF Slots
<1> DEFINE r == Dialled(w, i, c, o)
<1>3. /\ r.n = w.n /\ r.asked = w.asked /\ r.primary = w.primary
      /\ r.win = w.win
      /\ Open(r.srv[i]) /\ ~r.srv[i].loggedIn
      /\ r.srv[i].closeServ = IF c = i THEN -1 ELSE c
      /\ r.srv[i].closePending = w.srv[i].closePending
      /\ \A j \in Slots : j \notin {i, c} => r.srv[j] = w.srv[j]
      /\ c \notin {-1, i} =>
            /\ r.srv[c].closePending
            /\ r.srv[c].closeServ = w.srv[c].closeServ
            /\ r.srv[c].sock = w.srv[c].sock
            /\ r.srv[c].loggedIn = w.srv[c].loggedIn
  BY DialledParts
<1> HIDE DEF r
<1>4. QED
  BY <1>2, <1>3 DEF r

LEMMA RedialledOne ==
    ASSUME NEW w \in SafeWorld, NEW i \in Slots, NEW o \in {"pending", "up"},
           OneSwitch(w), w.srv[i].closeServ = -1, Open(w.srv[i])
    PROVE  LET r == Dialled(w, i, -1, o)
           IN  OneSwitch(r) /\ r.n = w.n /\ Open(r.srv[i]) /\ ~r.srv[i].loggedIn
<1> DEFINE r == Dialled(w, i, -1, o)
<1>1. /\ r.n = w.n /\ r.asked = w.asked /\ r.primary = w.primary
      /\ r.win = w.win
      /\ Open(r.srv[i]) /\ ~r.srv[i].loggedIn
      /\ r.srv[i].closeServ = -1
      /\ r.srv[i].closePending = w.srv[i].closePending
      /\ \A j \in Slots : j \notin {i, -1} => r.srv[j] = w.srv[j]
  BY RedialledParts
<1> HIDE DEF r
<1>2. \A j \in Slots : j # -1
  BY DEF Slots
<1>3. OneSwitch(r)
  BY <1>1, <1>2, Alike
<1>4. QED
  BY <1>1, <1>3 DEF r

\* The old server of a switch is dialled again while it waits to be closed.
LEMMA RedialOne ==
    ASSUME NEW w \in SafeWorld, NEW i \in Entries(w), NEW o \in ConnectOutcomes,
           NEW l \in LoginAnswers,
           OneSwitch(w), w.srv[i].closePending, w.srv[i].closeServ = -1,
           Open(w.srv[i])
    PROVE  OneSwitch(Redial(w, i, o, l))
<1> DEFINE c == -1
           r == ConnectToServer(w, i, c, o, l)
           d == Dialled(w, i, c, o)
<1>1. i \in Slots /\ w \in World /\ w.srv[i] \in Server /\ c \in Index /\ i # -1
  BY MaxServersAssumption DEF Entries, SafeWorld, World, Slots, Index
<1>2. r \in SafeWorld
  BY <1>1, ConnectSafe
<1>3. CASE IsConnected(w.srv[i])
  <2>1. r = w
    BY <1>3 DEF ConnectToServer
  <2>2. QED
    BY <1>3, <2>1 DEF Redial, Connects
<1>4. CASE ~IsConnected(w.srv[i]) /\ o = "fail"
  <2> DEFINE h == [w EXCEPT !.srv[i] = Hung(w.srv[i])]
  <2>1. r = h
    BY <1>1, <1>4 DEF ConnectToServer, World
  <2>2. /\ h.n = w.n /\ h.asked = w.asked /\ h.primary = w.primary
        /\ h.win = w.win /\ h.srv[i] = Hung(w.srv[i])
        /\ \A j \in Slots : j # i => h.srv[j] = w.srv[j]
    BY <1>1, EntryReplaced
  <2>3. /\ Hung(w.srv[i]).closeServ = w.srv[i].closeServ
        /\ Hung(w.srv[i]).closePending = w.srv[i].closePending
        /\ Open(Hung(w.srv[i])) <=> Open(w.srv[i])
    BY <1>1, HungFields
  <2> HIDE DEF h
  <2>4. OneSwitch(h)
    BY <2>2, <2>3, Alike, ZenonT(60)
  <2>5. Redial(w, i, o, l) = WindowCheckServers(r)
    BY <1>4 DEF Redial, Connects
  <2> HIDE DEF r
  <2>6. QED
    BY <1>2, <2>1, <2>4, <2>5, CheckKeepsOne
<1>5. CASE ~IsConnected(w.srv[i]) /\ o # "fail"
  <2>1. o \in {"pending", "up"}
    BY <1>5 DEF ConnectOutcomes
  <2>2. d \in SafeWorld
    BY <1>1, <2>1, DialledSafe
  <2>3. OneSwitch(d) /\ d.n = w.n /\ Open(d.srv[i]) /\ ~d.srv[i].loggedIn
    BY <1>1, <2>1, RedialledOne
  <2>4. r = IF o = "up" THEN LoginToServer(d, i, Answered(w.srv[i], l)) ELSE d
    BY <1>5 DEF ConnectToServer
  <2>5. Redial(w, i, o, l) = r
    BY <1>5 DEF Redial, Connects
  <2> HIDE DEF d, r
  <2>6. i \in Entries(d)
    BY <2>3 DEF Entries
  <2>7. OneSwitch(LoginToServer(d, i, Answered(w.srv[i], l)))
    BY <2>2, <2>3, <2>6, LoginOne, AnsweredIsAnswer
  <2>8. QED
    BY <2>3, <2>4, <2>5, <2>7
<1>6. QED
  BY <1>3, <1>4, <1>5

\* do_server() gets EOF from an entry that is logged in.
LEMMA ServerEofOne ==
    ASSUME NEW w \in SafeWorld, NEW i \in Entries(w),
           NEW os \in [Slots -> ConnectOutcomes], NEW l \in LoginAnswers,
           OneSwitch(w), w.srv[i].loggedIn, Open(w.srv[i])
    PROVE  OneSwitch(ServerEof(w, i, os, l))
<1> DEFINE shut == CloseServer(w, i)
<1>1. /\ i \in Slots /\ w \in World /\ w.srv[i] \in Server /\ os[i] \in ConnectOutcomes
  BY DEF Entries, SafeWorld, World
<1>2. w.srv[i].closeServ = -1
  BY <1>1, NotHolding
<1>3. shut \in SafeWorld /\ OneSwitch(shut) /\ (Still(w) => Still(shut))
  BY <1>1, <1>2, CloseServerSafe, CloseOne
<1>4. ServerEof(w, i, os, l) =
        LET x == IF i = w.primary THEN PrimaryLost(shut, i, os, l)
                 ELSE IF shut.srv[i].eof THEN WindowCheckServers(shut)
                 ELSE Redial(shut, i, os[i], l)
        IN  [x EXCEPT !.srv[i].eof = TRUE]
  BY DEF ServerEof
<1>5. CASE i = w.primary
  <2>1. Still(shut)
    BY <1>2, <1>3, <1>5, PrimaryStill
  <2> HIDE DEF shut
  <2>2. /\ OneSwitch(PrimaryLost(shut, i, os, l))
        /\ PrimaryLost(shut, i, os, l) \in SafeWorld
    BY <1>1, <1>3, <2>1, PrimaryLostOne, PrimaryLostSafe
  <2>3. QED
    BY <1>1, <1>4, <1>5, <2>2, MarkEofOne
<1>6. CASE i # w.primary
  <2>1. w.srv[i].closePending
    BY <1>1, <1>6 DEF OneSwitch
  <2>2. shut = w
    <3>1. Closed(w.srv[i]) = w.srv[i]
      BY <2>1 DEF Closed
    <3>2. QED
      BY <1>1, <3>1 DEF CloseServer, World
  <2> HIDE DEF shut
  <2>3. OneSwitch(WindowCheckServers(shut)) /\ WindowCheckServers(shut) \in SafeWorld
    BY <1>3, CheckKeepsOne, CheckKeepsSafe
  <2>4. OneSwitch(Redial(shut, i, os[i], l)) /\ Redial(shut, i, os[i], l) \in SafeWorld
    BY <1>1, <1>2, <1>3, <2>1, <2>2, RedialOne, RedialSafe
  <2>5. QED
    BY <1>1, <1>4, <1>6, <2>3, <2>4, MarkEofOne, SMTT(30)
<1>7. QED
  BY <1>5, <1>6

-----------------------------------------------------------------------------
(* The steps, if the user lets a switch end before the next one and windows *)
(* are switched together.                                                   *)

One == OneSwitch(world)

LEMMA NewEntriesClosed ==
    \A e \in NewEntries \cup {Blank} :
       e.closeServ = -1 /\ ~e.closePending /\ ~Open(e)
<1>1. Blank.closeServ = -1 /\ ~Blank.closePending /\ ~Open(Blank)
  BY DEF Blank, Open
<1>2. ASSUME NEW e \in NewEntries
      PROVE  e.closeServ = -1 /\ ~e.closePending /\ ~Open(e)
  <2>1. PICK k \in Groups \X Ssls : e = [Blank EXCEPT !.group = k[1], !.ssl = k[2]]
    BY Zenon DEF NewEntries
  <2>2. QED
    BY <2>1 DEF Blank, Open
<1>3. QED
  BY <1>1, <1>2

LEMMA InitOne == Init => One
<1> SUFFICES ASSUME NEW n \in 1 .. MaxServers, NEW new \in [Slots -> NewEntries],
                    NEW v \in Windows,
                    world = [n |-> n,
                             srv |-> [i \in Slots |-> IF i < n THEN new[i] ELSE Blank],
                             win |-> [u \in Windows |-> IF u = v THEN -1 ELSE NoWindow],
                             primary |-> -1, times |-> 0, asked |-> -1, alive |-> FALSE]
             PROVE  One
  BY DEF Init
<1> DEFINE srv == [i \in Slots |-> IF i < n THEN new[i] ELSE Blank]
           win == [u \in Windows |-> IF u = v THEN -1 ELSE NoWindow]
<1>1. \A e \in NewEntries \cup {Blank} :
         e.closeServ = -1 /\ ~e.closePending /\ ~Open(e)
  BY NewEntriesClosed
<1>2. \A j \in Slots : srv[j] \in NewEntries \cup {Blank}
  OBVIOUS
<1>3. \A u \in Windows : win[u] \in {-1, NoWindow}
  OBVIOUS
<1>4. win[v] = -1
  OBVIOUS
<1>5. /\ world.srv = srv /\ world.win = win /\ world.primary = -1 /\ world.asked = -1
  OBVIOUS
<1> HIDE DEF srv, win
<1>6. \A j \in Slots : /\ world.srv[j].closeServ = -1 /\ ~world.srv[j].closePending
                       /\ ~Open(world.srv[j])
  BY <1>1, <1>2, <1>5
<1>7. Still(world)
  BY <1>6 DEF Still
<1>8. Together(world, -1)
  BY <1>3, <1>4, <1>5 DEF Together
<1>9. QED
  BY <1>5, <1>6, <1>7, <1>8, StillIsHeld DEF One, OneSwitch, Serves

LEMMA NetworkOne ==
    ASSUME Safe, One, NEW i \in Slots, NetAccept(i) \/ NetFail(i)
    PROVE  One'
<1>1. world.srv[i] \in Server /\ world \in World /\ world \in SafeWorld
  BY DEF Safe, SafeWorld, World
<1>2. ASSUME NEW k \in {"up", "dead"}, world' = [world EXCEPT !.srv[i].sock = k],
             Open(world.srv[i])
      PROVE  One'
  <2> DEFINE s == [world.srv[i] EXCEPT !.sock = k]
  <2>1. /\ Open(s) /\ s.closeServ = world.srv[i].closeServ
        /\ s.closePending = world.srv[i].closePending
        /\ s.loggedIn = world.srv[i].loggedIn
    BY <1>1 DEF Server, Open
  <2>2. world' = [world EXCEPT !.srv[i] = s]
    BY <1>1, <1>2 DEF World, Server
  <2> HIDE DEF s
  <2> DEFINE r == [world EXCEPT !.srv[i] = s]
  <2>3. /\ r.n = world.n /\ r.asked = world.asked /\ r.primary = world.primary
        /\ r.win = world.win /\ r.srv[i] = s
        /\ \A j \in Slots : j # i => r.srv[j] = world.srv[j]
    BY <1>1, EntryReplaced
  <2> HIDE DEF r
  <2>4. OneSwitch(r)
    BY <1>1, <1>2, <2>1, <2>3, Alike DEF One
  <2>5. QED
    BY <2>2, <2>4 DEF One, r
<1>3. QED
  BY <1>2 DEF NetAccept, NetFail, Open

LEMMA DoServerAcceptedOne ==
    ASSUME Safe, One, NEW i \in Entries(world), DoServerAccepted(i) \/ DoServerHandshake(i)
    PROVE  One'
<1>1. PICK l \in LoginOutcomes(world.srv[i]) : world' = LoginToServer(world, i, l)
  BY DEF DoServerAccepted, DoServerHandshake
<1>2. Open(world.srv[i]) /\ ~world.srv[i].loggedIn
  BY DEF DoServerAccepted, DoServerHandshake, Handshaking, Open
<1>3. OneSwitch(LoginToServer(world, i, l))
  BY <1>2, AnswersSafe, LoginOne DEF Safe, One
<1>4. QED
  BY <1>1, <1>3 DEF One

LEMMA DoServerEofOne ==
    ASSUME Safe, One, NEW i \in Entries(world), DoServerEof(i)
    PROVE  One'
<1>1. PICK os \in [Slots -> ConnectOutcomes], l \in LoginAnswers,
           m \in LoginOutcomes(world.srv[i]) :
           LET in == IF world.srv[i].loggedIn THEN world
                                             ELSE LoginToServer(world, i, m)
           IN  world' = IF in.srv[i].loggedIn THEN ServerEof(in, i, os, l) ELSE in
  BY DEF DoServerEof, LoginAnswers, Answers, Dials
<1> DEFINE in == IF world.srv[i].loggedIn THEN world ELSE LoginToServer(world, i, m)
<1>2. i \in Slots /\ Open(world.srv[i])
  BY DEF DoServerEof, Open, Entries
<1>3. /\ in \in SafeWorld /\ OneSwitch(in) /\ i \in Entries(in)
      /\ in.srv[i].loggedIn => Open(in.srv[i])
  <2>1. CASE world.srv[i].loggedIn
    BY <1>2, <2>1 DEF Safe, One
  <2>2. CASE ~world.srv[i].loggedIn
    <3> DEFINE r == LoginToServer(world, i, m)
    <3>1. r \in SafeWorld
      BY <1>2, AnswersSafe, LoginSafe DEF Safe
    <3>2. /\ OneSwitch(r) /\ Entries(r) = Entries(world)
          /\ r.srv[i].loggedIn => Open(r.srv[i])
      BY <1>2, <2>2, AnswersSafe, LoginOne DEF Safe, One
    <3> HIDE DEF r
    <3>3. QED
      BY <2>2, <3>1, <3>2 DEF r
  <2>3. QED
    BY <2>1, <2>2
<1>4. world' = IF in.srv[i].loggedIn THEN ServerEof(in, i, os, l) ELSE in
  BY <1>1
<1> HIDE DEF in
<1>5. in.srv[i].loggedIn => OneSwitch(ServerEof(in, i, os, l))
  BY <1>3, ServerEofOne
<1>6. OneSwitch(IF in.srv[i].loggedIn THEN ServerEof(in, i, os, l) ELSE in)
  BY <1>3, <1>5
<1>7. QED
  BY <1>4, <1>6 DEF One

LEMMA WelcomeOne ==
    ASSUME Safe, One, NEW i \in Slots, Welcome(i) \/ \E c \in Channels : JoinChannel(i, c)
    PROVE  One'
<1>1. world.srv[i] \in Server /\ world \in World /\ world \in SafeWorld
  BY DEF Safe, SafeWorld, World
<1>2. ASSUME NEW s, world' = [world EXCEPT !.srv[i] = s],
             s.sock = world.srv[i].sock, s.closeServ = world.srv[i].closeServ,
             s.closePending = world.srv[i].closePending,
             s.loggedIn = world.srv[i].loggedIn
      PROVE  One'
  <2> DEFINE r == [world EXCEPT !.srv[i] = s]
  <2>1. /\ r.n = world.n /\ r.asked = world.asked /\ r.primary = world.primary
        /\ r.win = world.win /\ r.srv[i] = s
        /\ \A j \in Slots : j # i => r.srv[j] = world.srv[j]
    BY <1>1, EntryReplaced
  <2> HIDE DEF r
  <2>2. OneSwitch(r)
    BY <1>1, <1>2, <2>1, Alike DEF One, Open
  <2>3. QED
    BY <1>2, <2>2 DEF One, r
<1>3. CASE Welcome(i)
  <2> DEFINE s == [world.srv[i] EXCEPT !.connected = TRUE, !.eof = FALSE]
  <2>1. world' = [world EXCEPT !.srv[i] = s]
    BY <1>1, <1>3, ZenonT(60) DEF Welcome, World, Server
  <2>2. /\ s.sock = world.srv[i].sock /\ s.closeServ = world.srv[i].closeServ
        /\ s.closePending = world.srv[i].closePending
        /\ s.loggedIn = world.srv[i].loggedIn
    BY <1>1 DEF Server
  <2> HIDE DEF s
  <2>3. QED
    BY <1>2, <2>1, <2>2
<1>4. ASSUME NEW c \in Channels, JoinChannel(i, c) PROVE One'
  <2> DEFINE s == [world.srv[i] EXCEPT !.chans = @ \cup {c}]
  <2>1. world' = [world EXCEPT !.srv[i] = s]
    BY <1>1, <1>4 DEF JoinChannel, World, Server
  <2>2. /\ s.sock = world.srv[i].sock /\ s.closeServ = world.srv[i].closeServ
        /\ s.closePending = world.srv[i].closePending
        /\ s.loggedIn = world.srv[i].loggedIn
    BY <1>1 DEF Server
  <2> HIDE DEF s
  <2>3. QED
    BY <1>2, <2>1, <2>2
<1>5. QED
  BY <1>3, <1>4

LEMMA ClosedByOne ==
    ASSUME Safe, One, NEW i \in Slots, Killed(i) \/ NoPermission(i)
    PROVE  One'
<1> DEFINE shut == CloseServer(world, i)
           w == WindowCheckServers(shut)
<1>1. shut \in SafeWorld /\ OneSwitch(shut)
  <2>1. world.srv[i].closeServ = -1
    BY NotHolding DEF Killed, NoPermission, Talking, Safe, One
  <2>2. QED
    BY <2>1, CloseServerSafe, CloseOne DEF Safe, One
<1> HIDE DEF shut
<1>2. w \in SafeWorld /\ OneSwitch(w) /\ (~w.alive => Still(w))
  BY <1>1, CheckKeepsSafe, CheckKeepsOne
<1>3. CASE Killed(i)
  <2>1. world' = w
    BY <1>3 DEF Killed, shut
  <2> HIDE DEF w
  <2>2. QED
    BY <1>2, <2>1 DEF One
<1>4. CASE NoPermission(i)
  <2>1. \/ world' = w
        \/ ~w.alive /\ \E os \in [Slots -> ConnectOutcomes], l \in LoginAnswers :
              world' = GetConnected(w, i + 1, os, l)
    BY <1>4 DEF NoPermission, LoginAnswers, Answers, Dials, shut
  <2>2. i + 1 \in Int
    BY DEF Slots
  <2> HIDE DEF w
  <2>3. ASSUME ~w.alive, NEW os \in [Slots -> ConnectOutcomes], NEW l \in LoginAnswers
        PROVE  OneSwitch(GetConnected(w, i + 1, os, l))
    BY <1>2, <2>2, <2>3, GetConnectedOne
  <2>4. QED
    BY <1>2, <2>1, <2>3 DEF One
<1>5. QED
  BY <1>3, <1>4

-----------------------------------------------------------------------------
(* What the user types.                                                    *)

LEMMA MayStill == ASSUME Safe, One, Patient, MaySwitch PROVE Still(world)
BY NothingPending DEF MaySwitch, Safe, One

LEMMA NamedOne ==
    ASSUME NEW w \in SafeWorld, NEW i \in Slots, i <= w.n,
           NEW s \in NewEntries \cup {Blank}, OneSwitch(w), Still(w)
    PROVE  /\ OneSwitch(Named(w, i, s)) /\ Still(Named(w, i, s))
           /\ i \in Entries(Named(w, i, s))
<1> DEFINE r == [w EXCEPT !.n = w.n + 1, !.srv[i] = s]
<1>1. w \in World /\ w.n \in Nat /\ i \in Int
  BY DEF SafeWorld, World, Slots
<1>2. CASE i < w.n
  BY <1>2 DEF Named, Entries
<1>3. CASE ~(i < w.n)
  <2>1. Named(w, i, s) = r
    BY <1>1, <1>3 DEF Named, World
  <2>2. /\ r.n = w.n + 1 /\ r.asked = w.asked /\ r.primary = w.primary
        /\ r.win = w.win /\ r.srv[i] = s
        /\ \A j \in Slots : j # i => r.srv[j] = w.srv[j]
    BY <1>1 DEF World
  <2>3. s.closeServ = -1 /\ ~s.closePending /\ ~Open(s)
    BY NewEntriesClosed
  <2> HIDE DEF r
  <2>4. Entries(w) \subseteq Entries(r) /\ i \in Entries(r)
    BY <1>1, <1>3, <2>2 DEF Entries, Slots
  <2>5. Still(r) /\ \A j \in Slots : Open(r.srv[j]) => j = r.primary
    BY <2>2, <2>3 DEF Still, OneSwitch
  <2>6. Serves(r, r.primary) /\ Together(r, r.primary)
    BY <2>2, <2>4 DEF OneSwitch, Serves, Together
  <2>7. OneSwitch(r)
    BY <2>2, <2>5, <2>6, StillIsHeld DEF OneSwitch
  <2>8. QED
    BY <2>1, <2>4, <2>5, <2>7
<1>4. QED
  BY <1>2, <1>3

LEMMA ServerCmdOne ==
    ASSUME Safe, One, Patient, NEW i \in Slots, ServerCmd(i)
    PROVE  One'
<1>1. PICK o \in ConnectOutcomes, l \in LoginAnswers, new \in Unlisted(i) :
           LET w == Named(world, i, new)
               r == ConnectToServer(w, i, w.primary, o, l)
           IN  world' = IF Connects(w, i, o)
                        THEN SetPrimary(r, i, ~IsConnected(w.srv[i])) ELSE r
  BY OutcomesAssumption, ZenonT(60) DEF ServerCmd, LoginAnswers, Answers
<1> DEFINE w == Named(world, i, new)
           r == ConnectToServer(w, i, w.primary, o, l)
           transfer == ~IsConnected(w.srv[i])
<1>2. new \in NewEntries \cup {Blank} /\ i <= world.n
  BY DEF Unlisted, ServerCmd
<1>3. w \in SafeWorld
  BY <1>2, UnlistedSafe, NamedSafe DEF Safe
<1>4. OneSwitch(w) /\ Still(w) /\ i \in Entries(w)
  BY <1>2, MayStill, NamedOne DEF ServerCmd, Safe, One
<1>5. world' = IF Connects(w, i, o) THEN SetPrimary(r, i, transfer) ELSE r
  BY <1>1
<1>6. transfer \in BOOLEAN
  OBVIOUS
<1> HIDE DEF w, transfer
<1>7. r \in SafeWorld
  <2>1. w.primary \in Index
    BY <1>3 DEF SafeWorld, World
  <2>2. QED
    BY <1>3, <2>1, ConnectSafe
<1>8. CASE Connects(w, i, o)
  <2>1. Ready(r, i)
    BY <1>3, <1>4, <1>8, ConnectReady
  <2> HIDE DEF r
  <2>2. OneSwitch(SetPrimary(r, i, transfer))
    BY <1>6, <1>7, <2>1, SetPrimaryOne
  <2>3. QED
    BY <1>5, <1>8, <2>2 DEF One
<1>9. CASE ~Connects(w, i, o)
  <2>1. r = [w EXCEPT !.srv[i] = Hung(@)]
    BY <1>9 DEF Connects, ConnectToServer
  <2>2. OneSwitch(r)
    BY <1>3, <1>4, <2>1, HungOne
  <2>3. QED
    BY <1>5, <1>9, <2>2 DEF One
<1>10. QED
  BY <1>8, <1>9

LEMMA ServerStepOne ==
    ASSUME Safe, One, Patient, NEW d \in {-1, 1}, ServerStep(d)
    PROVE  One'
<1>1. PICK os \in [Slots -> ConnectOutcomes], l \in LoginAnswers :
           world' = GetConnected(world, world.primary + d, os, l)
  BY DEF ServerStep, LoginAnswers, Answers, Dials
<1>2. world.primary + d \in Int
  BY MaxServersAssumption DEF Safe, SafeWorld, World, Index
<1>3. Still(world)
  BY MayStill DEF ServerStep
<1>4. QED
  BY <1>1, <1>2, <1>3, GetConnectedOne DEF Safe, One

\* /DISCONNECT of the new server gives the old one its windows back; of the old
\* one, it leaves the switch as it is.
LEMMA DisconnectOne ==
    ASSUME Safe, One, NEW i \in Entries(world), Disconnect(i)
    PROVE  One'
<1> DEFINE old == world.srv[i].closeServ
           closed == CloseServer(world, i)
           shut == [closed EXCEPT !.srv[i].eof = TRUE]
<1>1. i \in Slots /\ world \in SafeWorld /\ OneSwitch(world)
      /\ (old \in Slots \/ old = -1) /\ i # -1
  BY MaxServersAssumption, SMTT(30) DEF Entries, Safe, One, SafeWorld, World, Server, Index, Slots
<1>2. world' = WindowCheckServers(IF old \notin {-1, i}
                                  THEN Resume(shut, i, old) ELSE shut)
  BY DEF Disconnect
<1>3. closed \in SafeWorld
  BY <1>1, CloseServerSafe
<1>4. old # i
  BY <1>1 DEF OneSwitch, Held
<1> HIDE DEF closed
<1>5. shut \in SafeWorld
  BY <1>1, <1>3, MarkEofSafe
<1>6. CASE old = -1
  <2>1. OneSwitch(shut)
    BY <1>1, <1>3, <1>6, CloseOne, MarkEofOne DEF closed
  <2> HIDE DEF shut
  <2>2. OneSwitch(WindowCheckServers(shut))
    BY <1>5, <2>1, CheckKeepsOne
  <2>3. QED
    BY <1>2, <1>6, <2>2 DEF One
<1>7. CASE old # -1
  <2>1. i = world.primary
    BY <1>1, <1>7 DEF OneSwitch, Held
  <2>2. Held(world, i) /\ world.asked = -1 /\ Together(world, i)
    BY <1>1, <2>1 DEF OneSwitch
  <2>3. \A j \in Slots : world.srv[j].closePending => old = j
    BY <1>1, <2>2, HeldApart
  <2>4. \A j \in Slots : Open(world.srv[j]) => j = i \/ j = old
    BY <1>1, <2>1, <2>3 DEF OneSwitch
  <2>5. Failed(closed, i, old, i)
    BY <1>1, <1>7, <2>1, <2>2, <2>4, LoginFailed DEF closed
  <2>6. /\ shut.n = closed.n /\ shut.asked = closed.asked
        /\ shut.primary = closed.primary /\ shut.win = closed.win
        /\ \A j \in Slots : /\ shut.srv[j].sock = closed.srv[j].sock
                            /\ shut.srv[j].closeServ = closed.srv[j].closeServ
                            /\ shut.srv[j].closePending = closed.srv[j].closePending
                            /\ shut.srv[j].loggedIn = closed.srv[j].loggedIn
    BY <1>1, <1>3, MarkEofParts
  <2> HIDE DEF shut, old
  <2>7. Failed(shut, i, old, i)
    <3>1. Entries(shut) = Entries(closed) /\ (Together(closed, i) => Together(shut, i))
      BY <2>6 DEF Entries, Together
    <3>2. QED
      BY <1>1, <1>7, <2>5, <2>6, <3>1 DEF Failed, Open
  <2>8. OneSwitch(Resume(shut, i, old)) /\ Resume(shut, i, old) \in LooseWorld
    BY <1>1, <1>5, <1>7, <2>7, ResumeOne, ResumeLoose
  <2>9. OneSwitch(WindowCheckServers(Resume(shut, i, old)))
    BY <2>8, OneSwitchGathered, CheckOne
  <2>10. QED
    BY <1>2, <1>4, <1>7, <2>9 DEF One
<1>8. QED
  BY <1>6, <1>7

LEMMA NextOne ==
    ASSUME OnlySwitches, Safe, One, [Next]_vars PROVE One'
<1>1. CASE UNCHANGED vars
  BY <1>1 DEF vars, One
<1>2. CASE Network
  BY <1>2, NetworkOne DEF Network, Entries
<1>3. ASSUME NEW i \in Entries(world), DoServer(i) PROVE One'
  <2>1. i \in Slots
    BY DEF Entries
  <2>2. ~Banned(i) /\ ~GetPassword(i)
    BY DEF OnlySwitches, Banned, GetPassword
  <2>3. QED
    BY <1>3, <2>1, <2>2, DoServerAcceptedOne, DoServerEofOne, WelcomeOne, ClosedByOne
       DEF DoServer
<1>4. CASE User
  <2>1. ASSUME NEW i \in Slots, ServerCmd(i) PROVE One'
    BY <2>1, ServerCmdOne DEF OnlySwitches
  <2>2. ASSUME NEW d \in {-1, 1}, ServerStep(d) PROVE One'
    BY <2>2, ServerStepOne DEF OnlySwitches
  <2>3. ASSUME NEW i \in Entries(world), Disconnect(i) PROVE One'
    BY <2>3, DisconnectOne
  <2>4. ASSUME NEW i \in Entries(world), NEW c \in Channels, JoinChannel(i, c)
        PROVE  One'
    BY <2>4, WelcomeOne DEF Entries
  <2>5. ~PasswordSendline
    BY DEF PasswordSendline, One, OneSwitch
  <2>6. /\ \A v \in Windows, i \in Slots, every \in BOOLEAN : ~WindowServer(v, i, every)
        /\ \A i \in Entries(world) : ~DeleteServer(i)
        /\ \A v \in Windows : ~NewWindow(v) /\ ~DeleteWindow(v)
    BY DEF OnlySwitches, WindowServer, DeleteServer, NewWindow, DeleteWindow
  <2>7. QED
    BY <1>4, <2>1, <2>2, <2>3, <2>4, <2>5, <2>6 DEF User
<1>5. QED
  BY <1>1, <1>2, <1>3, <1>4 DEF Next

-----------------------------------------------------------------------------
(* The theorem.                                                            *)

LEMMA OneIsConsistent ==
    ASSUME Safe, One PROVE SwitchConsistent
<1> DEFINE p == world.primary
<1>1. /\ world \in SafeWorld /\ world.srv \in [Slots -> SafeServer]
      /\ Held(world, p) /\ Together(world, p) /\ Entries(world) \subseteq Slots
      /\ \A j \in Slots : Open(world.srv[j]) => j = p \/ world.srv[j].closePending
  BY DEF Safe, One, OneSwitch, SafeWorld, Entries
<1>2. ASSUME NEW j \in Entries(world)
      PROVE  /\ Pending(j) <=> Holders(j) # {}
             /\ Cardinality(Holders(j)) <= 1
  <2>1. Holders(j) \subseteq {p}
    <3>1. j # -1
      BY <1>1 DEF Slots
    <3>2. ASSUME NEW i \in Holders(j) PROVE i = p
      BY <1>1, <3>1, <3>2 DEF Holders, Held
    <3>3. QED
      BY <3>2
  <2>2. Pending(j) => p \in Holders(j)
    <3>1. ASSUME Pending(j) PROVE p \in Slots /\ world.srv[p].closeServ = j
      BY <1>1, <3>1 DEF Pending, Held
    <3>2. ASSUME Pending(j) PROVE p \in Entries(world)
      <4>1. p \in Slots /\ p # -1
        BY <3>1, <3>2 DEF Slots
      <4>2. QED
        BY <4>1 DEF One, OneSwitch, Serves
    <3>3. QED
      BY <3>1, <3>2 DEF Holders
  <2>3. p \in Holders(j) => Pending(j)
    <3>1. j # -1
      BY <1>1 DEF Slots
    <3>2. QED
      BY <1>1, <3>1 DEF Holders, Held, Pending
  <2>4. Cardinality(Holders(j)) <= 1
    <3>1. Holders(j) = {} \/ Holders(j) = {p}
      BY <2>1
    <3>2. Cardinality({}) = 0 /\ Cardinality({p}) = 1
      BY FS_EmptySet, FS_Singleton
    <3>3. QED
      BY <3>1, <3>2
  <2>5. QED
    BY <2>1, <2>2, <2>3, <2>4
<1>3. HolderIsUndecided
  BY <1>1 DEF HolderIsUndecided, Held
<1>4. NoOrphan
  <2> SUFFICES ASSUME NEW j \in Entries(world), Open(world.srv[j]), ~Watched(j)
               PROVE  \E i \in Holders(j) : Open(world.srv[i]) /\ ~world.srv[i].loggedIn
    BY Zenon DEF NoOrphan
  <2>1. j # p
    BY <1>1 DEF Watched, Together
  <2>2. Pending(j)
    BY <1>1, <2>1 DEF Pending
  <2>3. PICK i \in Holders(j) : TRUE
    BY <1>2, <2>2
  <2>4. i \in Entries(world) /\ world.srv[i].closeServ # -1
    BY <1>1, <2>3 DEF Holders, Slots
  <2>5. Open(world.srv[i]) /\ ~world.srv[i].loggedIn
    BY <1>1, <2>4 DEF Held
  <2>6. QED
    BY <2>3, <2>5
<1>5. ClearOnlyIfPending
  BY <1>1 DEF ClearOnlyIfPending, SafeServer
<1>6. QED
  BY <1>2, <1>3, <1>4, <1>5 DEF SwitchConsistent, PendingHasOneHolder

\* Whatever servers there are and however each attempt ends - the peer accepts,
\* refuses or answers the handshake, the entry is dialled again, another one is
\* tried, the user disconnects either end - the server that is to be closed and
\* the one that is to close it point to each other, the latter is a connection
\* not logged in yet, and no connection is left that no window and no switch has.
THEOREM SwitchesAreConsistent == OnlySwitches => (Spec => []SwitchConsistent)
<1> SUFFICES ASSUME OnlySwitches PROVE Spec => []SwitchConsistent
  OBVIOUS
<1>1. Init => One
  BY InitOne
<1>2. Safe /\ One /\ [Next]_vars => One'
  BY NextOne
<1>3. Safe /\ One => SwitchConsistent
  BY OneIsConsistent
<1>4. QED
  BY <1>1, <1>2, <1>3, SafeInvariant, PTL DEF Spec

-----------------------------------------------------------------------------
(* What the old connection has is kept until the new one takes its place:   *)
(* an entry that waits to be closed stays open, and keeps its channels.     *)

\* Nobody waits in r but the primary server of w, with the channels it had.
OnlyPrimaryWaits(w, r) ==
    \A j \in Slots : r.srv[j].closePending =>
        j = w.primary /\ r.srv[j].chans = w.srv[j].chans

WaitingStaysOpen(w, r) ==
    \A j \in Slots : w.srv[j].closePending /\ Open(w.srv[j]) => Open(r.srv[j])

LEMMA ClosedKeeps ==
    ASSUME NEW s \in Server
    PROVE  /\ Closed(s).chans = s.chans /\ Closed(s).closePending = s.closePending
           /\ s.closePending => Closed(s) = s
BY DEF Closed, Server

LEMMA CheckKeeps ==
    ASSUME NEW w \in LooseWorld
    PROVE  /\ SameChannels(w, WindowCheckServers(w))
           /\ WaitingStaysOpen(w, WindowCheckServers(w))
<1> DEFINE r == WindowCheckServers(w)
<1>1. w.srv \in [Slots -> Server]
  BY DEF LooseWorld, World
<1>2. \A j \in Slots : r.srv[j] = IF HasWindow(w, j) THEN w.srv[j] ELSE Closed(w.srv[j])
  BY CheckParts
<1> HIDE DEF r
<1>3. ASSUME NEW j \in Slots
      PROVE  /\ r.srv[j].chans = w.srv[j].chans
             /\ r.srv[j].closePending = w.srv[j].closePending
             /\ w.srv[j].closePending => r.srv[j] = w.srv[j]
  BY <1>1, <1>2, ClosedKeeps
<1>4. QED
  BY <1>3 DEF SameChannels, WaitingStaysOpen, r

LEMMA CloseKeeps ==
    ASSUME NEW w \in SafeWorld, NEW i \in Slots
    PROVE  /\ SameChannels(w, CloseServer(w, i))
           /\ WaitingStaysOpen(w, CloseServer(w, i))
<1> DEFINE r == CloseServer(w, i)
<1>1. w \in World /\ w.srv \in [Slots -> Server] /\ w.srv[i] \in Server
  BY DEF SafeWorld, World
<1>2. /\ r.srv[i] = Closed(w.srv[i])
      /\ \A j \in Slots : j # i => r.srv[j] = w.srv[j]
  BY <1>1 DEF CloseServer, World
<1> HIDE DEF r
<1>3. ASSUME NEW j \in Slots
      PROVE  /\ r.srv[j].chans = w.srv[j].chans
             /\ r.srv[j].closePending = w.srv[j].closePending
             /\ w.srv[j].closePending => r.srv[j] = w.srv[j]
  BY <1>1, <1>2, ClosedKeeps
<1>4. QED
  BY <1>3 DEF SameChannels, WaitingStaysOpen, r

\* Fields of the entries that a new attempt and a move of the windows leave alone.
LEMMA DialledKeeps ==
    ASSUME NEW w \in SafeWorld, NEW i \in Slots, NEW c \in Index,
           NEW o \in {"pending", "up"}
    PROVE  LET r == Dialled(w, i, c, o)
           IN  \A j \in Slots : /\ r.srv[j].chans = w.srv[j].chans
                                /\ j # c => r.srv[j].closePending = w.srv[j].closePending
<1> DEFINE s == [Hung(w.srv[i]) EXCEPT
                    !.sock = o, !.loggedIn = FALSE,
                    !.addrs = o = "pending" /\ ~w.srv[i].addrs,
                    !.closeServ = IF c = i THEN -1 ELSE c]
           new == [w EXCEPT !.srv[i] = s]
           r == Dialled(w, i, c, o)
<1>1. /\ w \in World /\ w.srv[i] \in Server /\ w.srv \in [Slots -> Server]
      /\ Hung(w.srv[i]) \in Server
  BY HungSafe DEF SafeWorld, World, SafeServer
<1>2. s.chans = w.srv[i].chans /\ s.closePending = w.srv[i].closePending
  <2>1. /\ Hung(w.srv[i]).chans = w.srv[i].chans
        /\ Hung(w.srv[i]).closePending = w.srv[i].closePending
    BY <1>1 DEF Hung, Closed, Server
  <2>2. QED
    BY <1>1, <2>1 DEF Server
<1>3. r = IF c \in {-1, i} THEN new
          ELSE [new EXCEPT !.srv[c] =
                   [new.srv[c] EXCEPT !.closePending = TRUE, !.connected = FALSE]]
  BY <1>1 DEF Dialled, World
<1> HIDE DEF s
<1>4. new.srv = [w.srv EXCEPT ![i] = s]
  BY <1>1 DEF World
<1>5. CASE c \in {-1, i}
  BY <1>1, <1>2, <1>3, <1>4, <1>5
<1>6. CASE c \notin {-1, i}
  <2> DEFINE t == [new.srv[c] EXCEPT !.closePending = TRUE, !.connected = FALSE]
  <2>1. c \in Slots
    BY <1>6, MaxServersAssumption DEF Index, Slots
  <2>2. new.srv[c] = w.srv[c] /\ new.srv[c] \in Server
    BY <1>1, <1>4, <1>6, <2>1
  <2>3. t.chans = w.srv[c].chans
    <3> HIDE DEF new
    <3>1. QED
      BY <2>2 DEF Server
  <2>4. r = [new EXCEPT !.srv[c] = t]
    BY <1>3, <1>6
  <2> HIDE DEF t
  <2>5. r.srv = [w.srv EXCEPT ![i] = s, ![c] = t]
    BY <1>1, <1>4, <2>4 DEF World
  <2> HIDE DEF r, new
  <2>6. /\ r.srv[i] = s /\ r.srv[c] = t
        /\ \A j \in Slots : j \notin {i, c} => r.srv[j] = w.srv[j]
    BY <1>1, <1>6, <2>1, <2>5
  <2>7. QED
    BY <1>2, <2>3, <2>6 DEF r
<1>7. QED
  BY <1>5, <1>6

\* Moving the windows away from old takes no channel from an entry that waits.
LEMMA SetPrimaryKeeps ==
    ASSUME NEW w \in SafeWorld, NEW new \in Slots, ~w.srv[new].closePending,
           NEW transfer \in BOOLEAN
    PROVE  LET r == SetPrimary(w, new, transfer)
           IN  \A j \in Slots : r.srv[j].closePending =>
                  w.srv[j].closePending /\ r.srv[j].chans = w.srv[j].chans
<1> DEFINE old == w.primary
           x == [w EXCEPT !.primary = new]
           srv == MoveChannels(x, old, new, transfer)
           win == [v \in Windows |-> IF x.win[v] = old THEN new ELSE x.win[v]]
           y == [x EXCEPT !.srv = srv, !.win = win]
<1>1. CASE old = new
  BY <1>1 DEF SetPrimary
<1>2. CASE old # new
  <2>1. /\ x \in LooseWorld /\ x \in World /\ old \in Index
        /\ new \in Index /\ NoWindow \notin Index
    <3>1. new \in Index /\ NoWindow \notin Index
      BY MaxServersAssumption DEF Slots, Index, NoWindow
    <3>2. QED
      BY <3>1, SafeIsLoose DEF LooseWorld, World
  <2>2. x.srv = w.srv /\ x.win = w.win /\ w.srv \in [Slots -> Server]
    BY DEF SafeWorld, World
  <2>3. SetPrimary(w, new, transfer) = WindowCheckServers(y)
    BY <1>2 DEF SetPrimary, MoveWindows
  <2>4. ASSUME NEW j \in Slots
        PROVE  /\ srv[j].closePending = w.srv[j].closePending
               /\ w.srv[j].closePending => srv[j].chans = w.srv[j].chans
    <3>1. srv[j].closePending = w.srv[j].closePending
      <4> HIDE DEF x, old
      <4>1. /\ srv[j].sock = x.srv[j].sock /\ srv[j].closeServ = x.srv[j].closeServ
            /\ srv[j].closePending = x.srv[j].closePending
            /\ srv[j].loggedIn = x.srv[j].loggedIn
        BY <2>1, MoveChannelsApart
      <4>2. QED
        BY <2>2, <4>1
    <3>2. ASSUME w.srv[j].closePending PROVE srv[j].chans = w.srv[j].chans
      <4>1. j # new /\ x.srv[j].closePending /\ x.srv[j] \in Server
        BY <2>2, <3>2
      <4>2. srv[j] \in {x.srv[j], [x.srv[j] EXCEPT !.clearPending = TRUE]}
        BY <4>1 DEF MoveChannels
      <4> HIDE DEF srv
      <4>3. QED
        BY <2>2, <4>1, <4>2 DEF Server
    <3>3. QED
      BY <3>1, <3>2
  <2>5. win \in [Windows -> Index \cup {NoWindow}]
    BY <2>1, <2>2 DEF World
  <2>6. y \in LooseWorld /\ y.srv = srv
    <3> HIDE DEF x, win
    <3>1. y \in LooseWorld
      BY <2>1, <2>5, MoveChannelsLoose, Zenon
    <3> HIDE DEF srv
    <3>2. QED
      BY <2>1, <3>1 DEF World
  <2> HIDE DEF y, srv
  <2>7. SameChannels(y, WindowCheckServers(y))
    BY <2>6, CheckKeeps
  <2>8. QED
    BY <2>3, <2>4, <2>6, <2>7 DEF SameChannels
<1>3. QED
  BY <1>1, <1>2

\* A login that goes on, or that has no switch to decide, changes only its entry.
LEMMA LoginPlain ==
    ASSUME NEW w \in SafeWorld, NEW i \in Slots, NEW l \in {"wait", "ok"},
           l = "ok" => w.srv[i].closeServ = -1
    PROVE  LET r == LoginToServer(w, i, l)
           IN  SameChannels(w, r) /\ \A j \in Slots : r.srv[j].sock = w.srv[j].sock
<1> DEFINE r == LoginToServer(w, i, l)
<1>1. w \in World /\ w.srv \in [Slots -> Server] /\ w.srv[i] \in Server
  BY DEF SafeWorld, World
<1>2. ASSUME NEW s, r = [w EXCEPT !.srv[i] = s],
             s.sock = w.srv[i].sock, s.chans = w.srv[i].chans,
             s.closePending = w.srv[i].closePending
      PROVE  SameChannels(w, r) /\ \A j \in Slots : r.srv[j].sock = w.srv[j].sock
  <2>1. r.srv = [w.srv EXCEPT ![i] = s]
    BY <1>1, <1>2 DEF World
  <2> HIDE DEF r
  <2>2. QED
    BY <1>1, <1>2, <2>1 DEF SameChannels
<1>3. CASE l = "wait"
  <2> DEFINE s == [w.srv[i] EXCEPT !.tcpDone = TRUE]
  <2>1. r = [w EXCEPT !.srv[i] = s]
    BY <1>1, <1>3 DEF LoginToServer, World
  <2>2. /\ s.sock = w.srv[i].sock /\ s.chans = w.srv[i].chans
        /\ s.closePending = w.srv[i].closePending
    BY <1>1 DEF Server
  <2> HIDE DEF s, r
  <2>3. QED
    BY <1>2, <2>1, <2>2 DEF r
<1>4. CASE l = "ok"
  <2> DEFINE s == [w.srv[i] EXCEPT !.tcpDone = TRUE, !.loggedIn = TRUE,
                                   !.addrs = FALSE, !.closeServ = -1]
             in == [w EXCEPT !.srv[i] = [@ EXCEPT !.tcpDone = TRUE, !.loggedIn = TRUE]]
  <2>1. r = [w EXCEPT !.srv[i] = s]
    <3>1. r = FinishSwitch(in, i)
      BY <1>4 DEF LoginToServer
    <3>2. in.srv[i].closeServ = -1
      BY <1>1, <1>4 DEF World, Server
    <3>3. [in EXCEPT !.srv[i] = [@ EXCEPT !.addrs = FALSE, !.closeServ = -1]]
             = [w EXCEPT !.srv[i] = s]
      BY <1>1 DEF World, Server
    <3> HIDE DEF in, r, s
    <3>4. QED
      BY <3>1, <3>2, <3>3 DEF FinishSwitch
  <2>2. /\ s.sock = w.srv[i].sock /\ s.chans = w.srv[i].chans
        /\ s.closePending = w.srv[i].closePending
    BY <1>1 DEF Server
  <2> HIDE DEF s, r
  <2>3. QED
    BY <1>2, <2>1, <2>2 DEF r
<1>5. QED
  BY <1>3, <1>4

\* However a login ends, the switch is over or nothing is lost; the old connection
\* is closed only if the login succeeds.
LEMMA LoginKeeps ==
    ASSUME NEW w \in SafeWorld, NEW i \in Entries(w), NEW l \in LoginAnswers,
           OneSwitch(w), ~w.srv[i].loggedIn
    PROVE  LET r == LoginToServer(w, i, l)
           IN  /\ Still(r) \/ SameChannels(w, r)
               /\ \A j \in Slots :
                     /\ w.srv[j].closePending /\ Open(w.srv[j])
                     /\ l = "ok" => w.srv[i].closeServ # j
                     => Open(r.srv[j])
<1> DEFINE r == LoginToServer(w, i, l)
           old == w.srv[i].closeServ
<1>1. i \in Slots /\ (old \in Slots \/ old = -1)
  BY MaxServersAssumption DEF Entries, SafeWorld, World, Server, Index, Slots
<1>2. CASE l = "wait" \/ (l = "ok" /\ old = -1)
  <2>1. SameChannels(w, r) /\ \A j \in Slots : r.srv[j].sock = w.srv[j].sock
    BY <1>1, <1>2, LoginPlain
  <2> HIDE DEF r
  <2>2. QED
    BY <2>1 DEF Open, r
<1>3. ASSUME old # -1
      PROVE  /\ i = w.primary /\ Held(w, i) /\ old # i
             /\ \A j \in Slots : w.srv[j].closePending => old = j
  <2>1. i = w.primary
    BY <1>1, <1>3 DEF OneSwitch, Held
  <2>2. Held(w, i)
    BY <2>1 DEF OneSwitch
  <2>3. QED
    BY <1>1, <2>1, <2>2, HeldApart
<1>4. CASE l = "ok" /\ old # -1
  <2>1. Still(r)
    BY <1>1, <1>3, <1>4, LoggedInStill
  <2> HIDE DEF r
  <2>2. QED
    BY <1>3, <1>4, <2>1 DEF r
<1>5. CASE l = "fail"
  <2> DEFINE failed == CloseServer(w, i)
  <2>1. r = IF old \notin {-1, i} THEN ReestablishCloseServer(failed, i, old) ELSE failed
    BY <1>5 DEF LoginToServer
  <2>2. SameChannels(w, failed) /\ WaitingStaysOpen(w, failed) /\ failed \in SafeWorld
    BY <1>1, CloseKeeps, CloseServerSafe
  <2>3. CASE old = -1
    <3>1. r = failed
      BY <2>1, <2>3
    <3> HIDE DEF failed, r
    <3>2. QED
      BY <2>2, <3>1 DEF WaitingStaysOpen, r
  <2>4. CASE old # -1
    <3>1. w.asked = -1 /\ Together(w, i)
      BY <1>3, <2>4 DEF OneSwitch
    <3>2. \A j \in Slots : Open(w.srv[j]) => j = i \/ j = old
      BY <1>3, <2>4 DEF OneSwitch
    <3>3. Failed(failed, i, old, i)
      BY <1>3, <2>4, <3>1, <3>2, LoginFailed
    <3>4. r = ReestablishCloseServer(failed, i, old)
      BY <1>3, <2>1, <2>4
    <3> HIDE DEF failed, old, r
    <3>5. Still(r) /\ (Open(failed.srv[old]) => Open(r.srv[old]))
      BY <1>1, <2>2, <2>4, <3>3, <3>4, ReestablishOne
    <3>6. \A j \in Slots : w.srv[j].closePending /\ Open(w.srv[j]) => Open(r.srv[j])
      BY <1>3, <2>2, <2>4, <3>5 DEF WaitingStaysOpen
    <3>7. QED
      BY <3>5, <3>6 DEF r
  <2>5. QED
    BY <2>3, <2>4
<1>6. QED
  BY <1>1, <1>2, <1>4, <1>5 DEF LoginAnswers

\* A switch that begins makes nobody wait but the primary server, whose channels
\* it leaves in place.
LEMMA ConnectKeeps ==
    ASSUME NEW w \in SafeWorld, NEW i \in Entries(w), NEW o \in ConnectOutcomes,
           NEW l \in LoginAnswers, OneSwitch(w), Still(w), Connects(w, i, o)
    PROVE  OnlyPrimaryWaits(w, ConnectToServer(w, i, w.primary, o, l))
<1> DEFINE c == w.primary
           r == ConnectToServer(w, i, c, o, l)
           d == Dialled(w, i, c, o)
<1>1. /\ i \in Slots /\ c \in Index /\ w.srv[i] \in SafeServer
      /\ \A j \in Slots : ~w.srv[j].closePending
  BY DEF Entries, SafeWorld, World, Still
<1>2. CASE IsConnected(w.srv[i])
  <2>1. Open(w.srv[i])
    BY <1>1, <1>2 DEF SafeServer
  <2>2. c = i
    BY <1>1, <2>1 DEF OneSwitch
  <2>3. r = w
    BY <1>2, <2>2 DEF ConnectToServer
  <2>4. QED
    BY <1>1, <2>3 DEF OnlyPrimaryWaits
<1>3. CASE ~IsConnected(w.srv[i])
  <2>1. o \in {"pending", "up"}
    BY <1>3 DEF Connects, ConnectOutcomes
  <2>2. \A j \in Slots : /\ d.srv[j].chans = w.srv[j].chans
                         /\ j # c => d.srv[j].closePending = w.srv[j].closePending
    BY <1>1, <2>1, DialledKeeps
  <2>3. d \in SafeWorld
    BY <1>1, <2>1, DialledSafe
  <2>4. /\ Ready(d, i) /\ d.primary = c /\ ~d.srv[i].loggedIn
        /\ d.srv[i].closeServ = IF c = i THEN -1 ELSE c
        /\ \A j \in Slots : Open(d.srv[j]) => j = i \/ j = c
    BY <2>1, DialledReady
  <2> DEFINE a == Answered(w.srv[i], l)
             u == LoginToServer(d, i, a)
  <2>5. r = IF o = "up" THEN u ELSE d
    BY <1>3, <2>1 DEF ConnectToServer
  <2>6. a \in LoginAnswers
    BY AnsweredIsAnswer
  <2> HIDE DEF d, r, a
  <2>7. Still(u) \/ SameChannels(d, u)
    <3> DEFINE failed == CloseServer(d, i)
               old == d.srv[i].closeServ
    <3>1. Held(d, i) /\ i \in Entries(d) /\ d.asked = -1 /\ Together(d, c)
      BY <2>4 DEF Ready
    <3>2. CASE a = "wait"
      BY <1>1, <2>3, <3>2, LoginPlain
    <3>3. CASE a = "ok"
      BY <1>1, <2>3, <3>1, <3>3, LoggedInStill
    <3>4. CASE a = "fail"
      <4>1. u = IF old \notin {-1, i} THEN ReestablishCloseServer(failed, i, old) ELSE failed
        BY <2>4, <3>4 DEF LoginToServer
      <4>2. SameChannels(d, failed) /\ failed \in SafeWorld
        BY <1>1, <2>3, CloseKeeps, CloseServerSafe
      <4>3. old # i /\ (old \in Slots \/ old = -1)
        BY <1>1, <2>3, <3>1, HeldApart
      <4>4. CASE old = -1
        BY <4>1, <4>2, <4>4
      <4>5. CASE old # -1
        <5>1. old = c
          BY <2>4, <4>5
        <5>2. Failed(failed, i, old, c)
          BY <2>3, <2>4, <3>1, <4>5, <5>1, LoginFailed
        <5>3. u = ReestablishCloseServer(failed, i, old)
          BY <4>1, <4>3, <4>5
        <5> HIDE DEF failed, old, u
        <5>4. Still(u)
          BY <1>1, <4>2, <4>3, <4>5, <5>2, <5>3, ReestablishOne
        <5>5. QED
          BY <5>4
      <4>6. QED
        BY <4>4, <4>5
    <3>5. QED
      BY <2>6, <3>2, <3>3, <3>4 DEF LoginAnswers
  <2> HIDE DEF u
  <2>8. ASSUME NEW j \in Slots, r.srv[j].closePending
        PROVE  j = c /\ r.srv[j].chans = w.srv[j].chans
    BY <1>1, <2>2, <2>5, <2>7, <2>8 DEF SameChannels, Still
  <2>9. QED
    BY <2>8 DEF OnlyPrimaryWaits, r, c
<1>4. QED
  BY <1>2, <1>3

LEMMA LoginFailsQuietly ==
    ASSUME NEW w \in SafeWorld, NEW i \in Entries(w), OneSwitch(w), ~w.srv[i].loggedIn
    PROVE  ~LoginToServer(w, i, "fail").srv[i].loggedIn
<1> DEFINE old == w.srv[i].closeServ
           failed == CloseServer(w, i)
           r == LoginToServer(w, i, "fail")
<1>1. i \in Slots /\ (old \in Slots \/ old = -1) /\ w \in World /\ w.srv[i] \in Server
  BY MaxServersAssumption DEF Entries, SafeWorld, World, Server, Index, Slots
<1>2. failed \in SafeWorld
  BY <1>1, CloseServerSafe
<1>3. ~failed.srv[i].loggedIn
  <2>1. failed.srv[i] = Closed(w.srv[i])
    BY <1>1 DEF CloseServer, World
  <2> HIDE DEF failed
  <2>2. QED
    BY <1>1, <2>1 DEF Closed, Server
<1>4. r = IF old \notin {-1, i} THEN ReestablishCloseServer(failed, i, old) ELSE failed
  BY DEF LoginToServer
<1>5. ASSUME old \notin {-1, i} PROVE ~ReestablishCloseServer(failed, i, old).srv[i].loggedIn
  <2>1. i = w.primary
    BY <1>1, <1>5 DEF OneSwitch, Held
  <2>2. Held(w, i) /\ w.asked = -1 /\ Together(w, i)
    BY <2>1 DEF OneSwitch
  <2>3. \A j \in Slots : w.srv[j].closePending => old = j
    BY <1>1, <2>2, HeldApart
  <2>4. \A j \in Slots : Open(w.srv[j]) => j = i \/ j = old
    BY <2>1, <2>3 DEF OneSwitch
  <2>5. Failed(failed, i, old, i)
    BY <1>5, <2>1, <2>2, <2>4, LoginFailed
  <2> HIDE DEF failed, old
  <2>6. QED
    BY <1>1, <1>2, <1>3, <1>5, <2>5, ReestablishOne
<1> HIDE DEF failed, old, r
<1>6. QED
  BY <1>3, <1>4, <1>5 DEF r

\* get_connected() makes nobody wait but the primary server.
LEMMA GetConnectedKeeps ==
    ASSUME NEW w \in SafeWorld, NEW s \in Int,
           NEW os \in [Slots -> ConnectOutcomes], NEW l \in LoginAnswers,
           OneSwitch(w), Still(w)
    PROVE  OnlyPrimaryWaits(w, GetConnected(w, s, os, l))
<1> DEFINE r == GetConnected(w, s, os, l)
<1>1. PICK left \in SafeWorld :
         /\ OneSwitch(left) /\ Still(left) /\ left.primary = w.primary
         /\ SameChannels(w, left)
         /\ GotNothing(left, r) \/ GotConnected(left, r, l)
  BY GetConnectedEnds
<1> HIDE DEF r
<1>2. Entries(left) \subseteq Slots /\ left.primary \in Index
  BY DEF Entries, SafeWorld, World
<1>3. ASSUME GotNothing(left, r) PROVE OnlyPrimaryWaits(w, r)
  <2>1. Still(r)
    <3>1. CASE r = left
      BY <1>1, <3>1
    <3>2. CASE \E to \in Entries(left) : r = [left EXCEPT !.srv[to] = Hung(@)]
      <4>1. PICK to \in Entries(left) : r = [left EXCEPT !.srv[to] = Hung(@)]
        BY <3>2
      <4>2. Still([left EXCEPT !.srv[to] = Hung(@)])
        BY <1>1, <1>2, HungOne
      <4>3. QED
        BY <4>1, <4>2
    <3>3. QED
      BY <1>3, <3>1, <3>2 DEF GotNothing
  <2>2. QED
    BY <2>1 DEF Still, OnlyPrimaryWaits
<1>4. ASSUME GotConnected(left, r, l) PROVE OnlyPrimaryWaits(w, r)
  <2>1. PICK to \in Entries(left), o \in ConnectOutcomes, transfer \in BOOLEAN :
           /\ Connects(left, to, o)
           /\ r = SetPrimary(ConnectToServer(left, to, left.primary, o, l), to, transfer)
    BY <1>4 DEF GotConnected
  <2> DEFINE c == ConnectToServer(left, to, left.primary, o, l)
  <2>2. /\ Ready(c, to) /\ c \in SafeWorld /\ to \in Slots
        /\ OnlyPrimaryWaits(left, c)
    BY <1>1, <1>2, <2>1, ConnectReady, ConnectSafe, ConnectKeeps
  <2>3. r = SetPrimary(c, to, transfer)
    BY <2>1
  <2> HIDE DEF c
  <2>4. ~c.srv[to].closePending
    BY <2>2, HeldApart DEF Ready
  <2>5. \A j \in Slots : r.srv[j].closePending =>
           c.srv[j].closePending /\ r.srv[j].chans = c.srv[j].chans
    BY <2>2, <2>3, <2>4, SetPrimaryKeeps
  <2>6. QED
    BY <1>1, <2>2, <2>5 DEF OnlyPrimaryWaits, SameChannels
<1>5. QED
  BY <1>1, <1>3, <1>4 DEF r

LEMMA GroupGetConnectedNextKeeps ==
    ASSUME NEW w \in SafeWorld, NEW i \in Slots,
           NEW os \in [Slots -> ConnectOutcomes], NEW l \in LoginAnswers,
           OneSwitch(w), Still(w)
    PROVE  OnlyPrimaryWaits(w, GroupGetConnectedNext(w, i, os, l))
<1>1. \/ GroupGetConnectedNext(w, i, os, l) = w
      \/ \E s \in Int : GroupGetConnectedNext(w, i, os, l) = GetConnected(w, s, os, l)
  BY GroupGetConnectedNextTries
<1>2. OnlyPrimaryWaits(w, w)
  BY DEF Still, OnlyPrimaryWaits
<1>3. QED
  BY <1>1, <1>2, GetConnectedKeeps

LEMMA MarkEofKeeps ==
    ASSUME NEW w \in SafeWorld, NEW i \in Slots
    PROVE  LET r == [w EXCEPT !.srv[i].eof = TRUE]
           IN  /\ SameChannels(w, r) /\ (Still(w) => Still(r))
               /\ \A j \in Slots : Open(r.srv[j]) <=> Open(w.srv[j])
<1> DEFINE r == [w EXCEPT !.srv[i].eof = TRUE]
<1>1. \A j \in Slots : /\ r.srv[j].sock = w.srv[j].sock
                       /\ r.srv[j].closeServ = w.srv[j].closeServ
                       /\ r.srv[j].closePending = w.srv[j].closePending
                       /\ r.srv[j].chans = w.srv[j].chans
  BY MarkEofParts
<1> HIDE DEF r
<1>2. QED
  BY <1>1 DEF SameChannels, Still, Open, r

LEMMA PrimaryLostKeeps ==
    ASSUME NEW w \in SafeWorld, NEW i \in Slots,
           NEW os \in [Slots -> ConnectOutcomes], NEW l \in LoginAnswers,
           OneSwitch(w), Still(w)
    PROVE  OnlyPrimaryWaits(w, PrimaryLost(w, i, os, l))
<1>1. OnlyPrimaryWaits(w, [WindowCheckServers(w) EXCEPT !.times = 0])
  <2> DEFINE c == WindowCheckServers(w)
  <2>1. c \in SafeWorld /\ OneSwitch(c) /\ Still(c)
    BY CheckKeepsOne, CheckKeepsSafe
  <2> HIDE DEF c
  <2>2. Still([c EXCEPT !.times = 0])
    BY <2>1, TimesOne
  <2>3. QED
    BY <2>2 DEF Still, OnlyPrimaryWaits, c
<1>2. OnlyPrimaryWaits(w, GroupGetConnectedNext(w, i, os, l))
  BY GroupGetConnectedNextKeeps
<1>3. ASSUME ~(w.times > 1)
      PROVE  OnlyPrimaryWaits(w, GetConnected([w EXCEPT !.times = @ + 1], i, os, l))
  <2>1. w.times + 1 \in 0 .. 2
    BY <1>3 DEF SafeWorld, World
  <2> DEFINE k == w.times + 1
             x == [w EXCEPT !.times = k]
  <2>2. [w EXCEPT !.times = @ + 1] = x /\ x.srv = w.srv /\ x.primary = w.primary
    BY DEF SafeWorld, World
  <2> HIDE DEF k
  <2>3. x \in SafeWorld /\ OneSwitch(x) /\ Still(x)
    BY <2>1, TimesSafe, TimesOne DEF k
  <2>4. i \in Int
    BY DEF Slots
  <2> HIDE DEF x
  <2>5. OnlyPrimaryWaits(x, GetConnected(x, i, os, l))
    BY <2>3, <2>4, GetConnectedKeeps
  <2>6. QED
    BY <2>2, <2>5 DEF OnlyPrimaryWaits
<1>4. QED
  BY <1>1, <1>2, <1>3 DEF PrimaryLost

\* The server that waits to be closed is dialled again: it stays open.
LEMMA RedialKeeps ==
    ASSUME NEW w \in SafeWorld, NEW i \in Entries(w), NEW o \in ConnectOutcomes,
           NEW l \in LoginAnswers,
           OneSwitch(w), w.srv[i].closePending, w.srv[i].closeServ = -1,
           Open(w.srv[i])
    PROVE  LET r == Redial(w, i, o, l)
           IN  (Still(r) \/ SameChannels(w, r)) /\ Open(r.srv[i])
<1> DEFINE c == -1
           r == ConnectToServer(w, i, c, o, l)
           d == Dialled(w, i, c, o)
<1>1. i \in Slots /\ w \in World /\ w.srv[i] \in Server /\ c \in Index /\ i # -1
  BY MaxServersAssumption DEF Entries, SafeWorld, World, Slots, Index
<1>2. r \in SafeWorld
  BY <1>1, ConnectSafe
<1>3. CASE IsConnected(w.srv[i])
  <2>1. Redial(w, i, o, l) = w
    BY <1>3 DEF Redial, Connects, ConnectToServer
  <2>2. QED
    BY <2>1 DEF SameChannels
<1>4. CASE ~IsConnected(w.srv[i]) /\ o = "fail"
  <2> DEFINE h == [w EXCEPT !.srv[i] = Hung(w.srv[i])]
  <2>1. r = h
    BY <1>1, <1>4 DEF ConnectToServer, World
  <2>2. /\ h.srv[i] = Hung(w.srv[i])
        /\ \A j \in Slots : j # i => h.srv[j] = w.srv[j]
    BY <1>1, EntryReplaced
  <2>3. /\ Hung(w.srv[i]).chans = w.srv[i].chans
        /\ Hung(w.srv[i]).closePending = w.srv[i].closePending
        /\ Open(Hung(w.srv[i]))
    BY <1>1, HungFields, HungKeeps
  <2> HIDE DEF h
  <2>4. SameChannels(w, h) /\ h.srv[i].closePending /\ Open(h.srv[i])
    BY <1>1, <2>2, <2>3 DEF SameChannels
  <2>5. Redial(w, i, o, l) = WindowCheckServers(h)
    BY <1>4, <2>1 DEF Redial, Connects
  <2>6. h \in LooseWorld
    BY <1>2, <2>1, SafeIsLoose
  <2>7. SameChannels(h, WindowCheckServers(h)) /\ WaitingStaysOpen(h, WindowCheckServers(h))
    BY <2>6, CheckKeeps
  <2>8. QED
    BY <1>1, <2>4, <2>5, <2>7 DEF SameChannels, WaitingStaysOpen
<1>5. CASE ~IsConnected(w.srv[i]) /\ o # "fail"
  <2>1. o \in {"pending", "up"}
    BY <1>5 DEF ConnectOutcomes
  <2>2. d \in SafeWorld
    BY <1>1, <2>1, DialledSafe
  <2>3. OneSwitch(d) /\ d.n = w.n /\ Open(d.srv[i]) /\ ~d.srv[i].loggedIn
    BY <1>1, <2>1, RedialledOne
  <2>4. d.srv[i].closeServ = -1 /\ d.srv[i].closePending
    BY <1>1, <2>1, RedialledParts
  <2>5. SameChannels(w, d)
    <3>1. \A j \in Slots : j # -1
      BY DEF Slots
    <3>2. \A j \in Slots : /\ d.srv[j].chans = w.srv[j].chans
                           /\ j # c => d.srv[j].closePending = w.srv[j].closePending
      BY <1>1, <2>1, DialledKeeps
    <3> HIDE DEF d
    <3>3. QED
      BY <3>1, <3>2 DEF SameChannels
  <2> DEFINE a == Answered(w.srv[i], l)
             u == LoginToServer(d, i, a)
  <2>6. Redial(w, i, o, l) = IF o = "up" THEN u ELSE d
    BY <1>5 DEF Redial, Connects, ConnectToServer
  <2>7. a \in LoginAnswers
    BY AnsweredIsAnswer
  <2> HIDE DEF d, r, a
  <2>8. i \in Entries(d)
    BY <2>3 DEF Entries
  <2>9. (Still(u) \/ SameChannels(d, u)) /\ Open(u.srv[i])
    BY <1>1, <2>2, <2>3, <2>4, <2>7, <2>8, LoginKeeps
  <2> HIDE DEF u
  <2>10. QED
    BY <2>3, <2>5, <2>6, <2>9 DEF SameChannels
<1>6. QED
  BY <1>3, <1>4, <1>5

LEMMA ServerEofKeeps ==
    ASSUME NEW w \in SafeWorld, NEW i \in Entries(w),
           NEW os \in [Slots -> ConnectOutcomes], NEW l \in LoginAnswers,
           OneSwitch(w), w.srv[i].loggedIn, Open(w.srv[i])
    PROVE  LET r == ServerEof(w, i, os, l)
           IN  /\ i = w.primary => OnlyPrimaryWaits(w, r)
               /\ i # w.primary => (Still(r) \/ SameChannels(w, r)) /\ Open(r.srv[i])
<1> DEFINE shut == CloseServer(w, i)
           x == IF i = w.primary THEN PrimaryLost(shut, i, os, l)
                ELSE IF shut.srv[i].eof THEN WindowCheckServers(shut)
                ELSE Redial(shut, i, os[i], l)
           r == ServerEof(w, i, os, l)
<1>1. /\ i \in Slots /\ w \in World /\ w.srv[i] \in Server /\ os[i] \in ConnectOutcomes
  BY DEF Entries, SafeWorld, World
<1>2. w.srv[i].closeServ = -1
  BY <1>1, NotHolding
<1>3. shut \in SafeWorld /\ OneSwitch(shut) /\ (Still(w) => Still(shut))
  BY <1>1, <1>2, CloseServerSafe, CloseOne
<1>4. SameChannels(w, shut) /\ WaitingStaysOpen(w, shut)
  BY <1>1, CloseKeeps
<1>5. r = [x EXCEPT !.srv[i].eof = TRUE]
  BY <1>2 DEF ServerEof
<1>6. CASE i = w.primary
  <2>1. Still(shut) /\ shut.primary = w.primary
    BY <1>1, <1>2, <1>3, <1>6, PrimaryStill DEF CloseServer, World
  <2> HIDE DEF shut
  <2>2. x = PrimaryLost(shut, i, os, l)
    BY <1>6
  <2>3. OnlyPrimaryWaits(shut, x) /\ x \in SafeWorld
    BY <1>1, <1>3, <2>1, <2>2, PrimaryLostKeeps, PrimaryLostSafe
  <2> HIDE DEF x
  <2>4. SameChannels(x, [x EXCEPT !.srv[i].eof = TRUE])
    BY <1>1, <2>3, MarkEofKeeps
  <2> HIDE DEF r
  <2>5. OnlyPrimaryWaits(w, r)
    BY <1>4, <1>5, <2>1, <2>3, <2>4 DEF OnlyPrimaryWaits, SameChannels
  <2>6. QED
    BY <1>6, <2>5 DEF r
<1>7. CASE i # w.primary
  <2>1. w.srv[i].closePending
    BY <1>1, <1>7 DEF OneSwitch
  <2>2. shut = w
    <3>1. Closed(w.srv[i]) = w.srv[i]
      BY <2>1 DEF Closed
    <3>2. QED
      BY <1>1, <3>1 DEF CloseServer, World
  <2> HIDE DEF shut
  <2>3. x = IF w.srv[i].eof THEN WindowCheckServers(w) ELSE Redial(w, i, os[i], l)
    BY <1>7, <2>2
  <2>4. /\ SameChannels(w, WindowCheckServers(w)) /\ WaitingStaysOpen(w, WindowCheckServers(w))
        /\ WindowCheckServers(w) \in SafeWorld
    BY SafeIsLoose, CheckKeeps, CheckKeepsSafe
  <2>5. /\ Still(Redial(w, i, os[i], l)) \/ SameChannels(w, Redial(w, i, os[i], l))
        /\ Open(Redial(w, i, os[i], l).srv[i]) /\ Redial(w, i, os[i], l) \in SafeWorld
    BY <1>1, <1>2, <2>1, RedialKeeps, RedialSafe
  <2>6. (Still(x) \/ SameChannels(w, x)) /\ Open(x.srv[i]) /\ x \in SafeWorld
    BY <1>1, <2>1, <2>3, <2>4, <2>5 DEF WaitingStaysOpen
  <2> HIDE DEF x
  <2> DEFINE y == [x EXCEPT !.srv[i].eof = TRUE]
  <2>7. /\ SameChannels(x, y) /\ (Still(x) => Still(y))
        /\ \A j \in Slots : Open(y.srv[j]) <=> Open(x.srv[j])
    BY <1>1, <2>6, MarkEofKeeps
  <2> HIDE DEF y
  <2>8. (Still(y) \/ SameChannels(w, y)) /\ Open(y.srv[i])
    BY <1>1, <2>6, <2>7 DEF SameChannels
  <2>9. QED
    BY <1>5, <1>7, <2>8 DEF y
<1>8. QED
  BY <1>6, <1>7

-----------------------------------------------------------------------------
(* The steps: what each keeps of the old connection.                       *)

\* Entry j waits to be closed, and what is to replace it has no answer yet.
Waiting(j) ==
    LET p == world.primary
    IN  /\ world.srv[j].closePending /\ Open(world.srv[j])
        /\ p \in Slots /\ world.srv[p].closeServ = j
        /\ world.srv[p].ssl /\ world.srv[p].sock # "up"

ChannelsStay(w, r) ==
    \A j \in Entries(w) : Open(w.srv[j]) /\ r.srv[j].closePending
                          => w.srv[j].chans \subseteq r.srv[j].chans

StepKeeps ==
    /\ ChannelsStay(world, world')
    /\ \A j \in Slots : Waiting(j) => Open(world'.srv[j])

LEMMA ChannelsStayIf ==
    ASSUME NEW w, NEW r, Still(r) \/ SameChannels(w, r) \/ OnlyPrimaryWaits(w, r)
    PROVE  ChannelsStay(w, r)
<1>1. Entries(w) \subseteq Slots
  BY DEF Entries
<1>2. QED
  BY <1>1 DEF ChannelsStay, Still, SameChannels, OnlyPrimaryWaits

LEMMA WaitingParts ==
    ASSUME Safe, One, NEW j \in Slots, Waiting(j)
    PROVE  LET p == world.primary
           IN  /\ j # p /\ p # -1 /\ ~world.srv[p].loggedIn /\ Open(world.srv[p])
               /\ world.srv[p].sock \in {"pending", "dead"}
               /\ j \in Entries(world) /\ world.srv[j].closeServ = -1
               /\ \A k \in Slots : world.srv[k].closePending => k = j
               /\ \A k \in Slots : Open(world.srv[k]) => k \in {p, j}
               /\ Held(world, p) /\ Together(world, p) /\ world.asked = -1
<1> DEFINE p == world.primary
<1>1. /\ world \in SafeWorld /\ p \in Slots /\ world.srv[p].closeServ = j
      /\ world.srv[p].sock # "up" /\ world.srv[p] \in Server
      /\ world.srv[j].closePending /\ p # -1 /\ j # -1
  <2>1. p \in Slots /\ world.srv[p].closeServ = j /\ world.srv[p].sock # "up"
    BY Zenon DEF Waiting
  <2>2. world \in SafeWorld /\ world.srv \in [Slots -> Server]
    BY DEF Safe, SafeWorld, World
  <2>3. world.srv[j].closePending
    BY Zenon DEF Waiting
  <2>4. p # -1 /\ j # -1
    BY <2>1 DEF Slots
  <2> HIDE DEF p
  <2>5. QED
    BY <2>1, <2>2, <2>3, <2>4
<1>2. Held(world, p) /\ Together(world, p) /\ world.asked = -1
  BY DEF One, OneSwitch
<1>3. /\ world.srv[p].closeServ # p
      /\ \A k \in Slots : k # p => world.srv[k].closeServ = -1
      /\ \A k \in Slots : world.srv[k].closePending => world.srv[p].closeServ = k
  BY <1>1, <1>2, HeldApart
<1>4. Open(world.srv[p]) /\ ~world.srv[p].loggedIn /\ j \in Entries(world)
  BY <1>1, <1>2 DEF Held
<1>5. world.srv[p].sock \in {"pending", "dead"}
  BY <1>1, <1>4 DEF Server, Open
<1>6. \A k \in Slots : Open(world.srv[k]) => k \in {p, j}
  BY <1>1, <1>3 DEF One, OneSwitch
<1>7. QED
  BY <1>1, <1>2, <1>3, <1>4, <1>5, <1>6

LEMMA NetworkKeeps ==
    ASSUME Safe, One, NEW i \in Slots, NetAccept(i) \/ NetFail(i)
    PROVE  StepKeeps
<1>1. world.srv[i] \in Server /\ world \in World /\ world \in SafeWorld
  BY DEF Safe, SafeWorld, World
<1>2. ASSUME NEW k \in {"up", "dead"}, world' = [world EXCEPT !.srv[i].sock = k],
             Open(world.srv[i])
      PROVE  StepKeeps
  <2> DEFINE s == [world.srv[i] EXCEPT !.sock = k]
             r == [world EXCEPT !.srv[i] = s]
  <2>1. /\ Open(s) /\ s.chans = world.srv[i].chans
        /\ s.closePending = world.srv[i].closePending
    BY <1>1 DEF Server, Open
  <2>2. world' = r
    BY <1>1, <1>2 DEF World, Server
  <2> HIDE DEF s
  <2>3. r.srv[i] = s /\ \A j \in Slots : j # i => r.srv[j] = world.srv[j]
    BY <1>1, EntryReplaced
  <2> HIDE DEF r
  <2>4. SameChannels(world, r) /\ \A j \in Slots : Open(world.srv[j]) => Open(r.srv[j])
    BY <2>1, <2>3 DEF SameChannels
  <2>5. QED
    BY <2>2, <2>4, ChannelsStayIf DEF StepKeeps, Waiting
<1>3. QED
  BY <1>2 DEF NetAccept, NetFail, Open

LEMMA DoServerAcceptedKeeps ==
    ASSUME Safe, One, NEW i \in Entries(world), DoServerAccepted(i) \/ DoServerHandshake(i)
    PROVE  StepKeeps
<1>1. PICK l \in LoginOutcomes(world.srv[i]) : world' = LoginToServer(world, i, l)
  BY DEF DoServerAccepted, DoServerHandshake
<1>2. /\ ~world.srv[i].loggedIn /\ world.srv[i].sock = "up"
      /\ world \in SafeWorld /\ OneSwitch(world) /\ l \in LoginAnswers
  BY AnswersSafe DEF DoServerAccepted, DoServerHandshake, Handshaking, Safe, One
<1> DEFINE r == LoginToServer(world, i, l)
<1>3. /\ Still(r) \/ SameChannels(world, r)
      /\ \A j \in Slots : /\ world.srv[j].closePending /\ Open(world.srv[j])
                          /\ l = "ok" => world.srv[i].closeServ # j
                          => Open(r.srv[j])
  BY <1>2, LoginKeeps
<1>4. world' = r
  BY <1>1
<1> HIDE DEF r
<1>5. ASSUME NEW j \in Slots, Waiting(j) PROVE Open(r.srv[j])
  <2>1. i # world.primary
    BY <1>2, <1>5 DEF Waiting
  <2>2. i \in Slots /\ j # -1
    BY DEF Entries, Slots
  <2>3. world.srv[i].closeServ # j
    BY <2>1, <2>2 DEF One, OneSwitch, Held
  <2>4. QED
    BY <1>3, <1>5, <2>3 DEF Waiting
<1>6. QED
  BY <1>3, <1>4, <1>5, ChannelsStayIf DEF StepKeeps

\* A connection that is lost before it is logged in is given to the handshake
\* first, which closes a server for SSL, or succeeds without reading for a plain
\* one: then the old connection is gone before EOF is seen.
LEMMA DoServerEofKeeps ==
    ASSUME Safe, One, NEW i \in Entries(world), DoServerEof(i)
    PROVE  StepKeeps
<1>1. PICK os \in [Slots -> ConnectOutcomes], l \in LoginAnswers,
           m \in LoginOutcomes(world.srv[i]) :
           LET in == IF world.srv[i].loggedIn THEN world
                                             ELSE LoginToServer(world, i, m)
           IN  world' = IF in.srv[i].loggedIn THEN ServerEof(in, i, os, l) ELSE in
  BY DEF DoServerEof, LoginAnswers, Answers, Dials
<1>2. /\ i \in Slots /\ Open(world.srv[i]) /\ world.srv[i].sock = "dead"
      /\ world \in SafeWorld /\ OneSwitch(world) /\ m \in LoginAnswers
      /\ m = IF world.srv[i].ssl THEN "fail" ELSE "ok"
  BY AnswersSafe DEF DoServerEof, Open, Entries, LoginOutcomes, Safe, One
<1>3. CASE world.srv[i].loggedIn
  <2> DEFINE r == ServerEof(world, i, os, l)
  <2>1. world' = r
    BY <1>1, <1>3
  <2>2. /\ i = world.primary => OnlyPrimaryWaits(world, r)
        /\ i # world.primary => (Still(r) \/ SameChannels(world, r)) /\ Open(r.srv[i])
    BY <1>2, <1>3, ServerEofKeeps
  <2> HIDE DEF r
  <2>3. ASSUME NEW j \in Slots, Waiting(j) PROVE Open(r.srv[j])
    BY <1>2, <1>3, <2>2, <2>3, WaitingParts
  <2>4. QED
    BY <2>1, <2>2, <2>3, ChannelsStayIf DEF StepKeeps
<1>4. CASE ~world.srv[i].loggedIn
  <2> DEFINE in == LoginToServer(world, i, m)
             r == ServerEof(in, i, os, l)
  <2>1. world' = IF in.srv[i].loggedIn THEN r ELSE in
    BY <1>1, <1>4
  <2>2. /\ Still(in) \/ SameChannels(world, in)
        /\ \A j \in Slots : /\ world.srv[j].closePending /\ Open(world.srv[j])
                            /\ m = "ok" => world.srv[i].closeServ # j
                            => Open(in.srv[j])
    BY <1>2, <1>4, LoginKeeps
  <2>3. in \in SafeWorld
    BY <1>2, LoginSafe
  <2>4. /\ OneSwitch(in) /\ Entries(in) = Entries(world)
        /\ in.srv[i].loggedIn => Open(in.srv[i])
    BY <1>2, <1>4, LoginOne
  <2>5. ASSUME in.srv[i].loggedIn PROVE m = "ok"
    BY <1>2, <1>4, <2>5, LoginFailsQuietly
  <2>6. ASSUME m = "ok"
        PROVE  in.primary = world.primary /\ in.srv[i].chans = world.srv[i].chans
    <3>1. world.srv[i].closeServ # i
      BY <1>2 DEF OneSwitch, Held, Slots
    <3>2. QED
      BY <1>2, <2>6, <3>1, LoggedInParts
  <2> HIDE DEF in
  <2>7. ASSUME in.srv[i].loggedIn
        PROVE  /\ i = in.primary => OnlyPrimaryWaits(in, r)
               /\ i # in.primary => (Still(r) \/ SameChannels(in, r)) /\ Open(r.srv[i])
    BY <2>3, <2>4, <2>7, ServerEofKeeps
  <2> HIDE DEF r
  <2>8. ChannelsStay(world, world')
    <3>1. CASE ~in.srv[i].loggedIn
      BY <2>1, <2>2, <3>1, ChannelsStayIf
    <3>2. CASE in.srv[i].loggedIn /\ i = in.primary
      <4>1. OnlyPrimaryWaits(world, r)
        BY <2>5, <2>6, <2>7, <3>2 DEF OnlyPrimaryWaits
      <4>2. QED
        BY <2>1, <3>2, <4>1, ChannelsStayIf
    <3>3. CASE in.srv[i].loggedIn /\ i # in.primary
      <4>1. Still(r) \/ SameChannels(world, r) \/ OnlyPrimaryWaits(world, r)
        BY <2>2, <2>7, <3>3 DEF SameChannels, Still, OnlyPrimaryWaits
      <4>2. QED
        BY <2>1, <3>3, <4>1, ChannelsStayIf
    <3>4. QED
      BY <3>1, <3>2, <3>3
  <2>9. ASSUME NEW j \in Slots, Waiting(j) PROVE Open(world'.srv[j])
    <3>1. /\ j # world.primary /\ i \in {world.primary, j} /\ j # -1
          /\ world.srv[j].closeServ = -1
          /\ world.srv[j].closePending /\ Open(world.srv[j])
          /\ world.srv[world.primary].ssl
      <4>1. j # world.primary /\ i \in {world.primary, j} /\ world.srv[j].closeServ = -1
        BY <1>2, <2>9, WaitingParts
      <4>2. QED
        BY <2>9, <4>1 DEF Waiting, Slots
    <3>2. CASE i = world.primary
      <4>1. m = "fail"
        BY <1>2, <3>1, <3>2
      <4>2. QED
        BY <2>1, <2>2, <2>5, <3>1, <4>1
    <3>3. CASE i = j
      <4>1. Open(in.srv[j])
        BY <2>2, <3>1, <3>3
      <4>2. ASSUME in.srv[i].loggedIn PROVE Open(r.srv[j])
        BY <2>5, <2>6, <2>7, <3>1, <3>3, <4>2
      <4>3. QED
        BY <2>1, <3>3, <4>1, <4>2
    <3>4. QED
      BY <3>1, <3>2, <3>3
  <2>10. QED
    BY <2>8, <2>9 DEF StepKeeps
<1>5. QED
  BY <1>3, <1>4

\* Becoming registered, and joining a channel.
LEMMA WelcomeKeeps ==
    ASSUME Safe, One, NEW i \in Slots, Welcome(i) \/ \E c \in Channels : JoinChannel(i, c)
    PROVE  StepKeeps
<1>1. world.srv[i] \in Server /\ world \in World /\ world \in SafeWorld
  BY DEF Safe, SafeWorld, World
<1>2. ASSUME NEW s, world' = [world EXCEPT !.srv[i] = s], s.sock = world.srv[i].sock,
             s.closePending = world.srv[i].closePending, world.srv[i].chans \subseteq s.chans
      PROVE  StepKeeps
  <2> DEFINE r == [world EXCEPT !.srv[i] = s]
  <2>1. r.srv[i] = s /\ \A j \in Slots : j # i => r.srv[j] = world.srv[j]
    BY <1>1, EntryReplaced
  <2>2. Entries(world) \subseteq Slots
    BY DEF Entries
  <2> HIDE DEF r
  <2>3. ChannelsStay(world, r) /\ \A j \in Slots : Open(world.srv[j]) => Open(r.srv[j])
    BY <1>2, <2>1, <2>2 DEF ChannelsStay, Open
  <2>4. QED
    BY <1>2, <2>3 DEF StepKeeps, Waiting, r
<1>3. CASE Welcome(i)
  <2> DEFINE s == [world.srv[i] EXCEPT !.connected = TRUE, !.eof = FALSE]
  <2>1. world' = [world EXCEPT !.srv[i] = s]
    BY <1>1, <1>3 DEF Welcome, World, Server
  <2>2. /\ s.sock = world.srv[i].sock /\ s.closePending = world.srv[i].closePending
        /\ s.chans = world.srv[i].chans
    BY <1>1 DEF Server
  <2> HIDE DEF s
  <2>3. QED
    BY <1>2, <2>1, <2>2
<1>4. ASSUME NEW c \in Channels, JoinChannel(i, c) PROVE StepKeeps
  <2> DEFINE s == [world.srv[i] EXCEPT !.chans = @ \cup {c}]
  <2>1. world' = [world EXCEPT !.srv[i] = s]
    BY <1>1, <1>4 DEF JoinChannel, World, Server
  <2>2. /\ s.sock = world.srv[i].sock /\ s.closePending = world.srv[i].closePending
        /\ s.chans = world.srv[i].chans \cup {c}
    BY <1>1 DEF Server
  <2> HIDE DEF s
  <2>3. QED
    BY <1>2, <2>1, <2>2
<1>5. QED
  BY <1>3, <1>4

LEMMA ClosedByKeeps ==
    ASSUME Safe, One, NEW i \in Slots, Killed(i) \/ NoPermission(i)
    PROVE  StepKeeps
<1> DEFINE shut == CloseServer(world, i)
           w == WindowCheckServers(shut)
<1>1. /\ shut \in SafeWorld /\ OneSwitch(shut) /\ world \in SafeWorld
      /\ SameChannels(world, shut) /\ WaitingStaysOpen(world, shut)
      /\ shut.primary = world.primary
  <2>1. world.srv[i].closeServ = -1
    BY NotHolding DEF Killed, NoPermission, Talking, Safe, One
  <2>2. shut.primary = world.primary
    BY DEF CloseServer, Safe, SafeWorld, World
  <2>3. QED
    BY <2>1, <2>2, CloseServerSafe, CloseOne, CloseKeeps DEF Safe, One
<1> HIDE DEF shut
<1>2. /\ w \in SafeWorld /\ OneSwitch(w) /\ (~w.alive => Still(w))
      /\ SameChannels(shut, w) /\ WaitingStaysOpen(shut, w)
  BY <1>1, SafeIsLoose, CheckKeepsSafe, CheckKeepsOne, CheckKeeps
<1> HIDE DEF w
<1>3. SameChannels(world, w)
  BY <1>1, <1>2 DEF SameChannels
<1>4. ASSUME NEW j \in Slots, Waiting(j) PROVE Open(w.srv[j]) /\ w.alive
  <2>1. world.srv[j].closePending /\ Open(world.srv[j])
    BY <1>4 DEF Waiting
  <2>2. shut.srv[j].closePending /\ Open(shut.srv[j])
    BY <1>1, <2>1 DEF SameChannels, WaitingStaysOpen
  <2>3. QED
    BY <1>2, <2>2 DEF SameChannels, WaitingStaysOpen, Still
<1>5. \/ world' = w
      \/ ~w.alive /\ \E os \in [Slots -> ConnectOutcomes], l \in LoginAnswers :
            world' = GetConnected(w, i + 1, os, l)
  BY DEF Killed, NoPermission, LoginAnswers, Answers, Dials, shut, w
<1>6. CASE world' = w
  BY <1>3, <1>4, <1>6, ChannelsStayIf DEF StepKeeps
<1>7. ASSUME ~w.alive, NEW os \in [Slots -> ConnectOutcomes], NEW l \in LoginAnswers,
             world' = GetConnected(w, i + 1, os, l)
      PROVE  StepKeeps
  <2>1. i + 1 \in Int /\ Entries(world) \subseteq Slots
    BY DEF Slots, Entries
  <2>2. OnlyPrimaryWaits(w, world')
    BY <1>2, <1>7, <2>1, GetConnectedKeeps
  <2>3. ChannelsStay(world, world')
    BY <1>3, <2>1, <2>2 DEF OnlyPrimaryWaits, SameChannels, ChannelsStay
  <2>4. QED
    BY <1>4, <1>7, <2>3 DEF StepKeeps
<1>8. QED
  BY <1>5, <1>6, <1>7

\* The user begins a switch: none was under way.
LEMMA ServerCmdKeeps ==
    ASSUME Safe, One, Patient, NEW i \in Slots, ServerCmd(i)
    PROVE  StepKeeps
<1>1. PICK o \in ConnectOutcomes, l \in LoginAnswers, new \in Unlisted(i) :
           LET w == Named(world, i, new)
               r == ConnectToServer(w, i, w.primary, o, l)
           IN  world' = IF Connects(w, i, o)
                        THEN SetPrimary(r, i, ~IsConnected(w.srv[i])) ELSE r
  BY OutcomesAssumption DEF ServerCmd, LoginAnswers, Answers
<1> DEFINE w == Named(world, i, new)
           r == ConnectToServer(w, i, w.primary, o, l)
           transfer == ~IsConnected(w.srv[i])
<1>2. new \in NewEntries \cup {Blank} /\ i <= world.n /\ Still(world)
  BY MayStill DEF Unlisted, ServerCmd
<1>3. w \in SafeWorld
  BY <1>2, UnlistedSafe, NamedSafe DEF Safe
<1>4. OneSwitch(w) /\ Still(w) /\ i \in Entries(w)
  BY <1>2, NamedOne DEF Safe, One
<1>5. world' = IF Connects(w, i, o) THEN SetPrimary(r, i, transfer) ELSE r
  BY <1>1
<1>6. transfer \in BOOLEAN
  OBVIOUS
<1>7. \A j \in Entries(world) : w.srv[j] = world.srv[j]
  BY DEF Named, Entries, Safe, SafeWorld, World
<1> HIDE DEF w, transfer
<1>8. r \in SafeWorld
  <2>1. w.primary \in Index
    BY <1>3 DEF SafeWorld, World
  <2>2. QED
    BY <1>3, <2>1, ConnectSafe
<1>9. OnlyPrimaryWaits(w, world')
  <2>1. CASE Connects(w, i, o)
    <3>1. Ready(r, i) /\ OnlyPrimaryWaits(w, r)
      BY <1>3, <1>4, <2>1, ConnectReady, ConnectKeeps
    <3> HIDE DEF r
    <3>2. ~r.srv[i].closePending
      BY <1>8, <3>1, HeldApart DEF Ready
    <3>3. \A j \in Slots : SetPrimary(r, i, transfer).srv[j].closePending =>
             /\ r.srv[j].closePending
             /\ SetPrimary(r, i, transfer).srv[j].chans = r.srv[j].chans
      BY <1>6, <1>8, <3>2, SetPrimaryKeeps
    <3>4. QED
      BY <1>5, <2>1, <3>1, <3>3 DEF OnlyPrimaryWaits
  <2>2. CASE ~Connects(w, i, o)
    <3>1. r = [w EXCEPT !.srv[i] = Hung(@)]
      BY <2>2 DEF Connects, ConnectToServer
    <3>2. Still(r)
      BY <1>3, <1>4, <3>1, HungOne
    <3>3. QED
      BY <1>5, <2>2, <3>2 DEF Still, OnlyPrimaryWaits
  <2>3. QED
    BY <2>1, <2>2
<1>10. ChannelsStay(world, world')
  <2>1. Entries(world) \subseteq Slots
    BY DEF Entries
  <2>2. QED
    BY <1>7, <1>9, <2>1 DEF OnlyPrimaryWaits, ChannelsStay
<1>11. QED
  BY <1>2, <1>10 DEF StepKeeps, Waiting, Still

LEMMA ServerStepKeeps ==
    ASSUME Safe, One, Patient, NEW d \in {-1, 1}, ServerStep(d)
    PROVE  StepKeeps
<1>1. PICK os \in [Slots -> ConnectOutcomes], l \in LoginAnswers :
           world' = GetConnected(world, world.primary + d, os, l)
  BY DEF ServerStep, LoginAnswers, Answers, Dials
<1>2. world.primary + d \in Int
  BY MaxServersAssumption DEF Safe, SafeWorld, World, Index
<1>3. Still(world)
  BY MayStill DEF ServerStep
<1>4. OnlyPrimaryWaits(world, world')
  BY <1>1, <1>2, <1>3, GetConnectedKeeps DEF Safe, One
<1>5. QED
  BY <1>3, <1>4, ChannelsStayIf DEF StepKeeps, Waiting, Still

\* The new connection is closed by the user: the old one is taken back.
LEMMA DisconnectKeeps ==
    ASSUME Safe, One, NEW i \in Entries(world), Disconnect(i)
    PROVE  StepKeeps
<1> DEFINE old == world.srv[i].closeServ
           closed == CloseServer(world, i)
           shut == [closed EXCEPT !.srv[i].eof = TRUE]
<1>1. i \in Slots /\ world \in SafeWorld /\ OneSwitch(world)
      /\ (old \in Slots \/ old = -1) /\ i # -1
  BY MaxServersAssumption DEF Entries, Safe, One, SafeWorld, World, Server, Index, Slots
<1>2. world' = WindowCheckServers(IF old \notin {-1, i}
                                  THEN Resume(shut, i, old) ELSE shut)
  BY DEF Disconnect
<1>3. /\ closed \in SafeWorld
      /\ SameChannels(world, closed) /\ WaitingStaysOpen(world, closed)
  BY <1>1, CloseServerSafe, CloseKeeps
<1>4. old # i
  BY <1>1 DEF OneSwitch, Held
<1> HIDE DEF closed
<1>5. /\ shut \in SafeWorld /\ SameChannels(closed, shut)
      /\ \A j \in Slots : Open(shut.srv[j]) <=> Open(closed.srv[j])
  BY <1>1, <1>3, MarkEofSafe, MarkEofKeeps
<1>6. CASE old = -1
  <2> HIDE DEF shut
  <2> DEFINE r == WindowCheckServers(shut)
  <2>1. SameChannels(shut, r) /\ WaitingStaysOpen(shut, r)
    BY <1>5, SafeIsLoose, CheckKeeps
  <2>2. world' = r
    BY <1>2, <1>6
  <2> HIDE DEF r
  <2>3. SameChannels(world, r) /\ WaitingStaysOpen(world, r)
    BY <1>3, <1>5, <2>1 DEF SameChannels, WaitingStaysOpen
  <2>4. QED
    BY <2>2, <2>3, ChannelsStayIf DEF StepKeeps, Waiting, WaitingStaysOpen
<1>7. CASE old # -1
  <2>1. i = world.primary
    BY <1>1, <1>7 DEF OneSwitch, Held
  <2>2. Held(world, i) /\ world.asked = -1 /\ Together(world, i)
    BY <1>1, <2>1 DEF OneSwitch
  <2>3. \A j \in Slots : world.srv[j].closePending => old = j
    BY <1>1, <2>2, HeldApart
  <2>4. \A j \in Slots : Open(world.srv[j]) => j = i \/ j = old
    BY <1>1, <2>1, <2>3 DEF OneSwitch
  <2>5. Failed(closed, i, old, i)
    BY <1>1, <1>7, <2>1, <2>2, <2>4, LoginFailed DEF closed
  <2>6. /\ shut.n = closed.n /\ shut.asked = closed.asked
        /\ shut.primary = closed.primary /\ shut.win = closed.win
        /\ \A j \in Slots : /\ shut.srv[j].sock = closed.srv[j].sock
                            /\ shut.srv[j].closeServ = closed.srv[j].closeServ
                            /\ shut.srv[j].closePending = closed.srv[j].closePending
                            /\ shut.srv[j].loggedIn = closed.srv[j].loggedIn
    BY <1>1, <1>3, MarkEofParts
  <2> HIDE DEF shut, old
  <2>7. Failed(shut, i, old, i)
    <3>1. Entries(shut) = Entries(closed) /\ (Together(closed, i) => Together(shut, i))
      BY <2>6 DEF Entries, Together
    <3>2. QED
      BY <1>1, <1>7, <2>5, <2>6, <3>1 DEF Failed, Open
  <2> DEFINE b == Resume(shut, i, old)
             r == WindowCheckServers(b)
  <2>8. /\ OneSwitch(b) /\ Still(b) /\ b \in LooseWorld
        /\ Open(shut.srv[old]) => b.primary = old /\ Open(b.srv[old])
    BY <1>1, <1>5, <1>7, <2>7, ResumeOne, ResumeLoose
  <2> HIDE DEF b
  <2>9. /\ Still(r)
        /\ b.primary # -1 /\ Open(b.srv[b.primary]) => Open(r.srv[b.primary])
    BY <2>8, OneSwitchGathered, CheckOne
  <2>10. world' = r
    BY <1>2, <1>4, <1>7 DEF b
  <2> HIDE DEF r
  <2>11. ASSUME NEW j \in Slots, Waiting(j) PROVE Open(r.srv[j])
    <3>1. world.srv[j].closePending /\ Open(world.srv[j]) /\ j # -1
      BY <2>11 DEF Waiting, Slots
    <3>2. j = old /\ Open(shut.srv[j])
      BY <1>3, <1>5, <2>3, <3>1 DEF WaitingStaysOpen
    <3>3. QED
      BY <2>8, <2>9, <3>1, <3>2
  <2>12. QED
    BY <2>9, <2>10, <2>11, ChannelsStayIf DEF StepKeeps
<1>8. QED
  BY <1>1, <1>6, <1>7

LEMMA NextKeeps ==
    ASSUME OnlySwitches, Safe, One, [Next]_vars PROVE StepKeeps
<1>1. CASE UNCHANGED vars
  <2>1. world' = world
    BY <1>1 DEF vars
  <2>2. SameChannels(world, world)
    BY DEF SameChannels
  <2>3. QED
    BY <2>1, <2>2, ChannelsStayIf DEF StepKeeps, Waiting
<1>2. CASE Network
  BY <1>2, NetworkKeeps DEF Network, Entries
<1>3. ASSUME NEW i \in Entries(world), DoServer(i) PROVE StepKeeps
  <2>1. i \in Slots
    BY DEF Entries
  <2>2. ~Banned(i) /\ ~GetPassword(i)
    BY DEF OnlySwitches, Banned, GetPassword
  <2>3. QED
    BY <1>3, <2>1, <2>2, DoServerAcceptedKeeps, DoServerEofKeeps, WelcomeKeeps,
       ClosedByKeeps DEF DoServer
<1>4. CASE User
  <2>1. ASSUME NEW i \in Slots, ServerCmd(i) PROVE StepKeeps
    BY <2>1, ServerCmdKeeps DEF OnlySwitches
  <2>2. ASSUME NEW d \in {-1, 1}, ServerStep(d) PROVE StepKeeps
    BY <2>2, ServerStepKeeps DEF OnlySwitches
  <2>3. ASSUME NEW i \in Entries(world), Disconnect(i) PROVE StepKeeps
    BY <2>3, DisconnectKeeps
  <2>4. ASSUME NEW i \in Entries(world), NEW c \in Channels, JoinChannel(i, c)
        PROVE  StepKeeps
    BY <2>4, WelcomeKeeps DEF Entries
  <2>5. ~PasswordSendline
    BY DEF PasswordSendline, One, OneSwitch
  <2>6. /\ \A v \in Windows, i \in Slots, every \in BOOLEAN : ~WindowServer(v, i, every)
        /\ \A i \in Entries(world) : ~DeleteServer(i)
        /\ \A v \in Windows : ~NewWindow(v) /\ ~DeleteWindow(v)
    BY DEF OnlySwitches, WindowServer, DeleteServer, NewWindow, DeleteWindow
  <2>7. QED
    BY <1>4, <2>1, <2>2, <2>3, <2>4, <2>5, <2>6 DEF User
<1>5. QED
  BY <1>1, <1>2, <1>3, <1>4 DEF Next

LEMMA StepKeepsOld ==
    ASSUME Safe, One, StepKeeps, NEW j \in Entries(world),
           \A i \in Holders(j) : world.srv[i].ssl
    PROVE  ~ClosedTooEarly(j)
<1> SUFFICES ASSUME ClosedTooEarly(j) PROVE FALSE
  OBVIOUS
<1>1. /\ world.srv[j].closePending /\ Open(world.srv[j]) /\ ~Open(world'.srv[j])
      /\ \A i \in Holders(j) : world.srv[i].sock # "up"
  BY DEF ClosedTooEarly, Pending
<1> DEFINE p == world.primary
<1>2. j \in Slots /\ p \in Slots /\ world.srv[p].closeServ = j
  BY <1>1 DEF One, OneSwitch, Held, Entries
<1>3. p \in Entries(world)
  BY <1>2 DEF One, OneSwitch, Serves, Slots
<1>4. p \in Holders(j)
  BY <1>2, <1>3 DEF Holders
<1>5. Waiting(j)
  BY <1>1, <1>2, <1>4 DEF Waiting
<1>6. QED
  BY <1>1, <1>2, <1>5 DEF StepKeeps

\* What a switch may still be undone to is there: the connection that waits to be
\* closed stays open as long as the new one, to a server for SSL or a proxy, has
\* not been accepted, and its list of channels is not taken away while the entry
\* waits, whatever else is tried, lost, dialled again or disconnected meanwhile.
THEOREM OldConnectionIsKept == OnlySwitches => (Spec => OldConnectionKept)
<1> SUFFICES ASSUME OnlySwitches PROVE Spec => OldConnectionKept
  OBVIOUS
<1> DEFINE Early == \A j \in Entries(world) :
                       (\A i \in Holders(j) : world.srv[i].ssl) => ~ClosedTooEarly(j)
<1>1. Init => One
  BY InitOne
<1>2. Safe /\ One /\ [Next]_vars => One'
  BY NextOne
<1>3. Safe /\ One /\ [Next]_vars => [Early]_vars
  BY NextKeeps, StepKeepsOld
<1>4. Safe /\ One /\ [Next]_vars => [ChannelsStay(world, world')]_vars
  BY NextKeeps DEF StepKeeps
<1>5. OldServerKeptForSsl <=> [][Early]_vars
  BY DEF OldServerKeptForSsl
<1>6. KeptChannels <=> [][ChannelsStay(world, world')]_vars
  BY DEF KeptChannels, ChannelsStay
<1> HIDE DEF Early
<1>7. QED
  BY <1>1, <1>2, <1>3, <1>4, <1>5, <1>6, SafeInvariant, PTL DEF Spec, OldConnectionKept

=============================================================================
