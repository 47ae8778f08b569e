-------------------------------- MODULE Keys --------------------------------
(***************************************************************************)
(* Key bindings: /BIND, /TYPE, /PARSEKEY and /SAVE's bindings in keys.c,   *)
(* and edit_char() of edit.c, which finds what a key typed does.           *)
(*                                                                         *)
(* A few keys stand for all: the meta keys, the ones that quote and begin  *)
(* a digraph, a plain one, the space, NUL and one outside ASCII; META6 to  *)
(* META8 are as META5.  What the other functions do to the input line is   *)
(* InputLine's.  Menus, and what /BIND displays, are left out.             *)
(***************************************************************************)
EXTENDS Naturals, FiniteSetsExt, SequencesExt

CONSTANT KeySettings   \* what kinds of run there are, a subset of KeySetting

KeyCodes == {"^@", "^Q", "^X", "^Z", "^[", "SPACE", "[", "i", "accent"}
Metas == 1 .. 5
Maps == {0} \cup Metas
MetaFunctions == {"META1", "META2", "META3", "META4", "META5"}
MetaOf == [f \in MetaFunctions |-> CASE f = "META1" -> 1 [] f = "META2" -> 2
                                     [] f = "META3" -> 3 [] f = "META4" -> 4 [] OTHER -> 5]
\* key_names[]: the functions a key can be bound to; OTHER is any that edits or moves.
KeyFunctions == MetaFunctions \cup {"NOTHING", "SELF_INSERT", "QUOTE", "DIGRAPH",
                                    "TYPE_TEXT", "OTHER"}
Texts == {"", "text"}
\* What lookup_function() makes of a word: one function, none, or several.
Words == KeyFunctions \cup {"unknown", "ambiguous"}

\* A key as /BIND is given it: "METAn-" or nothing, and then the keys.
KeyName == [meta: Maps, keys: Seq(KeyCodes)]
KeySetting == [names: SUBSET KeyName, words: SUBSET Words, typed: SUBSET KeyCodes,
               sequences: SUBSET (KeyCodes \X KeyCodes), called: SUBSET KeyFunctions,
               binds: Nat, eightBit: BOOLEAN, saves: BOOLEAN, asks: BOOLEAN]

ASSUME KeysAssumption == KeySettings \subseteq KeySetting

Binding == [index: KeyFunctions, stuff: Texts, changed: BOOLEAN]
Editor == [hit: SUBSET Maps, digraph: 0 .. 2, asking: BOOLEAN]
Done == [what: KeyFunctions \cup {"nothing yet", "beep", "answer", "digraph"},
         stuff: Texts]

VARIABLES
    bound,             \* keys[] and meta1_keys[] to meta8_keys[]
    editor,            \* meta_hit[], digraph_hit, and a prompt that waits for a key
    did,               \* what the last key came to
    held,              \* the keys typed since the editor was at rest, one or two
    lastAsked,             \* the last binding made: as it was named, and what for
    binds,             \* bindings made
    file,              \* what save_bindings() wrote
    saved,             \* the bindings there were then, if the client that reads them is new
    keysEnv            \* the setting of this run, never changed

keysVars == <<bound, editor, did, held, lastAsked, binds, file, saved, keysEnv>>

FileLine == [meta: Maps, key: KeyCodes, index: KeyFunctions, stuff: Texts]
Nowhere == [m \in {} |-> 0]
Unasked == [name |-> [meta |-> 0, keys |-> <<>>], index |-> "NOTHING", stuff |-> ""]

KeysTypeOK ==
    /\ bound \in [Maps -> [KeyCodes -> Binding]]
    /\ editor \in Editor /\ did \in Done
    /\ held \in Seq(KeyCodes) /\ Len(held) <= 3
    /\ lastAsked \in [name: KeyName, index: KeyFunctions, stuff: Texts]
    /\ binds \in Nat
    /\ file \subseteq FileLine
    /\ saved = Nowhere \/ saved \in [Maps -> [KeyCodes -> Binding]]
    /\ keysEnv \in KeySettings

----------------------------------------------------------------------------
(* The tables the program starts with.                                     *)

Unchanged(f) == [index |-> f, stuff |-> "", changed |-> FALSE]

DefaultKeys == [k \in KeyCodes |-> Unchanged(
    CASE k = "^@" -> "NOTHING"  [] k = "^Q" -> "QUOTE" [] k = "^X" -> "META2"
      [] k = "^Z" -> "DIGRAPH"  [] k = "^[" -> "META1" [] OTHER -> "SELF_INSERT")]

DefaultMeta1 == [k \in KeyCodes |-> Unchanged(
    CASE k = "[" -> "META3" [] k = "^[" -> "OTHER" [] OTHER -> "NOTHING")]

DefaultMeta2 == [k \in KeyCodes |-> Unchanged("NOTHING")]

DefaultMeta4 == [k \in KeyCodes |-> Unchanged(
    CASE k = "i" -> "META4" [] k = "SPACE" -> "OTHER" [] OTHER -> "NOTHING")]

EmptyMeta == [k \in KeyCodes |-> Unchanged("NOTHING")]

Defaults == [m \in Maps |-> CASE m = 0 -> DefaultKeys  [] m = 1 -> DefaultMeta1
                              [] m = 2 -> DefaultMeta2 [] m = 4 -> DefaultMeta4
                              [] OTHER -> EmptyMeta]

AtRest == [hit |-> {}, digraph |-> 0, asking |-> FALSE]

\* What was typed before is no sequence from rest.
Unknown == <<"^@", "^@", "^@">>

KeysInit ==
    /\ bound = Defaults /\ editor = AtRest
    /\ did = [what |-> "nothing yet", stuff |-> ""]
    /\ held = <<>> /\ lastAsked = Unasked /\ binds = 0
    /\ file = {} /\ saved = Nowhere
    /\ keysEnv \in KeySettings

----------------------------------------------------------------------------
(* /BIND.                                                                  *)

\* A NUL ends the string it was converted into.
Converted(keys) ==
    SubSeq(keys, 1, Min({i \in DOMAIN keys : keys[i] = "^@"} \cup {Len(keys) + 1}) - 1)

BadName == [meta |-> 0, keys |-> <<"[", "[">>]

\* parse_key(): a first key that is bound to a meta function stands for its "METAn-".
ParseKey(name, b) ==
    LET keys == Converted(name.keys) IN
    IF name.meta # 0 \/ Len(keys) <= 1 THEN [name EXCEPT !.keys = keys]
    ELSE IF b[0][Head(keys)].index \in MetaFunctions
         THEN [meta |-> MetaOf[b[0][Head(keys)].index], keys |-> Tail(keys)]
         ELSE BadName

\* lookup_function(): the word names one function.
IsFunction(word) == word \in KeyFunctions

Differs(b, index, stuff) == b.index # index \/ b.stuff # stuff

\* bind_it(), of a key of one map.
BindIt(b, m, k, index, stuff) ==
    [b EXCEPT ![m][k] = [index |-> index, stuff |-> stuff,
                         changed |-> @.changed \/ Differs(@, index, stuff)]]

\* bindcmd(): the one key left is bound; of none left, NUL is.
Bound(b, name, index, stuff) ==
    LET parsed == ParseKey(name, b) IN
    IF Len(parsed.keys) > 1 THEN b
    ELSE BindIt(b, parsed.meta, IF parsed.keys = <<>> THEN "^@" ELSE Head(parsed.keys),
                index, stuff)

BindCmd(name, word, stuff) ==
    /\ binds < keysEnv.binds                      \* bound
    /\ binds' = binds + 1
    /\ IF IsFunction(word) /\ Len(ParseKey(name, bound).keys) <= 1
       THEN /\ bound' = Bound(bound, name, word, stuff)
            /\ lastAsked' = [name |-> name, index |-> word, stuff |-> stuff]
            /\ held' = IF editor = AtRest THEN <<>> ELSE Unknown
       ELSE UNCHANGED <<bound, lastAsked, held>>
    /\ saved' = Nowhere
    /\ UNCHANGED <<editor, did, file, keysEnv>>

----------------------------------------------------------------------------
(* Keys typed.                                                             *)

\* keys_get_func_from_index_and_meta(), keys_get_str_from_key_and_meta().
BindingOf(m, k) == bound[m][k]

\* The function a key is bound to is called.
Called(e, index) ==
    CASE index = "META4" -> [e EXCEPT !.hit = IF 4 \in @ THEN @ \ {4} ELSE @ \cup {4}]
      [] index \in MetaFunctions \ {"META4"} -> [e EXCEPT !.hit = @ \cup {MetaOf[index]}]
      [] index = "QUOTE" -> [e EXCEPT !.hit = @ \cup {0}]
      [] index = "DIGRAPH" -> [e EXCEPT !.digraph = 1]
      [] OTHER -> e

\* Without EIGHT_BIT_CHARACTERS a key loses its eighth bit.
Stripped(k) == IF k = "accent" /\ ~keysEnv.eightBit THEN "i" ELSE k

\* The first meta key that was hit picks the map.
MapOf(e) == IF e.hit \ {0} = {} THEN 0 ELSE Min(e.hit \ {0})

NotReleased(e, m) == e                    \* Mutant: it stays hit

\* It is hit no more, but for META4, which sticks.
Released(e, m) == [e EXCEPT !.hit = @ \ ({m} \ {0, 4})]

Result(e, what, stuff) == [editor |-> e, did |-> [what |-> what, stuff |-> stuff]]

\* get_digraph(): the second character, which makes a digraph with the first or does not.
GetDigraph(e, found) ==
    Result([e EXCEPT !.digraph = 0], IF found THEN "digraph" ELSE "beep", "")

\* edit_char().
KeyPressed(e, k, found) ==
    LET key == Stripped(k)
        b == BindingOf(MapOf(e), key)
        f == Released(e, MapOf(e)) IN
    CASE e.asking -> Result([e EXCEPT !.asking = FALSE], "answer", "")
      [] ~e.asking /\ f.hit \ {0, 4} # {} -> Result(f, "beep", "")
      [] ~e.asking /\ f.hit \ {0, 4} = {} /\ f.digraph > 0 ->
            IF f.digraph = 1 THEN Result([f EXCEPT !.digraph = 2], "NOTHING", "")
            ELSE GetDigraph(f, found)
      [] ~e.asking /\ f.hit \ {0, 4} = {} /\ f.digraph = 0 /\ 0 \in f.hit ->
            Result([f EXCEPT !.hit = @ \ {0}], "SELF_INSERT", "")
      [] OTHER -> Result(Called(f, b.index), b.index, b.stuff)

TypedNow(r, k) ==
    held' = IF r = AtRest THEN <<k>> ELSE IF Len(held) = 1 THEN Append(held, k) ELSE Unknown

TypeKey(k, found) ==
    LET r == KeyPressed(editor, k, found) IN
    /\ editor' = r.editor /\ did' = r.did
    /\ TypedNow(editor, k)
    /\ UNCHANGED <<bound, lastAsked, binds, file, saved, keysEnv>>

\* typecmd(): a sequence of keys, each as if it were typed.
TypeCmd(keys, found) ==
    LET first == KeyPressed(editor, keys[1], found)
        r == KeyPressed(first.editor, keys[2], found) IN
    /\ editor' = r.editor /\ did' = r.did
    /\ held' = IF editor = AtRest /\ first.editor # AtRest THEN keys
               ELSE IF first.editor = AtRest THEN <<keys[2]>> ELSE Unknown
    /\ UNCHANGED <<bound, lastAsked, binds, file, saved, keysEnv>>

\* parsekeycmd(): the function itself, with no key.
ParseKeyCmd(index) ==
    /\ editor' = Called(editor, index)
    /\ did' = [what |-> index, stuff |-> ""]
    /\ held' = Unknown
    /\ UNCHANGED <<bound, lastAsked, binds, file, saved, keysEnv>>

\* A prompt that takes one key.
AskKey ==
    /\ keysEnv.asks /\ ~editor.asking
    /\ editor' = [editor EXCEPT !.asking = TRUE]
    /\ UNCHANGED <<bound, did, held, lastAsked, binds, file, saved, keysEnv>>

----------------------------------------------------------------------------
(* /SAVE and /LOAD.                                                        *)

\* write_binding(): the space cannot be named, and is not written.
Written(b, m, k) == k # "SPACE" /\ b[m][k].changed

SaveBindings ==
    /\ keysEnv.saves /\ saved = Nowhere
    /\ file' = {[meta |-> m, key |-> k, index |-> bound[m][k].index, stuff |-> bound[m][k].stuff] :
                  <<m, k>> \in {mk \in Maps \X KeyCodes : Written(bound, mk[1], mk[2])}}
    /\ saved' = bound
    /\ UNCHANGED <<bound, editor, did, held, lastAsked, binds, keysEnv>>

\* Every line of it is a /BIND of a key named with its "METAn-".
KeysLoaded(b, lines) ==
    FoldSet(LAMBDA l, c : Bound(c, [meta |-> l.meta, keys |-> <<l.key>>], l.index, l.stuff),
            b, lines)

\* A client is started afresh and reads the file.
RestartAndLoad ==
    /\ saved # Nowhere
    /\ bound' = KeysLoaded(Defaults, file)
    /\ editor' = AtRest /\ held' = <<>>
    /\ lastAsked' = Unasked
    /\ UNCHANGED <<did, binds, file, saved, keysEnv>>

KeysNext ==
    \/ \E name \in keysEnv.names, word \in keysEnv.words, stuff \in Texts :
          BindCmd(name, word, IF word = "TYPE_TEXT" THEN stuff ELSE "")
    \/ \E k \in keysEnv.typed, found \in BOOLEAN : TypeKey(k, found)
    \/ \E keys \in keysEnv.sequences, found \in BOOLEAN : TypeCmd(keys, found)
    \/ \E index \in keysEnv.called : ParseKeyCmd(index)
    \/ AskKey
    \/ SaveBindings
    \/ RestartAndLoad

KeysSpec == KeysInit /\ [][KeysNext]_keysVars

----------------------------------------------------------------------------
(* Properties.                                                             *)

\* The keys a user types for what was named: a "METAn-" is any key bound to METAn.
TypedFor(name) ==
    IF name.meta = 0 THEN {name.keys}
    ELSE {<<lead>> \o name.keys :
            lead \in {k \in KeyCodes : bound[0][k].index \in MetaFunctions
                                       /\ MetaOf[bound[0][k].index] = name.meta}}

\* Whatever maps and meta keys are in the way, the keys named in the last /BIND, typed from
\* rest, run what they were bound to: a prefix key and its METAn- are the same (edit_char(),
\* parse_key(); help/bind/meta1_character).  A key that loses its eighth bit is another key.
TypedRunsBound ==
    (lastAsked # Unasked /\ held \in TypedFor(lastAsked.name) /\ did.what # "answer"
       /\ \A i \in 1 .. Len(held) : Stripped(held[i]) = held[i])
       => did.what = lastAsked.index /\ did.stuff = lastAsked.stuff

\* The bindings that a new client reads from a file that SAVE wrote are those there were,
\* and nothing else was changed; only the space is lost (bind_it()'s changed,
\* write_binding(), help/save).
SavedComeBack ==
    saved # Nowhere =>
       \A m \in Maps, k \in KeyCodes \ {"SPACE"} :
          bound[m][k].index = saved[m][k].index /\ bound[m][k].stuff = saved[m][k].stuff

\* A key runs what it was bound to, in this client and in one that reads what it saved (keys.c).
BindingsHold == TypedRunsBound /\ SavedComeBack

\* Not so: META4 lasts until it is invoked again (help/bind/meta4_character:12).  With another
\* meta key of a higher number bound in its map, no key is run any more.
StickyEnds ==
    [][\A k \in KeyCodes :
         (TypeKey(k, TRUE) /\ ~editor.asking /\ editor.digraph = 0 /\ MapOf(editor) = 4
            /\ 0 \notin editor.hit /\ bound[4][Stripped(k)].index = "META4")
            => 4 \notin editor'.hit]_keysVars
=============================================================================
