----------------------------- MODULE MCLibrary -----------------------------
(***************************************************************************)
(* Five parts of the library that share no state, checked in one run: each *)
(* behaviour is one of the part that `part` names.                         *)
(***************************************************************************)
EXTENDS Multi, ClientCache, HTTPHeaders, Subprocess, Locale

VARIABLE part

\* Two nested lists with a Future in both, and twice in one.
MCCalls == <<"inner", "outer">>
MCChildren == [inner |-> <<"a", "b">>, outer |-> <<"inner", "a", "c", "a">>]

\* Two spellings of one name, a value with a leading blank, and one with a comma
\* and blanks before it and at the end.
MCNormal == [Foo |-> "Foo", foo |-> "Foo", Bar |-> "Bar"]
MCText == {<<"x">>, <<" x">>, <<"x ", "x ">>}
MCLStripped == [p \in Part |-> IF p = " x" THEN "x" ELSE p]
MCRStripped == [p \in Part |-> IF p = "x " THEN "x" ELSE p]

MCLanguage == [c \in Code |-> IF c = "en_US" THEN "en" ELSE c]

Init ==
    /\ part \in {"multi", "clients", "headers", "pipes", "locales"}
    /\ MultiInit /\ CacheInit /\ HeadersInit /\ PipesInit /\ LocaleInit

Next ==
    \/ /\ part = "multi" /\ MultiNext
       /\ UNCHANGED <<part, cacheVars, h, pipeVars, localeVars>>
    \/ /\ part = "clients" /\ CacheNext
       /\ UNCHANGED <<part, multiVars, h, pipeVars, localeVars>>
    \/ /\ part = "headers" /\ HeadersNext
       /\ UNCHANGED <<part, multiVars, cacheVars, pipeVars, localeVars>>
    \/ /\ part = "pipes" /\ PipesNext
       /\ UNCHANGED <<part, multiVars, cacheVars, h, localeVars>>
    \/ /\ part = "locales" /\ LocaleNext(2, 3)
       /\ UNCHANGED <<part, multiVars, cacheVars, h, pipeVars>>

libraryVars == <<part, multiVars, cacheVars, h, pipeVars, localeVars>>

\* The loop runs its callbacks.
Spec == Init /\ [][Next]_libraryVars /\ WF_multiVars(RunReady)
=============================================================================
