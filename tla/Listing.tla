------------------------------- MODULE Listing -------------------------------
(***************************************************************************)
(* What a client is promised that lists a directory in several calls while *)
(* names come and go: it is given only what was there at some time since   *)
(* it began, and when it is told that this is all, it has been given all   *)
(* it asked for that was there throughout.  A listing that is not `firm`   *)
(* promises the first only.                                                *)
(***************************************************************************)
EXTENDS Sequences, SequencesExt

CONSTANT Names

VARIABLES there,  \* names in the directory
          told,   \* what the client was told: "nothing", "more" or "all"
          firm,   \* the listing misses nothing
          want,   \* names it asks for
          must,   \* names that were there since it began
          may,    \* names that were there at some time since
          got     \* names given

lvars == <<there, told, firm, want, must, may, got>>

Closed ==
    /\ told = "nothing" /\ firm = TRUE
    /\ want = Names
    /\ must = {} /\ may = {}
    /\ got = << >>

Init == there \subseteq Names /\ Closed

Begin ==
    /\ told = "nothing" /\ told' = "more"
    /\ firm' \in BOOLEAN /\ want' = Names
    /\ must' = there /\ may' = there
    /\ got' = << >>
    /\ UNCHANGED there

\* Names come and go.
Change ==
    /\ there' \subseteq Names
    /\ IF told = "nothing" THEN UNCHANGED <<firm, must, may>>
       ELSE /\ firm' => firm
            /\ must' = must \cap there' /\ may' = may \cup there'
    /\ UNCHANGED <<told, want, got>>

\* A call goes on where the last stopped, or starts again.  What is asked for
\* is settled by the first call after a start.
Deliver(again) ==
    /\ told # "nothing" /\ told' \in {"more", "all"}
    /\ again \/ got = << >> \/ want' = want
    /\ again \/ IsPrefix(got, got')
    /\ want' \subseteq Names /\ ToSet(got') \subseteq may
    /\ told' = "all" /\ firm => must \cap want' \subseteq ToSet(got')
    /\ UNCHANGED <<there, firm, must, may>>

\* The client closes the directory, or the listing fails.
Close == told # "nothing" /\ Closed' /\ UNCHANGED there

Next == Begin \/ Change \/ (\E again \in BOOLEAN : Deliver(again)) \/ Close

Spec == Init /\ [][Next]_lvars
=============================================================================
