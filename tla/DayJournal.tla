----------------------------- MODULE DayJournal -----------------------------
(***************************************************************************)
(* The journal of the days (hlcli/journal/writer.py): one file per day,    *)
(* the narrative of a day cached in the store's meta table, and the lesson *)
(* distilled with it in the reflections table, each a commit of its own.   *)
(***************************************************************************)
EXTENDS Integers

CONSTANT LastDay   \* days 1..LastDay are modelled; day 0 is the day before

ASSUME JournalAssumption == LastDay \in Nat \ {0}

VARIABLES
    journaled,   \* days whose file is written
    narrative,   \* what the cached narrative of a day came with
    lessons      \* days with a row in reflections

journalVars == <<journaled, narrative, lessons>>

Days == 0..LastDay

JournalTypeOK ==
    /\ journaled \in SUBSET Days
    /\ narrative \in [Days -> {"none", "plain", "lesson"}]
    /\ lessons \in SUBSET Days

JournalInit ==
    /\ journaled = {}
    /\ narrative = [d \in Days |-> "none"]
    /\ lessons = {}

\* One reflection per day: a cached narrative is used again.
Cached(d) == narrative[d] # "none"

\* The model answers, with a lesson or without one: the narrative is committed.
CacheNarrative(d, kind) ==
    /\ narrative' = [narrative EXCEPT ![d] = kind]
    /\ UNCHANGED <<journaled, lessons>>

AddReflection(d) ==
    /\ lessons' = lessons \cup {d}
    /\ UNCHANGED <<journaled, narrative>>

WriteFile(d) ==
    /\ journaled' = journaled \cup {d}
    /\ UNCHANGED <<narrative, lessons>>
=============================================================================
