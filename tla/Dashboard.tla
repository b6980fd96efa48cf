----------------------------- MODULE Dashboard -----------------------------
(***************************************************************************)
(* The search box of the dashboard: a page whose callbacks run one at a    *)
(* time, and searches whose answers arrive in any order.  Each await of a  *)
(* search is a place where other callbacks run.                            *)
(*                                                                         *)
(* Of an answer only the search it answers is kept.  The level and the     *)
(* device are parameters of a search like its term.                        *)
(***************************************************************************)
EXTENDS Integers, FiniteSets

CONSTANTS
  Terms,        \* what may be typed
  Empty,        \* of them, the empty string
  MaxSearches   \* bound: calls of runSearch

VARIABLES
  box,       \* el.search.value
  timer,     \* whether the timer of the last input is set
  term,      \* state.search
  seq,       \* searchSeq
  waiting,   \* searches whose fetch has not resolved
  reading,   \* searches that have a response and await its body
  hits,      \* state.searchHits: the search it is the answer of, 0 for null
  searching, \* state.searching
  settled    \* history: the newest search that set searchHits

vars == <<box, timer, term, seq, waiting, reading, hits, searching, settled>>

Init ==
  /\ box = Empty /\ term = Empty /\ timer = FALSE
  /\ seq = 0 /\ waiting = {} /\ reading = {}
  /\ hits = 0 /\ searching = FALSE /\ settled = 0

\* runSearch up to its first await; without a term it ends there.
RunSearch(t) ==
  /\ seq < MaxSearches /\ seq' = seq + 1
  /\ searching' = (t # Empty)
  /\ IF t = Empty
       THEN hits' = 0 /\ settled' = seq + 1 /\ UNCHANGED waiting
       ELSE waiting' = waiting \cup {seq + 1} /\ UNCHANGED <<hits, settled>>
  /\ UNCHANGED reading

\* Each input starts the wait of 250 ms again.
Input ==
  /\ box' \in Terms /\ timer' = TRUE
  /\ UNCHANGED <<term, seq, waiting, reading, hits, searching, settled>>

Timeout ==
  /\ timer /\ timer' = FALSE
  /\ term' = box
  /\ RunSearch(box)
  /\ UNCHANGED box

\* Another level or device: the search is made again.
Filter ==
  /\ term # Empty
  /\ RunSearch(term)
  /\ UNCHANGED <<box, timer, term>>

\* Neither the timer nor the searches on their way are touched.
Clear ==
  /\ hits' = 0
  /\ box' = Empty /\ term' = Empty
  /\ UNCHANGED <<timer, seq, waiting, reading, searching, settled>>

\* Hits are set; only the newest search ends the "Searching".
Show(s) ==
  /\ hits' = s
  /\ settled' = IF s > settled THEN s ELSE settled
  /\ searching' = (searching /\ s # seq)

\* The fetch resolves to a response, and its body is awaited when it is ok.
Response(s) ==
  /\ s \in waiting /\ s = seq
  /\ waiting' = waiting \ {s}
  /\ \/ reading' = reading \cup {s} /\ UNCHANGED <<hits, settled, searching>>
     \/ Show(s) /\ UNCHANGED reading
  /\ UNCHANGED <<box, timer, term, seq>>

\* "A slower earlier request": its response, or its failure, is of no interest.
Outdated(s) ==
  /\ s # seq
  /\ \/ s \in waiting /\ waiting' = waiting \ {s} /\ UNCHANGED reading
     \/ s \in reading /\ reading' = reading \ {s} /\ UNCHANGED waiting
  /\ UNCHANGED <<box, timer, term, seq, hits, searching, settled>>

\* The request or the body of the newest search fails: no hits are shown.
Fails(s) ==
  /\ s = seq
  /\ \/ s \in waiting /\ waiting' = waiting \ {s} /\ UNCHANGED reading
     \/ s \in reading /\ reading' = reading \ {s} /\ UNCHANGED waiting
  /\ Show(s)
  /\ UNCHANGED <<box, timer, term, seq>>

\* The body is there: state.searchHits is assigned without another look at seq.
Body(s) ==
  /\ s \in reading
  /\ reading' = reading \ {s}
  /\ Show(s)
  /\ UNCHANGED <<box, timer, term, seq, waiting>>

Next ==
  \/ Input \/ Timeout \/ Filter \/ Clear
  \/ \E s \in 1..seq : Response(s) \/ Outdated(s) \/ Fails(s) \/ Body(s)

Spec == Init /\ [][Next]_vars

\* "A slower earlier request must not overwrite a newer one's results": the hits
\* that are shown are of the newest search that has set any.
NewestWins == hits # 0 => hits = settled
=============================================================================
