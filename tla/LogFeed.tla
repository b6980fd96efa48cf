------------------------------ MODULE LogFeed ------------------------------
(***************************************************************************)
(* What the write path of logger_server promises to whoever reads logs:    *)
(* an abstract specification, with no handlers, threads or batches.        *)
(*                                                                         *)
(* An id is issued, its record is broadcast under that id, then it is      *)
(* either refused or appended to an ordered buffer, whose oldest records   *)
(* become rows together or are dropped together.  Ids may be broadcast     *)
(* and buffered in another order than they were issued in.  A restart      *)
(* forgets everything except the rows, and resumes after the highest id    *)
(* that is left.                                                           *)
(*                                                                         *)
(* Ingest implements this specification; LiveTail reads from it.           *)
(***************************************************************************)
EXTENDS Naturals, Sequences

CONSTANT Records

VARIABLES
  up,        \* whether the process runs
  last,      \* the last id issued
  open,      \* ids issued, whose record is not yet broadcast
  unsent,    \* frames broadcast, not yet offered to the buffer
  feed,      \* every frame broadcast since the start, in order
  pending,   \* accepted frames that are not yet rows, oldest first
  rows       \* the durable log: a function from id to record

feedVars == <<up, last, open, unsent, feed, pending, rows>>

Frame == [id : Nat \ {0}, rec : Records]
IdsOf(s) == {s[k].id : k \in DOMAIN s}

\* t with the frames of s added, each under its id.
AddRows(t, s) ==
  [i \in DOMAIN t \cup IdsOf(s) |->
     IF i \in DOMAIN t THEN t[i] ELSE s[CHOOSE k \in DOMAIN s : s[k].id = i].rec]

FeedInit ==
  /\ up = FALSE
  /\ last = 0
  /\ open = {}
  /\ unsent = {}
  /\ feed = <<>>
  /\ pending = <<>>
  /\ rows = [i \in {} |-> <<>>]

\* An id is issued, for a record that will be broadcast or for one that is refused.
Issue ==
  /\ up
  /\ last' = last + 1
  /\ open' = open \cup {last + 1} \/ open' = open
  /\ UNCHANGED <<up, unsent, feed, pending, rows>>

Broadcast(x) ==
  \E i \in open :
    LET f == [id |-> i, rec |-> x] IN
      /\ open' = open \ {i}
      /\ unsent' = unsent \cup {f}
      /\ feed' = Append(feed, f)
      /\ UNCHANGED <<up, last, pending, rows>>

Accept ==
  \E f \in unsent :
    /\ unsent' = unsent \ {f}
    /\ pending' = Append(pending, f)
    /\ UNCHANGED <<up, last, open, feed, rows>>

Overload ==
  \E f \in unsent :
    /\ unsent' = unsent \ {f}
    /\ UNCHANGED <<up, last, open, feed, pending, rows>>

\* The n oldest pending frames become rows at once.  No row is ever replaced.
Persist ==
  \E n \in 1..Len(pending) :
    LET s == SubSeq(pending, 1, n) IN
      /\ IdsOf(s) \cap DOMAIN rows = {}
      /\ rows' = AddRows(rows, s)
      /\ pending' = SubSeq(pending, n + 1, Len(pending))
      /\ UNCHANGED <<up, last, open, unsent, feed>>

Discard ==
  \E n \in 1..Len(pending) :
    /\ pending' = SubSeq(pending, n + 1, Len(pending))
    /\ UNCHANGED <<up, last, open, unsent, feed, rows>>

Forget ==
  \E ids \in SUBSET DOMAIN rows :
    /\ up
    /\ rows' = [i \in ids |-> rows[i]]
    /\ UNCHANGED <<up, last, open, unsent, feed, pending>>

Halt ==
  /\ up
  /\ up' = FALSE
  /\ open' = {}
  /\ unsent' = {}
  /\ feed' = <<>>
  /\ pending' = <<>>
  /\ UNCHANGED <<last, rows>>

Resume ==
  /\ ~up
  /\ up' = TRUE
  /\ \E m \in DOMAIN rows \cup {0} :
       /\ \A i \in DOMAIN rows : i <= m
       /\ last' = m
  /\ UNCHANGED <<open, unsent, feed, pending, rows>>

FeedNext ==
  \/ Issue \/ (\E x \in Records : Broadcast(x)) \/ Accept \/ Overload
  \/ Persist \/ Discard \/ Forget
  \/ Halt \/ Resume

FeedSpec == FeedInit /\ [][FeedNext]_feedVars

=============================================================================
