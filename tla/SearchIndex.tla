---------------------------- MODULE SearchIndex ----------------------------
(***************************************************************************)
(* What open_writer does to the database file at every start, and the      *)
(* full-text index it builds.                                              *)
(*                                                                         *)
(* No transaction spans two statements: each is in the file when it ends,  *)
(* and the process may stop between any two, killed or because the next    *)
(* one failed.  The file is all that is left, and the next start goes      *)
(* through the same statements.                                            *)
(***************************************************************************)
EXTENDS Integers

CONSTANTS
  Ids,
  Stored,     \* the rows of a file an older version left
  Columns,    \* ADDED_COLUMNS
  MaxBoots    \* bound: starts

VARIABLES
  pc,         \* the statement that is next, "down" or "serving"
  columns,    \* those of Columns that logs has
  fts,        \* whether logs_fts exists
  triggers,   \* whether its triggers do
  rows,       \* the ids of logs
  indexed,    \* the ids of logs_fts
  existed,    \* build_fts: existed
  boots

file == <<columns, fts, triggers, rows, indexed>>
vars == <<pc, file, existed, boots>>

\* A new file, or one from before the columns and the index.
Init ==
  /\ pc = "down" /\ columns = {} /\ fts = FALSE /\ triggers = FALSE /\ indexed = {}
  /\ rows \in {{}, Stored}
  /\ existed = FALSE /\ boots = 0

Step(from, to) == pc = from /\ pc' = to

Open ==
  /\ Step("down", "migrate")
  /\ boots < MaxBoots /\ boots' = boots + 1
  /\ UNCHANGED <<file, existed>>

\* Each column is added only when it is absent.
AddColumn ==
  /\ pc = "migrate"
  /\ \E c \in Columns \ columns : columns' = columns \cup {c}
  /\ UNCHANGED <<pc, fts, triggers, rows, indexed, existed, boots>>

LookForIndex ==
  /\ Step("migrate", "create")
  /\ Columns = columns
  /\ existed' = fts
  /\ UNCHANGED <<file, boots>>

CreateIndex ==
  /\ Step("create", "triggers")
  /\ fts' = TRUE
  /\ UNCHANGED <<columns, triggers, rows, indexed, existed, boots>>

CreateTriggers ==
  /\ Step("triggers", "backfill")
  /\ triggers' = TRUE
  /\ UNCHANGED <<columns, fts, rows, indexed, existed, boots>>

Backfill ==
  /\ Step("backfill", "serving")
  /\ indexed' = IF existed THEN indexed ELSE rows
  /\ UNCHANGED <<columns, fts, triggers, rows, existed, boots>>

Stop ==
  /\ pc # "down" /\ pc' = "down"
  /\ UNCHANGED <<file, existed, boots>>

\* Logs are stored, and pruned; the triggers keep the index in step.
Insert ==
  /\ pc = "serving"
  /\ \E i \in Ids \ rows : rows' = rows \cup {i} /\ indexed' = IF triggers THEN indexed \cup {i} ELSE indexed
  /\ UNCHANGED <<pc, columns, fts, triggers, existed, boots>>

Prune ==
  /\ pc = "serving"
  /\ \E i \in rows : rows' = rows \ {i} /\ indexed' = IF triggers THEN indexed \ {i} ELSE indexed
  /\ UNCHANGED <<pc, columns, fts, triggers, existed, boots>>

Next ==
  \/ Open \/ AddColumn \/ LookForIndex \/ CreateIndex \/ CreateTriggers \/ Backfill
  \/ Stop \/ Insert \/ Prune

Spec == Init /\ [][Next]_vars

\* "Full-text search across everything stored": while logs are served, each row
\* is in the index, whatever file the server was started on and however often it
\* was stopped on the way.
SearchIsComplete == pc = "serving" => rows \subseteq indexed
=============================================================================
