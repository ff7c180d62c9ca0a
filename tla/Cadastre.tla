------------------------------ MODULE Cadastre ------------------------------
(***************************************************************************)
(* Parcels of the land registry: the client with its cache of the process    *)
(* (cadastre/nsdi_client.py) and the step that stores them (fetch_cadastre   *)
(* of jobs/steps.py).  A parcel is [number, area, boundary]; number 0 is a    *)
(* feature without one.  The table maps a number to its row.                 *)
(***************************************************************************)
EXTENDS Integers, FiniteSets, FiniteSetsExt, Sequences, SequencesExt

Failed == <<"failed">>

\* The parcels that have a number.
Numbered(answer) ==
  FoldLeft(LAMBDA kept, p : IF p.number = 0 THEN kept ELSE Append(kept, p), <<>>, answer)

\* search_by_coords: features without a number are dropped; a request that failed is
\* not remembered, an empty answer is.
Search(cache, key, answer) ==
  IF key \in DOMAIN cache THEN [cache |-> cache, found |-> cache[key]]
  ELSE IF answer = Failed THEN [cache |-> cache, found |-> <<>>]
  ELSE LET found == Numbered(answer)
       IN  [cache |-> [k \in DOMAIN cache \cup {key} |-> IF k = key THEN found ELSE cache[k]],
            found |-> found]

\* INSERT ... ON CONFLICT: a row that is there keeps its values.
Inserted(table, p) ==
  [n \in DOMAIN table \cup {p.number} |-> IF n \in DOMAIN table THEN table[n] ELSE p]

\* The connection commits each statement by itself (tasks/pipeline_tasks.py); one that fails is
\* logged, and the next is tried.
Attempted(table, statement) == IF statement.fails THEN table ELSE Inserted(table, statement.parcel)

Statements(found, failing) == [i \in DOMAIN found |-> [parcel |-> found[i], fails |-> i \in failing]]

InsertAll(table, found, failing) == FoldLeft(Attempted, table, Statements(found, failing))

\* fetch_cadastre: the rows, then the boundaries in a file; refused: the storage does not take
\* it, and the step tells of nothing although the rows stay.
FetchCadastre(table, found, failing, refused) ==
  LET bounded == \E p \in ToSet(found) : p.boundary
      lost    == bounded /\ refused
  IN  [table    |-> InsertAll(table, found, failing),
       numbers  |-> IF lost THEN <<>> ELSE [i \in DOMAIN found |-> found[i].number],
       uploaded |-> bounded /\ ~lost]

\* The table gains exactly the parcels whose statement went through, each with what the answer
\* says of it first, whichever others fail and whatever becomes of the file; a parcel of an
\* earlier run keeps its row.  The step tells of no parcel that it neither has nor failed to
\* store.  A failed request is asked anew by a retry, an answered one never.
ParcelsAreStored(table, answer, retried, failing, refused) ==
  LET first   == Search(<<>>, 1, answer)
      second  == Search(first.cache, 1, retried)
      found   == second.found
      through == DOMAIN found \ failing
      out     == FetchCadastre(table, found, failing, refused)
  IN  /\ answer # Failed => found = first.found
      /\ answer = Failed /\ retried # Failed => found = Numbered(retried)
      /\ DOMAIN out.table = DOMAIN table \cup {found[i].number : i \in through}
      /\ \A n \in DOMAIN table : out.table[n] = table[n]
      /\ \A n \in DOMAIN out.table \ DOMAIN table :
           \E i \in through : /\ found[i].number = n /\ out.table[n] = found[i]
                             /\ \A j \in through : found[j].number = n => i <= j
      /\ \A n \in ToSet(out.numbers) \ DOMAIN out.table :
           n # 0 /\ \E i \in failing \cap DOMAIN found : found[i].number = n
      /\ 0 \notin DOMAIN out.table \ DOMAIN table
=============================================================================
