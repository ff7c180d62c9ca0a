------------------------ MODULE CorrespondenceProofs ------------------------
(***************************************************************************)
(* What goes out and what comes back: who hears of the end of a job          *)
(* (Deliveries), for any number of jobs, users, webhooks, workers and        *)
(* faults, and what becomes of the requests to the network organisations     *)
(* (TuRegistry), for any organisations, terms and days.                     *)
(*                                                                         *)
(* The arguments.  The worker that calls a webhook wrote a notification of   *)
(* its own before; count the calls made and those it may still make, and     *)
(* they are never more than the notifications.  A request has a date of      *)
(* receipt exactly when its status is received, whatever the dates given,    *)
(* and marking looks at the status of a row in the statement that changes    *)
(* it.                                                                      *)
(***************************************************************************)
EXTENDS Deliveries, TuRegistry, FiniteSetTheorems, SequenceTheorems, TLAPS

(* The end of a job (Deliveries).                                          *)

Labels == {"idle", "owner", "notify", "list", "call"}

\* The columns and the locals.
Columns ==
  /\ owner \in [Jobs -> Users \cup {NoUser}]
  /\ hookUser \in [Hooks -> Users \cup {NoUser}]
  /\ revoked \subseteq Hooks
  /\ notices \in [Jobs -> [Users -> Nat]]
  /\ tried \in [Jobs -> [Hooks -> Nat]]
  /\ pc \in [Workers -> Labels]
  /\ at \in [Workers -> Jobs \cup {NoJob}]
  /\ todo \in [Workers -> Seq(Hooks)]
  /\ stale \in [Workers -> SUBSET Hooks]

\* A worker that is past ReadOwner has a job with an owner, and the list of the owner's
\* webhooks, each once, without those that were revoked before.
Knows(w) ==
  /\ pc[w] # "idle" => at[w] \in Jobs
  /\ pc[w] \in {"notify", "list", "call"} => owner[at[w]] \in Users
  /\ pc[w] # "call" => todo[w] = <<>>
  /\ \A i \in 1..Len(todo[w]) : hookUser[todo[w][i]] = owner[at[w]] /\ todo[w][i] \notin stale[w]
  /\ \A i, k \in 1..Len(todo[w]) : todo[w][i] = todo[w][k] => i = k
  /\ stale[w] \subseteq revoked

\* The workers that may yet call webhook h for job j.
MayCall(j, h) ==
  {w \in Workers : /\ at[w] = j
                   /\ pc[w] = "list" \/ \E i \in 1..Len(todo[w]) : todo[w][i] = h}

OwnersOnly ==
  \A j \in Jobs :
    /\ \A u \in Users : u # owner[j] => notices[j][u] = 0
    /\ \A h \in Hooks : tried[j][h] > 0 => owner[j] \in Users /\ hookUser[h] = owner[j]

Counted ==
  \A j \in Jobs, h \in Hooks :
    owner[j] \in Users => tried[j][h] + Cardinality(MayCall(j, h)) <= notices[j][owner[j]]

\* The inductive invariant.
DeliveriesInv == Columns /\ (\A w \in Workers : Knows(w)) /\ OwnersOnly /\ Counted

LEMMA MayCallFinite ==
  ASSUME NEW j, NEW h
  PROVE  IsFiniteSet(MayCall(j, h)) /\ Cardinality(MayCall(j, h)) \in Nat
  BY FiniteAssumption, FS_Subset, FS_CardinalityType DEF MayCall

LEMMA InitOK == Init => DeliveriesInv
<1> SUFFICES ASSUME Init PROVE DeliveriesInv
  OBVIOUS
<1>1. Columns
  BY DEF Init, Columns, Labels
<1>2. \A w \in Workers : Knows(w)
  BY DEF Init, Knows
<1>3. OwnersOnly
  BY DEF Init, OwnersOnly
<1>4. Counted
  <2> SUFFICES ASSUME NEW j \in Jobs, NEW h \in Hooks, owner[j] \in Users
               PROVE  tried[j][h] + Cardinality(MayCall(j, h)) <= notices[j][owner[j]]
    BY DEF Counted
  <2>1. MayCall(j, h) = {}
    BY DEF Init, MayCall
  <2>2. Cardinality(MayCall(j, h)) = 0
    BY <2>1, FS_EmptySet
  <2> QED BY <2>2 DEF Init
<1> QED
  BY <1>1, <1>2, <1>3, <1>4 DEF DeliveriesInv

\* A worker that makes no call counts no more than before.
LEMMA QuietCount ==
  ASSUME Columns, Counted, UNCHANGED <<owner, notices, tried>>,
         \A j \in Jobs, h \in Hooks : MayCall(j, h)' \subseteq MayCall(j, h)
  PROVE  Counted'
<1> SUFFICES ASSUME NEW j \in Jobs, NEW h \in Hooks, owner[j] \in Users
             PROVE  tried[j][h] + Cardinality(MayCall(j, h)') <= notices[j][owner[j]]
  BY DEF Counted
<1>1. Cardinality(MayCall(j, h)') \in Nat /\ Cardinality(MayCall(j, h)') <= Cardinality(MayCall(j, h))
  BY MayCallFinite, FS_Subset, FS_CardinalityType
<1>2. Cardinality(MayCall(j, h)) \in Nat
  BY MayCallFinite
<1> QED
  BY <1>1, <1>2 DEF Counted, Columns

\* A call is taken off what its worker may still call.
LEMMA CallCount ==
  ASSUME Columns, Counted, UNCHANGED <<owner, notices>>, NEW w \in Workers, NEW J \in Jobs, NEW H \in Hooks,
         tried' = [tried EXCEPT ![J][H] = @ + 1], w \in MayCall(J, H), w \notin MayCall(J, H)',
         \A j \in Jobs, h \in Hooks : MayCall(j, h)' \subseteq MayCall(j, h)
  PROVE  Counted'
<1> SUFFICES ASSUME NEW j \in Jobs, NEW h \in Hooks, owner[j] \in Users
             PROVE  tried'[j][h] + Cardinality(MayCall(j, h)') <= notices[j][owner[j]]
  BY DEF Counted
<1> DEFINE S == MayCall(j, h)
           T == MayCall(j, h)'
<1>1. /\ IsFiniteSet(S) /\ Cardinality(S) \in Nat
      /\ T \subseteq S /\ IsFiniteSet(T) /\ Cardinality(T) \in Nat /\ Cardinality(T) <= Cardinality(S)
  BY MayCallFinite, FS_Subset, FS_CardinalityType
<1>2. tried[j][h] \in Nat /\ notices[j][owner[j]] \in Nat /\ tried[j][h] + Cardinality(S) <= notices[j][owner[j]]
  BY DEF Counted, Columns
<1>3. CASE j = J /\ h = H
  <2>1. T \subseteq S \ {w} /\ w \in S
    BY <1>1, <1>3
  <2>2. IsFiniteSet(S \ {w}) /\ Cardinality(S \ {w}) = Cardinality(S) - 1
    BY <1>1, <2>1, FS_RemoveElement
  <2>3. Cardinality(T) <= Cardinality(S) - 1
    BY <2>1, <2>2, FS_Subset
  <2>4. tried'[j][h] = tried[j][h] + 1
    BY <1>3 DEF Columns
  <2> DEFINE s == Cardinality(S)
             t == Cardinality(T)
  <2>5. s \in Nat /\ t \in Nat /\ t <= s - 1 /\ tried[j][h] + s <= notices[j][owner[j]]
    BY <1>1, <1>2, <2>3
  <2> HIDE DEF S, T, s, t
  <2>6. tried[j][h] + 1 + t <= notices[j][owner[j]]
    BY <1>2, <2>5
  <2> QED BY <2>4, <2>6 DEF t, T
<1>4. CASE ~(j = J /\ h = H)
  <2>1. tried'[j][h] = tried[j][h]
    BY <1>4 DEF Columns
  <2> DEFINE s == Cardinality(S)
             t == Cardinality(T)
  <2>5. s \in Nat /\ t \in Nat /\ t <= s /\ tried[j][h] + s <= notices[j][owner[j]]
    BY <1>1, <1>2
  <2> HIDE DEF S, T, s, t
  <2>6. tried[j][h] + t <= notices[j][owner[j]]
    BY <1>2, <2>5
  <2> QED BY <2>1, <2>6 DEF t, T
<1> QED BY <1>3, <1>4

\* A worker forgets its report.
LEMMA ReturnOK ==
  ASSUME DeliveriesInv, NEW w \in Workers, Return(w), UNCHANGED <<owner, hookUser, revoked>>
  PROVE  /\ pc' \in [Workers -> Labels] /\ at' \in [Workers -> Jobs \cup {NoJob}]
         /\ todo' \in [Workers -> Seq(Hooks)] /\ stale' \in [Workers -> SUBSET Hooks]
         /\ \A v \in Workers : Knows(v)'
         /\ \A j \in Jobs, h \in Hooks : MayCall(j, h)' \subseteq MayCall(j, h) \ {w}
<1> USE DEF Return, Goto, DeliveriesInv, Columns
<1>1. pc'[w] = "idle" /\ at'[w] = NoJob /\ todo'[w] = <<>> /\ stale'[w] = {}
  OBVIOUS
<1>2. \A v \in Workers \ {w} : pc'[v] = pc[v] /\ at'[v] = at[v] /\ todo'[v] = todo[v] /\ stale'[v] = stale[v]
  OBVIOUS
<1>3. pc' \in [Workers -> Labels] /\ at' \in [Workers -> Jobs \cup {NoJob}]
  BY DEF Labels
<1>4. todo' \in [Workers -> Seq(Hooks)] /\ stale' \in [Workers -> SUBSET Hooks]
  BY EmptySeq
<1>5. \A v \in Workers : Knows(v)'
  BY <1>1, <1>2 DEF Knows
<1>6. \A j \in Jobs, h \in Hooks : MayCall(j, h)' \subseteq MayCall(j, h) \ {w}
  BY <1>1, <1>2, NoJobAssumption DEF MayCall
<1> QED BY <1>3, <1>4, <1>5, <1>6

LEMMA RegisterHookOK ==
  ASSUME DeliveriesInv, NEW u \in Users, RegisterHook(u)
  PROVE  DeliveriesInv'
<1> USE DEF DeliveriesInv
<1>1. PICK H \in Hooks \ Registered : hookUser' = [hookUser EXCEPT ![H] = u]
  BY DEF RegisterHook
<1>2. UNCHANGED <<owner, revoked, notices, tried, pc, at, todo, stale>>
  BY DEF RegisterHook, locals
<1>3. hookUser[H] = NoUser /\ \A h \in Hooks : h # H => hookUser'[h] = hookUser[h]
  BY <1>1 DEF Registered, Columns
<1>4. Columns'
  BY <1>1, <1>2 DEF Columns
<1>5. ASSUME NEW w \in Workers PROVE Knows(w)'
  <2>1. \A i \in 1..Len(todo[w]) : todo[w][i] \in Hooks /\ hookUser[todo[w][i]] \in Users
    <3>1. todo[w] # <<>> => pc[w] = "call" /\ owner[at[w]] \in Users
      BY DEF Knows
    <3>2. todo[w] \in Seq(Hooks)
      BY DEF Columns
    <3> QED BY <3>1, <3>2, EmptySeq DEF Knows
  <2>2. \A i \in 1..Len(todo[w]) : hookUser'[todo[w][i]] = hookUser[todo[w][i]]
    BY <1>3, <2>1, NoUserAssumption
  <2> QED BY <1>2, <2>2 DEF Knows
<1>6. OwnersOnly'
  BY <1>2, <1>3, NoUserAssumption DEF OwnersOnly
<1>7. Counted'
  BY <1>2, QuietCount DEF MayCall
<1> QED BY <1>4, <1>5, <1>6, <1>7

LEMMA BeginOK ==
  ASSUME DeliveriesInv, NEW w \in Workers, NEW j \in Jobs, Begin(w, j)
  PROVE  DeliveriesInv'
<1> USE DEF DeliveriesInv
<1>1. /\ UNCHANGED <<owner, hookUser, revoked, notices, tried, todo>>
      /\ pc[w] = "idle" /\ pc' = [pc EXCEPT ![w] = "owner"] /\ at' = [at EXCEPT ![w] = j]
      /\ stale' = [stale EXCEPT ![w] = revoked]
  BY DEF Begin, Goto
<1>2. revoked \subseteq Hooks
  BY DEF Columns
<1>3. Columns'
  BY <1>1, <1>2 DEF Columns, Labels
<1>4. todo[w] = <<>>
  BY <1>1 DEF Knows
<1>5. ASSUME NEW v \in Workers PROVE Knows(v)'
  <2>1. CASE v = w
    <3>1. pc'[w] = "owner" /\ at'[w] = j /\ stale'[w] = revoked /\ todo'[w] = <<>>
      BY <1>1, <1>4 DEF Columns
    <3> QED BY <1>1, <2>1, <3>1, EmptySeq DEF Knows
  <2>2. CASE v # w
    <3>1. pc'[v] = pc[v] /\ at'[v] = at[v] /\ stale'[v] = stale[v] /\ todo'[v] = todo[v]
      BY <1>1, <2>2 DEF Columns
    <3> QED BY <1>1, <3>1 DEF Knows
  <2> QED BY <2>1, <2>2
<1>6. \A k \in Jobs, h \in Hooks : MayCall(k, h)' \subseteq MayCall(k, h)
  BY <1>1, <1>4 DEF MayCall, Columns
<1>7. Counted'
  BY <1>1, <1>6, QuietCount
<1> QED BY <1>1, <1>3, <1>5, <1>7 DEF OwnersOnly

LEMMA RevokeHookOK ==
  ASSUME DeliveriesInv, NEW u \in Users, NEW h \in Hooks, RevokeHook(u, h)
  PROVE  DeliveriesInv'
<1> USE DEF DeliveriesInv
<1>1. revoked' = revoked \cup {h} /\ UNCHANGED <<owner, hookUser, notices, tried, pc, at, todo, stale>>
  BY DEF RevokeHook, locals
<1>2. \A w \in Workers : Knows(w)'
  BY <1>1 DEF Knows
<1>3. Counted'
  BY <1>1, QuietCount DEF MayCall
<1> QED BY <1>1, <1>2, <1>3 DEF Columns, OwnersOnly

LEMMA ReadOwnerOK ==
  ASSUME DeliveriesInv, NEW w \in Workers, ReadOwner(w)
  PROVE  DeliveriesInv'
<1> USE DEF DeliveriesInv
<1>1. UNCHANGED <<owner, hookUser, revoked, notices, tried>> /\ pc[w] = "owner"
  BY DEF ReadOwner
<1>2. OwnersOnly'
  BY <1>1 DEF OwnersOnly
<1>3. CASE Return(w)
  <2>1. Columns'
    BY <1>1, <1>3, ReturnOK DEF Columns
  <2>2. Counted'
    BY <1>1, <1>3, ReturnOK, QuietCount
  <2> QED BY <1>1, <1>2, <1>3, <2>1, <2>2, ReturnOK
<1>4. CASE owner[at[w]] # NoUser /\ Goto(w, "notify") /\ UNCHANGED <<at, todo, stale>>
  <2>1. at[w] \in Jobs /\ owner[at[w]] \in Users /\ todo[w] = <<>>
    BY <1>1, <1>4 DEF Knows, Columns
  <2>2. pc' = [pc EXCEPT ![w] = "notify"]
    BY <1>4 DEF Goto
  <2>3. Columns'
    BY <1>1, <1>4, <2>2 DEF Columns, Labels
  <2>4. \A v \in Workers : Knows(v)'
    BY <1>1, <1>4, <2>1, <2>2 DEF Knows, Columns
  <2>5. \A j \in Jobs, h \in Hooks : MayCall(j, h)' \subseteq MayCall(j, h)
    BY <1>4, <2>2 DEF MayCall, Columns
  <2>6. Counted'
    BY <1>1, <2>5, QuietCount
  <2> QED BY <1>2, <2>3, <2>4, <2>6
<1> QED BY <1>3, <1>4 DEF ReadOwner

\* The notification is there before the call is possible.
LEMMA NotifyOK ==
  ASSUME DeliveriesInv, NEW w \in Workers, Notify(w)
  PROVE  DeliveriesInv'
<1> USE DEF DeliveriesInv
<1> DEFINE J == at[w]
           U == owner[J]
<1>1. /\ UNCHANGED <<owner, hookUser, revoked, tried, at, todo, stale>>
      /\ pc[w] = "notify" /\ pc' = [pc EXCEPT ![w] = "list"]
      /\ notices' = [notices EXCEPT ![J][U] = @ + 1]
  BY DEF Notify, Goto
<1>2. J \in Jobs /\ U \in Users /\ todo[w] = <<>>
  BY <1>1 DEF Knows
<1>3. /\ notices' \in [Jobs -> [Users -> Nat]]
      /\ notices'[J][U] = notices[J][U] + 1
      /\ \A j \in Jobs, u \in Users : j # J \/ u # U => notices'[j][u] = notices[j][u]
  <2> HIDE DEF J, U
  <2> QED BY <1>1, <1>2 DEF Columns
<1>4. Columns'
  BY <1>1, <1>3 DEF Columns, Labels
<1>5. \A v \in Workers : Knows(v)'
  BY <1>1, <1>2 DEF Knows, Columns
<1>6. OwnersOnly'
  BY <1>1, <1>2, <1>3 DEF OwnersOnly
<1>7. Counted'
  <2> SUFFICES ASSUME NEW j \in Jobs, NEW h \in Hooks, owner[j] \in Users
               PROVE  tried[j][h] + Cardinality(MayCall(j, h)') <= notices'[j][owner[j]]
    BY <1>1 DEF Counted
  <2> DEFINE S == MayCall(j, h)
             T == MayCall(j, h)'
             s == Cardinality(S)
             t == Cardinality(T)
             n == notices[j][owner[j]]
  <2>1. IsFiniteSet(S) /\ s \in Nat /\ tried[j][h] \in Nat /\ n \in Nat /\ tried[j][h] + s <= n
    BY MayCallFinite DEF Counted, Columns
  <2>2. IsFiniteSet(T) /\ t \in Nat
    BY MayCallFinite, FiniteAssumption, FS_Subset, FS_CardinalityType DEF MayCall
  <2>3. CASE j = J
    <3>1. T \subseteq S \cup {w}
      BY <1>1 DEF MayCall, Columns
    <3>2. IsFiniteSet(S \cup {w}) /\ Cardinality(S \cup {w}) \in Nat /\ Cardinality(S \cup {w}) <= s + 1
      <4> HIDE DEF S
      <4>1. IsFiniteSet(S \cup {w})
        BY <2>1, FS_AddElement
      <4>2. Cardinality(S \cup {w}) = s \/ Cardinality(S \cup {w}) = s + 1
        BY <2>1, FS_AddElement
      <4> QED BY <2>1, <4>1, <4>2
    <3>3. t <= s + 1
      <4>1. t <= Cardinality(S \cup {w})
        BY <3>1, <3>2, FS_Subset
      <4> HIDE DEF s, t, S, T
      <4> QED BY <2>1, <2>2, <3>2, <4>1
    <3>4. notices'[j][owner[j]] = n + 1
      BY <1>3, <2>3
    <3> HIDE DEF s, t, n
    <3>5. tried[j][h] + t <= n + 1
      BY <2>1, <2>2, <3>3
    <3> QED BY <3>4, <3>5 DEF t
  <2>4. CASE j # J
    <3>1. T \subseteq S
      BY <1>1, <2>4 DEF MayCall, Columns
    <3>2. t <= s
      BY <2>1, <3>1, FS_Subset
    <3>3. notices'[j][owner[j]] = n
      BY <1>3, <2>4
    <3> HIDE DEF s, t, n
    <3>4. tried[j][h] + t <= n
      BY <2>1, <2>2, <3>2
    <3> QED BY <3>3, <3>4 DEF t
  <2> QED BY <2>3, <2>4
<1> QED BY <1>4, <1>5, <1>6, <1>7

LEMMA ListHooksOK ==
  ASSUME DeliveriesInv, NEW w \in Workers, ListHooks(w)
  PROVE  DeliveriesInv'
<1> USE DEF DeliveriesInv
<1> DEFINE L == Listed(owner[at[w]])
<1>1. PICK s \in NewestFirst(L) : todo' = [todo EXCEPT ![w] = s]
  BY DEF ListHooks
<1>2. /\ UNCHANGED <<owner, hookUser, revoked, notices, tried, at, stale>>
      /\ pc[w] = "list" /\ pc' = [pc EXCEPT ![w] = "call"]
  BY DEF ListHooks, Goto
<1>3. L \subseteq Hooks /\ L \cap revoked = {} /\ \A h \in L : hookUser[h] = owner[at[w]]
  BY DEF Listed, Registered
<1>4. s \in Seq(Hooks) /\ \A i \in 1..Len(s) : s[i] \in L
  <2>1. IsFiniteSet(Hooks)
    BY FiniteAssumption, FS_Interval DEF Hooks
  <2>2. Cardinality(L) \in Nat
    BY <1>3, <2>1, FS_Subset, FS_CardinalityType
  <2>3. s \in [1..Cardinality(L) -> L]
    BY DEF NewestFirst
  <2> HIDE DEF L
  <2>4. s \in Seq(L) /\ Len(s) = Cardinality(L)
    BY <2>2, <2>3
  <2>5. \A i \in 1..Len(s) : s[i] \in L
    BY <2>3, <2>4
  <2>6. s \in [1..Len(s) -> Hooks] /\ Len(s) \in Nat
    BY <1>3, <2>2, <2>3, <2>4
  <2> QED BY <2>5, <2>6
<1>5. \A i, k \in 1..Len(s) : s[i] = s[k] => i = k
  <2>1. \A i, k \in DOMAIN s : i < k => s[i] > s[k]
    BY DEF NewestFirst
  <2>2. DOMAIN s = 1..Len(s) /\ \A i \in 1..Len(s) : s[i] \in Nat
    BY <1>4, FiniteAssumption DEF Hooks
  <2> QED BY <2>1, <2>2
<1>6. Columns'
  BY <1>1, <1>2, <1>4 DEF Columns, Labels
<1>7. ASSUME NEW v \in Workers PROVE Knows(v)'
  <2>1. CASE v = w
    <3>1. pc'[w] = "call" /\ todo'[w] = s /\ at'[w] = at[w] /\ stale'[w] = stale[w]
      BY <1>1, <1>2 DEF Columns
    <3>2. at[w] \in Jobs /\ owner[at[w]] \in Users /\ stale[w] \subseteq revoked
      BY <1>2 DEF Knows
    <3>3. \A i \in 1..Len(s) : hookUser[s[i]] = owner[at[w]] /\ s[i] \notin stale[w]
      BY <1>3, <1>4, <3>2
    <3> QED BY <1>2, <1>5, <2>1, <3>1, <3>2, <3>3 DEF Knows
  <2>2. CASE v # w
    <3>1. pc'[v] = pc[v] /\ todo'[v] = todo[v]
      BY <1>1, <1>2, <2>2 DEF Columns
    <3> QED BY <1>2, <3>1 DEF Knows
  <2> QED BY <2>1, <2>2
<1>8. OwnersOnly'
  BY <1>2 DEF OwnersOnly
<1>9. \A j \in Jobs, h \in Hooks : MayCall(j, h)' \subseteq MayCall(j, h)
  BY <1>1, <1>2 DEF MayCall, Columns
<1>10. Counted'
  BY <1>2, <1>9, QuietCount
<1> QED BY <1>6, <1>7, <1>8, <1>10

\* What a call is, and what it counts.
LEMMA RingFacts ==
  ASSUME DeliveriesInv, NEW w \in Workers, Ring(w)
  PROVE  /\ at[w] \in Jobs /\ owner[at[w]] \in Users /\ todo[w] \in Seq(Hooks) /\ todo[w] # <<>>
         /\ Head(todo[w]) \in Hooks /\ hookUser[Head(todo[w])] = owner[at[w]]
         /\ tried' = [tried EXCEPT ![at[w]][Head(todo[w])] = @ + 1]
         /\ tried' \in [Jobs -> [Hooks -> Nat]]
         /\ w \in MayCall(at[w], Head(todo[w]))
         /\ owner' = owner /\ hookUser' = hookUser /\ notices' = notices => OwnersOnly'
<1> USE DEF DeliveriesInv
<1> DEFINE J == at[w]
           H == Head(todo[w])
<1>1. /\ pc[w] = "call" /\ todo[w] # <<>> /\ todo[w] \in Seq(Hooks)
      /\ tried' = [tried EXCEPT ![J][H] = @ + 1]
  BY DEF Ring, Columns
<1>2. 1 \in 1..Len(todo[w]) /\ H = todo[w][1] /\ H \in Hooks
  BY <1>1, EmptySeq
<1>3. J \in Jobs /\ owner[J] \in Users /\ hookUser[H] = owner[J]
  BY <1>1, <1>2 DEF Knows
<1>4. w \in MayCall(J, H)
  BY <1>2 DEF MayCall
<1>5. /\ tried' \in [Jobs -> [Hooks -> Nat]]
      /\ \A j \in Jobs, h \in Hooks : j # J \/ h # H => tried'[j][h] = tried[j][h]
  <2> HIDE DEF J, H
  <2> QED BY <1>1, <1>2, <1>3 DEF Columns
<1>6. owner' = owner /\ hookUser' = hookUser /\ notices' = notices => OwnersOnly'
  BY <1>3, <1>5 DEF OwnersOnly
<1> QED BY <1>1, <1>2, <1>3, <1>4, <1>5, <1>6

LEMMA DeliverOK ==
  ASSUME DeliveriesInv, NEW w \in Workers, Deliver(w)
  PROVE  DeliveriesInv'
<1> USE DEF DeliveriesInv
<1>1. Ring(w) /\ todo' = [todo EXCEPT ![w] = Tail(todo[w])] /\ UNCHANGED <<owner, hookUser, revoked, notices, pc, at, stale>>
  BY DEF Deliver
<1>2. PICK J \in Jobs, H \in Hooks : J = at[w] /\ H = Head(todo[w])
  BY RingFacts DEF Deliver
<1> DEFINE rest == Tail(todo[w])
<1>3. todo[w] \in Seq(Hooks) /\ todo[w] # <<>> /\ OwnersOnly'
  BY <1>1, RingFacts
<1>4. /\ rest \in Seq(Hooks) /\ Len(rest) \in Nat /\ Len(rest) = Len(todo[w]) - 1 /\ H = todo[w][1]
      /\ \A i \in 1..Len(rest) : i + 1 \in 1..Len(todo[w]) /\ rest[i] = todo[w][i + 1]
  BY <1>3, <1>2, HeadTailProperties
<1>5. todo'[w] = rest /\ \A v \in Workers \ {w} : todo'[v] = todo[v]
  BY <1>1 DEF Columns
<1>6. Columns'
  BY <1>1, <1>4, RingFacts DEF Columns
<1> HIDE DEF rest
<1>7. ASSUME NEW v \in Workers PROVE Knows(v)'
  <2>1. CASE v = w
    <3>1. pc[w] = "call" /\ at[w] \in Jobs /\ owner[at[w]] \in Users /\ stale[w] \subseteq revoked
      BY <1>1 DEF Ring, Knows
    <3>2. \A i \in 1..Len(rest) : hookUser[rest[i]] = owner[at[w]] /\ rest[i] \notin stale[w]
      <4>1. \A i \in 1..Len(todo[w]) : hookUser[todo[w][i]] = owner[at[w]] /\ todo[w][i] \notin stale[w]
        BY DEF Knows
      <4> QED BY <1>4, <4>1, SMTT(30)
    <3>3. \A i, k \in 1..Len(rest) : rest[i] = rest[k] => i = k
      <4>1. ASSUME NEW i \in 1..Len(rest), NEW k \in 1..Len(rest), rest[i] = rest[k] PROVE i = k
        <5>1. todo[w][i + 1] = todo[w][k + 1] /\ i + 1 \in 1..Len(todo[w]) /\ k + 1 \in 1..Len(todo[w])
          BY <1>4, <4>1
        <5>2. i + 1 = k + 1
          BY <5>1 DEF Knows
        <5> QED BY <5>2
      <4> QED BY <4>1
    <3>4. /\ pc'[w] = "call" /\ todo'[w] = rest /\ at'[w] = at[w] /\ stale'[w] = stale[w]
          /\ owner' = owner /\ hookUser' = hookUser /\ revoked' = revoked
      BY <1>1, <1>5, <3>1
    <3> HIDE DEF DeliveriesInv
    <3> QED BY <2>1, <3>1, <3>2, <3>3, <3>4 DEF Knows
  <2>2. CASE v # w
    BY <1>1, <1>5, <2>2 DEF Knows
  <2> QED BY <2>1, <2>2
<1>8. \A j \in Jobs, h \in Hooks : MayCall(j, h)' \subseteq MayCall(j, h)
  BY <1>1, <1>4, <1>5 DEF MayCall
<1>9. w \notin MayCall(J, H)'
  <2>1. \A i \in 1..Len(rest) : rest[i] # H
    <3>1. 1 \in 1..Len(todo[w])
      BY <1>3, EmptySeq
    <3>2. ASSUME NEW i \in 1..Len(rest), rest[i] = H PROVE FALSE
      <4>1. i + 1 = 1
        BY <1>4, <3>1, <3>2 DEF Knows
      <4> QED BY <4>1
    <3> QED BY <3>2
  <2>2. pc'[w] = "call"
    BY <1>1 DEF Ring
  <2>3. todo'[w] = rest
    BY <1>5
  <2> QED BY <2>1, <2>2, <2>3 DEF MayCall
<1>10. Counted'
  <2>1. w \in MayCall(J, H) /\ tried' = [tried EXCEPT ![J][H] = @ + 1]
    BY <1>1, <1>2, RingFacts
  <2> QED BY <1>1, <1>8, <1>9, <2>1, CallCount
<1> QED BY <1>3, <1>6, <1>7, <1>10

LEMMA HangUpOK ==
  ASSUME DeliveriesInv, NEW w \in Workers, HangUp(w)
  PROVE  DeliveriesInv'
<1> USE DEF DeliveriesInv
<1>1. Ring(w) /\ Return(w) /\ UNCHANGED <<owner, hookUser, revoked, notices>>
  BY DEF HangUp
<1>2. OwnersOnly'
  BY <1>1, RingFacts
<1>3. \A v \in Workers : Knows(v)'
  BY <1>1, ReturnOK
<1>4. Columns'
  BY <1>1, RingFacts, ReturnOK DEF Columns
<1>5. Counted'
  <2>1. \A j \in Jobs, h \in Hooks : MayCall(j, h)' \subseteq MayCall(j, h) /\ w \notin MayCall(j, h)'
    BY <1>1, ReturnOK
  <2> QED BY <1>1, <2>1, RingFacts, CallCount
<1> QED BY <1>2, <1>3, <1>4, <1>5

\* A report ends, or its worker is killed.
LEMMA LeaveOK ==
  ASSUME DeliveriesInv, NEW w \in Workers, EndReport(w) \/ Crash(w)
  PROVE  DeliveriesInv'
<1> USE DEF DeliveriesInv
<1>1. Return(w) /\ UNCHANGED <<owner, hookUser, revoked, notices, tried>>
  BY DEF EndReport, Crash
<1>2. Columns'
  BY <1>1, ReturnOK DEF Columns
<1>3. OwnersOnly'
  BY <1>1 DEF OwnersOnly
<1>4. Counted'
  BY <1>1, ReturnOK, QuietCount
<1> QED BY <1>1, <1>2, <1>3, <1>4, ReturnOK

LEMMA StutterOK ==
  ASSUME DeliveriesInv, UNCHANGED vars
  PROVE  DeliveriesInv'
<1>1. UNCHANGED <<owner, hookUser, revoked, notices, tried, pc, at, todo, stale>>
  BY DEF vars, locals
<1>2. Counted'
  BY <1>1, QuietCount DEF DeliveriesInv, MayCall
<1> QED BY <1>1, <1>2 DEF DeliveriesInv, Columns, Knows, OwnersOnly

LEMMA StepOK ==
  ASSUME DeliveriesInv, [Next]_vars
  PROVE  DeliveriesInv'
BY RegisterHookOK, RevokeHookOK, ReadOwnerOK, NotifyOK, ListHooksOK, DeliverOK, HangUpOK, LeaveOK, BeginOK,
   StutterOK DEF Next, Report

LEMMA DeliveriesAlways == Spec => []DeliveriesInv
BY InitOK, StepOK, PTL DEF Spec

\* Nobody but the owner of a job hears of it (_notify_job_completion), for any number of
\* workers and whatever registers, revokes, hangs up or dies meanwhile.
THEOREM OwnersHearAlone == Spec => []OnlyOwnerHears
<1>1. DeliveriesInv => OnlyOwnerHears
  BY DEF DeliveriesInv, OwnersOnly, OnlyOwnerHears, Columns
<1> QED BY <1>1, DeliveriesAlways, PTL

\* A webhook revoked before a report began is not called by it (_notify_job_completion,
\* revoke_webhook).
THEOREM RevokedStaysSilent == Spec => []RevokedIsSilent
<1>1. DeliveriesInv => RevokedIsSilent
  BY DEF DeliveriesInv, Columns, Knows, RevokedIsSilent, ToSet
<1> QED BY <1>1, DeliveriesAlways, PTL

\* Each call of a webhook was preceded by a notification of its own (create_notification
\* before deliver_webhook), whatever dies between the two.
THEOREM ReportsAreSound == Spec => []CallsAreNoted
<1>1. DeliveriesInv => CallsAreNoted
  <2> SUFFICES ASSUME DeliveriesInv, NEW j \in Jobs, NEW u \in Users, NEW h \in Hooks, hookUser[h] = u
               PROVE  tried[j][h] <= notices[j][u]
    BY DEF CallsAreNoted
  <2>1. tried[j][h] \in Nat /\ notices[j][u] \in Nat
    BY DEF DeliveriesInv, Columns
  <2>2. CASE tried[j][h] = 0
    BY <2>1, <2>2
  <2>3. CASE tried[j][h] > 0
    <3>1. owner[j] = u
      BY <2>3 DEF DeliveriesInv, OwnersOnly
    <3>2. tried[j][h] + Cardinality(MayCall(j, h)) <= notices[j][u]
      BY <3>1 DEF DeliveriesInv, Counted
    <3>3. Cardinality(MayCall(j, h)) \in Nat
      BY MayCallFinite
    <3> QED BY <2>1, <3>2, <3>3
  <2> QED BY <2>1, <2>2, <2>3
<1> QED BY <1>1, DeliveriesAlways, PTL
-----------------------------------------------------------------------------
(* The requests for technical conditions (TuRegistry).                     *)

Entry == [to : Organisations \cup {NoOrganisation}, deadline : Nat,
          status : {"sent", "received", "overdue"}, received : Nat \cup {NoDay}]

\* The date of receipt and the status are stored together; what is overdue was marked.
RegistryInv ==
  /\ directory \subseteq Organisations
  /\ requests \in Seq(Entry)
  /\ \A r \in DOMAIN requests :
       /\ requests[r].status = "received" <=> requests[r].received # NoDay
       /\ requests[r].status = "overdue" => \E day \in markedFor : requests[r].deadline < day

LEMMA EntryType ==
  ASSUME RegistryInv
  PROVE  /\ DOMAIN requests = 1..Len(requests) /\ Len(requests) \in Nat
         /\ \A r \in DOMAIN requests :
              /\ requests[r] \in Entry
              /\ requests[r].status \in {"sent", "received", "overdue"}
              /\ requests[r].deadline \in Nat
              /\ requests[r].status = "received" <=> requests[r].received # NoDay
              /\ requests[r].status = "overdue" => \E day \in markedFor : requests[r].deadline < day
<1>1. DOMAIN requests = 1..Len(requests) /\ Len(requests) \in Nat
  BY LenProperties DEF RegistryInv
<1>2. \A r \in DOMAIN requests : requests[r] \in Entry
  BY <1>1, ElementOfSeq DEF RegistryInv
<1> QED
  BY <1>1, <1>2 DEF RegistryInv, Entry

LEMMA RegisterOK ==
  ASSUME RegistryInv, NEW o \in Organisations \cup {NoOrganisation}, NEW sent \in Nat, NEW days \in Nat,
         RegisterTuRequest(o, sent, days)
  PROVE  RegistryInv' /\ \A r \in DOMAIN requests : r \in DOMAIN requests' /\ requests'[r] = requests[r]
<1> DEFINE row == [to |-> o, deadline |-> sent + days, status |-> "sent", received |-> NoDay]
<1>1. row \in Entry /\ requests' = Append(requests, row) /\ UNCHANGED <<directory, markedFor>>
  BY DEF RegisterTuRequest, Entry
<1>2. requests' \in Seq(Entry)
  BY <1>1 DEF RegistryInv
<1>3. \A r \in DOMAIN requests : r \in DOMAIN requests' /\ requests'[r] = requests[r]
  BY <1>1 DEF RegistryInv
<1>4. \A r \in DOMAIN requests' : r \in DOMAIN requests \/ requests'[r] = row
  BY <1>1 DEF RegistryInv
<1> QED
  BY <1>1, <1>2, <1>3, <1>4 DEF RegistryInv

\* What a step does to the rows there are.
RowsKept ==
  \A r \in DOMAIN requests :
    /\ r \in DOMAIN requests'
    /\ requests[r].received # NoDay =>
         /\ requests'[r].status = "received"
         /\ markedFor' # markedFor => requests'[r] = requests[r]
    /\ requests'[r].status = "overdue" =>
         /\ requests'[r].received = NoDay
         /\ \E day \in markedFor' : requests'[r].deadline < day

LEMMA ResponseOK ==
  ASSUME RegistryInv, NEW q \in DOMAIN requests, NEW received \in Nat, RecordResponse(q, received)
  PROVE  RegistryInv' /\ RowsKept
<1> DEFINE row == [requests[q] EXCEPT !.status = "received", !.received = received]
<1>1. /\ requests' = [requests EXCEPT ![q] = row]
      /\ UNCHANGED <<directory, markedFor>>
  BY DEF RecordResponse
<1>2. row \in Entry /\ row.status = "received" /\ row.received = received
  BY EntryType DEF RegistryInv, Entry
<1>3. requests' \in Seq(Entry)
  BY <1>1, <1>2, EntryType DEF RegistryInv
<1>4. /\ DOMAIN requests' = DOMAIN requests
      /\ \A r \in DOMAIN requests : requests'[r] = IF r = q THEN row ELSE requests[r]
  BY <1>1
<1>5. row.received # NoDay
  BY <1>2, DaysAssumption
<1> HIDE DEF row
<1>6. RegistryInv'
  BY <1>1, <1>2, <1>3, <1>4, <1>5, EntryType DEF RegistryInv
<1>7. RowsKept
  BY <1>1, <1>2, <1>4, EntryType DEF RowsKept
<1> QED
  BY <1>6, <1>7

LEMMA MarkOK ==
  ASSUME RegistryInv, NEW asOf \in Nat, MarkOverdue(asOf)
  PROVE  RegistryInv' /\ RowsKept
<1> DEFINE row(r) == [requests[r] EXCEPT !.status = "overdue"]
<1>1. /\ requests' = [r \in DOMAIN requests |-> IF r \in OverdueRequests(asOf) THEN row(r) ELSE requests[r]]
      /\ markedFor' = markedFor \cup {asOf} /\ UNCHANGED directory
  BY DEF MarkOverdue
<1>2. \A r \in DOMAIN requests :
        /\ row(r) \in Entry /\ row(r).status = "overdue"
        /\ row(r).deadline = requests[r].deadline /\ row(r).received = requests[r].received
  BY EntryType DEF Entry
<1>3. \A r \in OverdueRequests(asOf) :
        r \in DOMAIN requests /\ requests[r].status = "sent" /\ requests[r].deadline < asOf
  BY DEF OverdueRequests
<1>4. /\ DOMAIN requests' = DOMAIN requests
      /\ \A r \in DOMAIN requests :
           requests'[r] = IF r \in OverdueRequests(asOf) THEN row(r) ELSE requests[r]
  BY <1>1
<1> HIDE DEF row
<1>5. requests' \in Seq(Entry)
  <2>1. \A r \in 1..Len(requests) : requests'[r] \in Entry
    BY <1>2, <1>4, EntryType
  <2> QED
    BY <2>1, <1>1, EntryType, SeqDef
<1>6. ASSUME NEW r \in DOMAIN requests
      PROVE  /\ requests'[r].status = "received" <=> requests'[r].received # NoDay
             /\ requests[r].received # NoDay => requests'[r] = requests[r]
             /\ requests'[r].status = "overdue" => \E day \in markedFor' : requests'[r].deadline < day
  <2>1. CASE r \in OverdueRequests(asOf)
    BY <1>1, <1>2, <1>3, <1>4, <2>1, EntryType
  <2>2. CASE r \notin OverdueRequests(asOf)
    BY <1>1, <1>4, <2>2, EntryType
  <2> QED
    BY <2>1, <2>2
<1>7. RegistryInv'
  BY <1>1, <1>4, <1>5, <1>6 DEF RegistryInv
<1>8. RowsKept
  BY <1>4, <1>6, EntryType DEF RowsKept
<1> QED
  BY <1>7, <1>8

LEMMA RegistryStep ==
  ASSUME RegistryInv, [RegistryNext]_registryVars
  PROVE  RegistryInv' /\ RowsKept
<1> USE DaysAssumption
<1>1. CASE UNCHANGED registryVars
  BY <1>1, EntryType DEF registryVars, RegistryInv, RowsKept
<1>2. ASSUME NEW osm \in Organisations \cup {NoOrganisation}, NEW sent \in Days, NEW days \in Deadlines,
             NEW o \in ResolveNetworkOwner(osm), RegisterTuRequest(o, sent, days)
      PROVE  RegistryInv' /\ RowsKept
  <2>1. o \in Organisations \cup {NoOrganisation}
    BY <1>2 DEF ResolveNetworkOwner, RegistryInv
  <2>2. RegistryInv' /\ \A r \in DOMAIN requests : r \in DOMAIN requests' /\ requests'[r] = requests[r]
    BY <1>2, <2>1, RegisterOK
  <2>3. markedFor' = markedFor
    BY <1>2 DEF RegisterTuRequest
  <2> QED
    BY <2>2, <2>3, EntryType DEF RowsKept
<1>3. ASSUME NEW q \in DOMAIN requests, NEW received \in Days, RecordResponse(q, received)
      PROVE  RegistryInv' /\ RowsKept
  BY <1>3, ResponseOK
<1>4. ASSUME NEW asOf \in Days, MarkOverdue(asOf)
      PROVE  RegistryInv' /\ RowsKept
  BY <1>4, MarkOK
<1>5. ASSUME NEW o \in Organisations, RegisterRso(o)
      PROVE  RegistryInv' /\ RowsKept
  BY <1>5, EntryType DEF RegisterRso, RegistryInv, RowsKept
<1> QED
  BY <1>1, <1>2, <1>3, <1>4, <1>5 DEF RegistryNext

\* What was received stays received, and what is overdue was never answered and was marked
\* for a date after its term (record_response, mark_overdue), whatever dates are given and
\* in whatever order answers and marks come.
THEOREM AnswersAreKept == RegistryInit /\ [][RegistryNext]_registryVars => ReceivedIsKept
<1>1. RegistryInit => RegistryInv
  BY DEF RegistryInit, RegistryInv, Entry
<1>2. RegistryInv /\ [RegistryNext]_registryVars => RegistryInv'
  BY RegistryStep
<1>3. RegistryInv /\ [RegistryNext]_registryVars =>
        [\A r \in DOMAIN requests :
           /\ requests[r].received # NoDay =>
                /\ requests'[r].status = "received"
                /\ markedFor' # markedFor => requests'[r] = requests[r]
           /\ requests'[r].status = "overdue" =>
                /\ requests'[r].received = NoDay
                /\ \E day \in markedFor' : requests'[r].deadline < day]_registryVars
  BY RegistryStep DEF RowsKept
<1> QED
  BY <1>1, <1>2, <1>3, PTL DEF ReceivedIsKept
=============================================================================
