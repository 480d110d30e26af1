-------------------------- MODULE McpSpendProofs --------------------------
(* Machine-checked proofs about McpSpend. *)
EXTENDS McpSpend, TLAPS

LEMMA BucketTyped ==
    ASSUME TypeOK, NEW x \in Checks, NEW m \in Minutes
    PROVE  BucketAt(x, m) \in Buckets
<1>1. caller[x[1]] \in Callers
  BY DEF TypeOK, Checks
<1>2. QED
  BY <1>1 DEF BucketAt, Buckets, Kind

\* The check of the POST a call belongs to.
LEMMA PostOf ==
    \A x \in Checks : /\ PostCheck(x[1]) \in Checks /\ IsPost(PostCheck(x[1]))
                      /\ IsPost(x) => x = PostCheck(x[1])
BY SpendAssumption DEF Checks, IsPost, PostCheck

LEMMA LimitTyped == \A x : Limit(x) \in Nat
BY SpendAssumption DEF Limit

LEMMA InitTypeOK == Init => TypeOK
BY SpendAssumption DEF Init, TypeOK, Check, Phases, Minutes

LEMMA NextTypeOK == TypeOK /\ [Next]_vars => TypeOK'
<1> SUFFICES ASSUME TypeOK, [Next]_vars
             PROVE  TypeOK'
  OBVIOUS
<1> USE DEF TypeOK
<1>1. ASSUME NEW x \in Checks, NEW phase \in Phases, Move(x, phase),
             UNCHANGED <<metered, minute, used, edge, caller, queued, admitted, serial>>
      PROVE  TypeOK'
  BY <1>1 DEF Move, Check
<1>2. ASSUME NEW p \in Posts, Arrive(p)
      PROVE  TypeOK'
  <2>1. PostCheck(p) \in Checks
    BY SpendAssumption DEF Checks, PostCheck
  <2>2. QED
    BY <1>1, <1>2, <2>1 DEF Arrive, Phases
<1>3. ASSUME NEW p \in Posts, Dispatch(p)
      PROVE  TypeOK'
  <2>1. check' \in [Checks -> Check]
    BY <1>3 DEF Dispatch, Check, Phases
  <2>2. QED
    BY <1>3, <2>1 DEF Dispatch
<1>4. ASSUME NEW x \in Checks, WithinLimit(x)
      PROVE  TypeOK'
  <2>1. CASE Refuse(x)
    BY <2>1 DEF Refuse, Check, Phases
  <2>2. CASE Read(x)
    <3> DEFINE b == BucketAt(x, minute)
    <3>1. b \in Buckets
      BY BucketTyped
    <3>2. PICK n \in Readings(x) :
              /\ check' = [check EXCEPT ![x] =
                              [phase |-> "counting", minute |-> minute, seen |-> n]]
              /\ serial' = [serial EXCEPT ![b] = @ /\ n = used[b] /\ Counting(b) = {}]
      BY <2>2 DEF Read
    <3>3. n \in Nat
      BY <3>1 DEF Readings
    <3>4. check' \in [Checks -> Check]
      BY <3>2, <3>3 DEF Check, Phases
    <3>5. (serial[b] /\ n = used[b] /\ Counting(b) = {}) \in BOOLEAN
      BY <3>1
    <3>6. serial' \in [Buckets -> BOOLEAN]
      BY <3>2, <3>5
    <3>7. QED
      BY <2>2, <3>4, <3>6 DEF Read
  <2>3. CASE Count(x)
    <3>1. check[x].seen + 1 \in Nat /\ Bucket(x) \in Buckets
      BY BucketTyped DEF Check, Bucket
    <3>2. used' \in [Buckets -> Nat] /\ admitted' \in [Buckets -> Nat]
      BY <2>3, <3>1 DEF Count
    <3>3. check' \in [Checks -> Check]
      BY <2>3 DEF Count, Move, Check, Phases
    <3>4. QED
      BY <2>3, <3>2, <3>3 DEF Count
  <2>4. CASE Unmetered(x)
    BY <1>1, <2>4 DEF Unmetered, Unbound, Phases
  <2>5. QED
    BY <1>4, <2>1, <2>2, <2>3, <2>4 DEF WithinLimit
<1>5. ASSUME NEW x \in Checks, Generate(x)
      PROVE  TypeOK'
  <2>1. CASE Queue(x)
    BY <2>1 DEF Queue
  <2>2. CASE ~Queue(x)
    BY <1>1, <1>5, <2>2
       DEF Generate, Invalid, Send, Started, Rejected, Fault, GenerateStep, Phases
  <2>3. QED
    BY <2>1, <2>2
<1>6. ASSUME NEW b \in Buckets, Settle(b)
      PROVE  TypeOK'
  BY <1>6 DEF Settle
<1>7. CASE Tick
  BY <1>7, SpendAssumption DEF Tick, Minutes
<1>8. CASE UNCHANGED vars
  BY <1>8 DEF vars
<1>9. QED
  BY <1>2, <1>3, <1>4, <1>5, <1>6, <1>7, <1>8 DEF Next

(* Every variable keeps its type, for any number of posts, callers, calls  *)
(* in a batch and minutes, and any limits.                                 *)
THEOREM TypeCorrect == Spec => []TypeOK
BY InitTypeOK, NextTypeOK, PTL DEF Spec

-----------------------------------------------------------------------------
(* The inductive invariant.                                                *)

LEMMA InitIInv == Init => IInv
<1> SUFFICES ASSUME Init PROVE IInv
  OBVIOUS
<1>1. TypeOK
  BY InitTypeOK
<1>2. \A x \in Checks : check[x].phase = "none"
  BY DEF Init
<1>3. SerialSpendIsCapped
  BY SpendAssumption DEF Init, SerialSpendIsCapped
<1>4. QED
  BY <1>1, <1>2, <1>3
     DEF Init, IInv, CountedIsAdmitted, SeenIsAdmitted, SerialIsExact, SpendersAreMetered,
         CallsFollow, Counting, RefusalIsEarned, UnmeteredStartsNothing

\* No call is taken up by a step, and no POST undone.
LEMMA CallsFollowStep ==
    ASSUME CallsFollow,
           \A x \in Checks : check[x].phase = "done" => check'[x].phase = "done",
           \A x \in Checks : ~IsPost(x) /\ check'[x].phase # "none" => check[x].phase # "none"
    PROVE  CallsFollow'
<1> SUFFICES ASSUME NEW x \in Checks, ~IsPost(x), check'[x].phase # "none"
             PROVE  check'[PostCheck(x[1])].phase = "done"
  BY DEF CallsFollow, IsPost, PostCheck
<1>1. PostCheck(x[1]) \in Checks
  BY PostOf
<1>2. check[x].phase # "none"
  OBVIOUS
<1>3. check[PostCheck(x[1])].phase = "done"
  BY <1>2 DEF CallsFollow
<1>4. QED
  BY <1>1, <1>3

\* A step that takes some checks from one phase to another, none of them from
\* or to counting or to limited, and leaves the windows alone.
LEMMA PhaseStep ==
    ASSUME IInv, TypeOK', NEW S \in SUBSET Checks,
           UNCHANGED <<metered, used, edge, caller, queued, admitted, serial>>,
           \A x \in Checks \ S : check'[x] = check[x],
           \A x \in S : /\ check[x].phase # "counting"
                        /\ check'[x].phase # "counting"
                        /\ metered => check'[x].phase # "limited"
                        /\ ~metered /\ ~IsPost(x) =>
                               check'[x].phase \notin {"admitted", "sent"},
           CallsFollow'
    PROVE  IInv'
<1>1. \A x \in Checks \ S : Bucket(x)' = Bucket(x)
  BY DEF Bucket, BucketAt
<1>2. \A b \in Buckets : Counting(b)' = Counting(b)
  BY <1>1 DEF Counting
<1>3. SeenIsAdmitted'
  BY <1>1 DEF IInv, SeenIsAdmitted, Limit
<1>4. SerialIsExact'
  BY <1>2 DEF IInv, SerialIsExact, Counting
<1>5. RefusalIsEarned'
  BY <1>1 DEF IInv, RefusalIsEarned, Limit
<1>6. SpendersAreMetered'
  BY DEF IInv, SpendersAreMetered
<1>7. QED
  BY <1>3, <1>4, <1>5, <1>6
     DEF IInv, CountedIsAdmitted, SerialSpendIsCapped, UnmeteredStartsNothing

\* A check reads more than its allowance: some reading is no more than what
\* was admitted, so that much was.
LEMMA RefuseStep ==
    ASSUME IInv, TypeOK', NEW x \in Checks, Refuse(x)
    PROVE  IInv'
<1>1. PICK b \in Buckets : b = BucketAt(x, minute)
  BY BucketTyped DEF IInv, TypeOK
<1>2. PICK n \in Readings(x) : n >= Limit(x)
  BY DEF Refuse, Over
<1>3. n <= admitted[b] /\ n \in Nat /\ admitted[b] \in Nat
  BY <1>1 DEF IInv, CountedIsAdmitted, Readings, TypeOK
<1>4. Limit(x) <= admitted[b]
  BY <1>2, <1>3, LimitTyped
<1>5. /\ check'[x] = [phase |-> "limited", minute |-> minute, seen |-> 0]
      /\ \A y \in Checks \ {x} : check'[y] = check[y]
      /\ check[x].phase = "asked" /\ metered
      /\ UNCHANGED <<metered, minute, used, edge, caller, queued, admitted, serial>>
  BY DEF Refuse, IInv, TypeOK
<1>6. Bucket(x)' = b /\ \A y \in Checks \ {x} : Bucket(y)' = Bucket(y)
  BY <1>1, <1>5 DEF Bucket, BucketAt
<1>7. \A c \in Buckets : Counting(c)' = Counting(c)
  BY <1>5, <1>6 DEF Counting
<1>8. RefusalIsEarned'
  BY <1>4, <1>5, <1>6 DEF IInv, RefusalIsEarned, Limit
<1>9. SeenIsAdmitted'
  BY <1>5, <1>6 DEF IInv, SeenIsAdmitted, Limit
<1>10. SerialIsExact'
  BY <1>5, <1>7 DEF IInv, SerialIsExact, Counting
<1>11. SpendersAreMetered'
  BY <1>5 DEF IInv, SpendersAreMetered
<1>12. CallsFollow'
  BY <1>5, CallsFollowStep DEF IInv
<1>13. QED
  BY <1>5, <1>8, <1>9, <1>10, <1>11, <1>12
     DEF IInv, CountedIsAdmitted, SerialSpendIsCapped, UnmeteredStartsNothing

\* A check reads less than its allowance: alone and up to date, it knows
\* exactly how many were admitted.
LEMMA ReadStep ==
    ASSUME IInv, TypeOK', NEW x \in Checks, Read(x)
    PROVE  IInv'
<1>1. PICK b \in Buckets : b = BucketAt(x, minute)
  BY BucketTyped DEF IInv, TypeOK
<1>2. PICK n \in Readings(x) :
          /\ ~Over(x, n)
          /\ check' = [check EXCEPT ![x] =
                          [phase |-> "counting", minute |-> minute, seen |-> n]]
          /\ serial' = [serial EXCEPT ![b] = @ /\ n = used[b] /\ Counting(b) = {}]
  BY <1>1 DEF Read
<1>3. n <= admitted[b] /\ n \in Nat /\ admitted[b] \in Nat
  BY <1>1 DEF IInv, CountedIsAdmitted, Readings, TypeOK
<1>4. n < Limit(x)
  BY <1>2, <1>3, LimitTyped DEF Over
<1>5. /\ check'[x] = [phase |-> "counting", minute |-> minute, seen |-> n]
      /\ \A y \in Checks \ {x} : check'[y] = check[y]
      /\ check[x].phase = "asked" /\ metered
      /\ UNCHANGED <<metered, minute, used, edge, caller, queued, admitted>>
  BY <1>1, <1>2 DEF Read, IInv, TypeOK
<1>6. Bucket(x)' = b /\ \A y \in Checks \ {x} : Bucket(y)' = Bucket(y)
  BY <1>1, <1>5 DEF Bucket, BucketAt
<1>7. /\ Counting(b)' = Counting(b) \cup {x}
      /\ \A c \in Buckets \ {b} : Counting(c)' = Counting(c)
      /\ \A c \in Buckets : x \notin Counting(c)
  BY <1>5, <1>6 DEF Counting
<1>8. /\ serial'[b] => serial[b] /\ n = used[b] /\ Counting(b) = {}
      /\ \A c \in Buckets \ {b} : serial'[c] = serial[c]
  BY <1>1, <1>2 DEF IInv, TypeOK
<1>9. SeenIsAdmitted'
  BY <1>3, <1>4, <1>5, <1>6 DEF IInv, SeenIsAdmitted, Limit
<1>10. SerialIsExact'
  <2> SUFFICES ASSUME NEW c \in Buckets, serial'[c]
               PROVE  /\ used'[c] = admitted'[c]
                      /\ \A y \in Counting(c)' : check'[y].seen = used'[c]
                      /\ \A y, z \in Counting(c)' : y = z
    BY DEF SerialIsExact
  <2>1. CASE c = b
    BY <2>1, <1>5, <1>7, <1>8 DEF IInv, SerialIsExact
  <2>2. CASE c # b
    <3>1. \A y \in Counting(c) : y \in Checks \ {x}
      BY <1>7 DEF Counting
    <3>2. QED
      BY <2>2, <3>1, <1>5, <1>7, <1>8 DEF IInv, SerialIsExact
  <2>3. QED
    BY <2>1, <2>2
<1>11. RefusalIsEarned'
  BY <1>5, <1>6 DEF IInv, RefusalIsEarned, Limit
<1>12. SerialSpendIsCapped'
  BY <1>5, <1>8 DEF IInv, SerialSpendIsCapped
<1>13. SpendersAreMetered'
  BY <1>5 DEF IInv, SpendersAreMetered
<1>14. CallsFollow'
  BY <1>5, CallsFollowStep DEF IInv
<1>15. QED
  BY <1>5, <1>9, <1>10, <1>11, <1>12, <1>13, <1>14
     DEF IInv, CountedIsAdmitted, UnmeteredStartsNothing

\* A check counts itself: alone, it brings the count to what was admitted.
LEMMA CountStep ==
    ASSUME IInv, TypeOK', NEW x \in Checks, Count(x)
    PROVE  IInv'
<1> USE DEF IInv
<1>1. PICK b \in Buckets : b = Bucket(x)
  BY BucketTyped DEF TypeOK, Bucket, Check
<1>2. /\ check[x].phase = "counting" /\ check'[x].phase = "admitted"
      /\ check'[x].minute = check[x].minute
      /\ \A y \in Checks \ {x} : check'[y] = check[y]
      /\ UNCHANGED <<metered, minute, edge, caller, queued, serial>>
  BY DEF Count, Move, TypeOK, Check
<1>3. /\ used'[b] = check[x].seen + 1 /\ admitted'[b] = admitted[b] + 1
      /\ \A c \in Buckets \ {b} : used'[c] = used[c] /\ admitted'[c] = admitted[c]
  BY <1>1 DEF Count, TypeOK
<1>4. /\ check[x].seen \in Nat
      /\ \A c \in Buckets : admitted[c] \in Nat /\ used[c] \in Nat /\ edge[c] \in Nat
  BY DEF TypeOK, Check
<1>5. \A y \in Checks : Bucket(y)' = Bucket(y) /\ Bucket(y) \in Buckets
  BY <1>2, BucketTyped DEF Bucket, BucketAt, TypeOK, Check
<1>6. /\ Counting(b)' = Counting(b) \ {x} /\ x \in Counting(b)
      /\ \A c \in Buckets \ {b} : Counting(c)' = Counting(c)
  BY <1>1, <1>2, <1>5 DEF Counting
<1>7. check[x].seen <= admitted[b] /\ check[x].seen < Limit(x)
  BY <1>1, <1>2 DEF SeenIsAdmitted
<1>8. \A c \in Buckets : admitted[c] <= admitted'[c]
  BY <1>3, <1>4
<1>9. CountedIsAdmitted'
  BY <1>2, <1>3, <1>4, <1>7 DEF CountedIsAdmitted
<1>10. SeenIsAdmitted'
  <2> SUFFICES ASSUME NEW y \in Checks, check'[y].phase = "counting"
               PROVE  check'[y].seen <= admitted'[Bucket(y)'] /\ check'[y].seen < Limit(y)'
    BY DEF SeenIsAdmitted
  <2>1. y # x /\ check'[y] = check[y]
    BY <1>2
  <2>2. check[y].seen <= admitted[Bucket(y)] /\ check[y].seen < Limit(y) /\ check[y].seen \in Nat
    BY <2>1 DEF SeenIsAdmitted, TypeOK, Check
  <2>3. QED
    BY <2>1, <2>2, <1>3, <1>4, <1>5, <1>8 DEF Limit
<1>11. SerialIsExact'
  <2> SUFFICES ASSUME NEW c \in Buckets, serial'[c]
               PROVE  /\ used'[c] = admitted'[c]
                      /\ \A y \in Counting(c)' : check'[y].seen = used'[c]
                      /\ \A y, z \in Counting(c)' : y = z
    BY DEF SerialIsExact
  <2>1. CASE c = b
    <3>1. Counting(c)' = {} /\ check[x].seen = used[c] /\ used[c] = admitted[c]
      BY <2>1, <1>2, <1>6 DEF SerialIsExact
    <3>2. QED
      BY <2>1, <3>1, <1>3
  <2>2. CASE c # b
    <3>1. \A y \in Counting(c) : y \in Checks \ {x}
      BY <2>2, <1>1 DEF Counting
    <3>2. QED
      BY <2>2, <3>1, <1>2, <1>3, <1>6 DEF SerialIsExact
  <2>3. QED
    BY <2>1, <2>2
<1>12. RefusalIsEarned'
  <2> SUFFICES ASSUME metered', NEW y \in Checks, check'[y].phase = "limited"
               PROVE  admitted'[Bucket(y)'] >= Limit(y)'
    BY DEF RefusalIsEarned
  <2>1. y # x /\ check'[y] = check[y]
    BY <1>2
  <2>2. admitted[Bucket(y)] >= Limit(y)
    BY <2>1, <1>2 DEF RefusalIsEarned
  <2>3. admitted'[Bucket(y)] \in Nat
    BY <1>5 DEF TypeOK
  <2>4. QED
    BY <2>2, <2>3, <1>4, <1>5, <1>8, LimitTyped DEF Limit
<1>13. SerialSpendIsCapped'
  <2> SUFFICES ASSUME NEW c \in Buckets, serial'[c]
               PROVE  admitted'[c] <= IF c.kind = "mcp" THEN GeneralLimit ELSE GenerationLimit
    BY DEF SerialSpendIsCapped
  <2>1. CASE c = b
    <3>1. check[x].seen = admitted[b]
      BY <2>1, <1>2, <1>6 DEF SerialIsExact
    <3>2. Limit(x) = IF b.kind = "mcp" THEN GeneralLimit ELSE GenerationLimit
      BY <1>1 DEF Limit, Bucket, BucketAt, Kind
    <3>3. admitted[b] + 1 <= Limit(x)
      BY <3>1, <1>4, <1>7, LimitTyped
    <3>4. QED
      BY <2>1, <3>2, <3>3, <1>3
  <2>2. CASE c # b
    BY <2>2, <1>2, <1>3 DEF SerialSpendIsCapped
  <2>3. QED
    BY <2>1, <2>2
<1>14. SpendersAreMetered'
  BY <1>2 DEF SpendersAreMetered
<1>15. CallsFollow'
  BY <1>2, CallsFollowStep
<1>16. QED
  BY <1>2, <1>9, <1>10, <1>11, <1>12, <1>13, <1>14, <1>15 DEF UnmeteredStartsNothing

LEMMA NextIInv == IInv /\ [Next]_vars => IInv'
<1> SUFFICES ASSUME IInv, [Next]_vars
             PROVE  IInv'
  OBVIOUS
<1> TypeOK /\ TypeOK'
  BY NextTypeOK DEF IInv
<1>1. ASSUME NEW x \in Checks, NEW phase \in Phases \ {"none", "counting"},
             Move(x, phase), check[x].phase \notin {"counting", "done"},
             metered => phase # "limited",
             ~metered /\ ~IsPost(x) => phase \notin {"admitted", "sent"},
             ~IsPost(x) => check[x].phase # "none",
             UNCHANGED <<metered, used, edge, caller, queued, admitted, serial>>
      PROVE  IInv'
  <2>1. check'[x].phase = phase /\ \A y \in Checks \ {x} : check'[y] = check[y]
    BY <1>1 DEF Move, TypeOK, Check
  <2>2. CallsFollow'
    BY <1>1, <2>1, CallsFollowStep DEF IInv
  <2>3. {x} \in SUBSET Checks
    OBVIOUS
  <2>4. QED
    BY <1>1, <2>1, <2>2, <2>3, PhaseStep
<1>2. ASSUME NEW p \in Posts, Arrive(p)
      PROVE  IInv'
  <2>1. PostCheck(p) \in Checks /\ IsPost(PostCheck(p))
    BY SpendAssumption DEF Checks, IsPost, PostCheck
  <2>2. QED
    BY <1>1, <1>2, <2>1 DEF Arrive, Phases
<1>3. ASSUME NEW p \in Posts, Dispatch(p)
      PROVE  IInv'
  <2> DEFINE S == {x \in Checks : x[1] = p}
  <2>1. PostCheck(p) \in Checks
    BY SpendAssumption DEF Checks, PostCheck
  <2>2. PICK n \in 0 .. MaxBatch :
            check' = [x \in Checks |->
                         IF x = PostCheck(p) THEN [check[x] EXCEPT !.phase = "done"]
                         ELSE IF x[1] = p /\ x[2] <= n THEN [check[x] EXCEPT !.phase = "asked"]
                         ELSE check[x]]
    BY <1>3 DEF Dispatch
  <2>3. check[PostCheck(p)].phase = "admitted"
    BY <1>3 DEF Dispatch
  <2>4. CallsFollow
    BY DEF IInv
  <2>5. \A x \in S : x # PostCheck(p) => check[x].phase = "none"
    BY <2>3, <2>4, PostOf DEF CallsFollow
  <2>6. \A x \in S : check'[x].phase \in {"none", "asked", "done"}
    BY <2>2, <2>5 DEF TypeOK, Check
  <2>7. \A x \in Checks \ S : check'[x] = check[x]
    BY <2>2, PostOf DEF PostCheck
  <2>8. check'[PostCheck(p)].phase = "done"
    BY <2>1, <2>2 DEF TypeOK, Check
  <2>9. CallsFollow'
    <3> SUFFICES ASSUME NEW x \in Checks, ~IsPost(x), check'[x].phase # "none"
                 PROVE  check'[PostCheck(x[1])].phase = "done"
      BY DEF CallsFollow, IsPost, PostCheck
    <3>1. CASE x[1] = p
      BY <3>1, <2>8
    <3>2. CASE x[1] # p
      <4>1. check'[x] = check[x]
        BY <3>2, <2>7
      <4>2. check[PostCheck(x[1])].phase = "done" /\ PostCheck(x[1]) \in Checks
        BY <4>1, <2>4, PostOf DEF CallsFollow
      <4>3. PostCheck(x[1])[1] = x[1]
        BY DEF PostCheck
      <4>4. QED
        BY <3>2, <4>2, <4>3, <2>7
    <3>3. QED
      BY <3>1, <3>2
  <2>10. QED
    BY <1>3, <2>3, <2>5, <2>6, <2>7, <2>9, S \in SUBSET Checks, PhaseStep DEF Dispatch
<1>4. ASSUME NEW x \in Checks, WithinLimit(x)
      PROVE  IInv'
  <2>1. CASE Unmetered(x)
    BY <1>1, <2>1 DEF Unmetered, Unbound, Phases
  <2>2. QED
    BY <1>4, <2>1, RefuseStep, ReadStep, CountStep DEF WithinLimit
<1>5. ASSUME NEW x \in Checks, Generate(x)
      PROVE  IInv'
  <2>1. CASE Queue(x)
    <3>1. metered
      BY <2>1, <1>5 DEF Queue, IInv, SpendersAreMetered
    <3>2. QED
      BY <2>1, <3>1
         DEF Queue, IInv, CountedIsAdmitted, SeenIsAdmitted, SerialIsExact, SpendersAreMetered,
             CallsFollow, RefusalIsEarned, SerialSpendIsCapped, UnmeteredStartsNothing,
             Counting, Bucket, BucketAt, Limit
  <2>2. CASE ~Queue(x)
    BY <1>1, <1>5, <2>2
       DEF Generate, Invalid, Send, Started, Rejected, Fault, GenerateStep, Phases,
           IInv, SpendersAreMetered
  <2>3. QED
    BY <2>1, <2>2
<1>6. ASSUME NEW b \in Buckets, Settle(b)
      PROVE  IInv'
  <2>1. CountedIsAdmitted'
    BY <1>6 DEF Settle, IInv, CountedIsAdmitted, TypeOK
  <2>2. QED
    BY <1>6, <2>1
       DEF Settle, IInv, SeenIsAdmitted, SerialIsExact, SpendersAreMetered,
           CallsFollow, RefusalIsEarned, SerialSpendIsCapped, UnmeteredStartsNothing,
           Counting, Bucket, BucketAt, Limit
<1>7. CASE Tick \/ UNCHANGED vars
  BY <1>7
     DEF Tick, vars, IInv, CountedIsAdmitted, SeenIsAdmitted, SerialIsExact, SpendersAreMetered,
         CallsFollow, RefusalIsEarned, SerialSpendIsCapped, UnmeteredStartsNothing,
         Counting, Bucket, BucketAt, Limit
<1>8. QED
  BY <1>2, <1>3, <1>4, <1>5, <1>6, <1>7 DEF Next

(* The strengthening is inductive: what was counted was admitted, what was *)
(* read was no more than that, and checks that take turns know the count.  *)
THEOREM Invariance == Spec => []IInv
BY InitIInv, NextIInv, PTL DEF Spec

(* A refusal never comes early, whatever counts are lost or read late.     *)
THEOREM RefusalsAreEarned == Spec => []RefusalIsEarned
<1>1. IInv => RefusalIsEarned
  BY DEF IInv
<1>2. QED
  BY <1>1, Invariance, PTL

(* The limits hold in every window whose checks took turns.                *)
THEOREM SerialSpendingIsCapped == Spec => []SerialSpendIsCapped
<1>1. IInv => SerialSpendIsCapped
  BY DEF IInv
<1>2. QED
  BY <1>1, Invariance, PTL

(* With nowhere to count, no render is ever queued.                        *)
THEOREM SpendFailsClosed == Spec => []UnmeteredStartsNothing
<1>1. IInv => UnmeteredStartsNothing
  BY DEF IInv
<1>2. QED
  BY <1>1, Invariance, PTL
=============================================================================
