-------------------------- MODULE WebhookPatchProofs -------------------------
(***************************************************************************)
(* Theorems about WebhookPatch for pods of any number of containers with   *)
(* environments of any length.                                             *)
(***************************************************************************)
EXTENDS WebhookPatch, WellFoundedInduction, TLAPS

-----------------------------------------------------------------------------
(***************************************************************************)
(* Induction.  The least element of a set of numbers gives induction for a *)
(* property that is written as a set.                                      *)
(***************************************************************************)
LEMMA LeastNumber ==
  ASSUME NEW T \in SUBSET Nat, T # {}
  PROVE  \E x \in T : \A y \in T : ~(y < x)
<1> DEFINE Less == {pair \in Nat \X Nat : pair[1] < pair[2]}
<1>1. IsWellFoundedOn(Less, Nat)
  BY NatLessThanWellFounded DEF OpToRel
<1>2. \E x \in T : \A y \in T : ~(<<y, x>> \in Less)
  BY <1>1, WFMin
<1> QED BY <1>2

LEMMA Induction ==
  ASSUME NEW S \in SUBSET Nat, 0 \in S, \A n \in S : n + 1 \in S
  PROVE  S = Nat
<1> SUFFICES ASSUME Nat \ S # {} PROVE FALSE
  OBVIOUS
<1>1. PICK x \in Nat \ S : \A y \in Nat \ S : ~(y < x)
  BY LeastNumber
<1>2. x - 1 \in Nat /\ x - 1 < x /\ (x - 1) + 1 = x
  BY <1>1
<1> QED BY <1>1, <1>2

-----------------------------------------------------------------------------
(***************************************************************************)
(* Pods and their environments.                                            *)
(***************************************************************************)
Envs == Seq(EnvVars)

LEMMA PodHasLists ==
  ASSUME NEW p \in Pods, NEW list \in Lists
  PROVE  /\ p[list] \in Seq(Envs)
         /\ DOMAIN p[list] = 1..Len(p[list]) /\ Len(p[list]) \in Nat
         /\ \A i \in DOMAIN p[list] :
              p[list][i] \in Envs /\ DOMAIN p[list][i] = 1..Len(p[list][i])
<1>1. p[list] \in Seq(Envs)
  BY DEF Pods, Lists, Envs
<1> QED BY <1>1 DEF Envs

LEMMA PodExcept ==
  ASSUME NEW p \in Pods, NEW list \in Lists, NEW s \in Seq(Envs),
         NEW q, q = [p EXCEPT ![list] = s]
  PROVE  /\ q \in Pods /\ q.jobid = p.jobid /\ q[list] = s
         /\ \A other \in Lists : other # list => q[other] = p[other]
BY DEF Pods, Lists, Envs

LEMMA PrefixIsPointwise ==
  ASSUME NEW S, NEW s \in Seq(S), NEW t \in Seq(S)
  PROVE  IsPrefix(s, t) <=> Len(s) <= Len(t) /\ \A k \in 1..Len(s) : s[k] = t[k]
BY DEF IsPrefix

-----------------------------------------------------------------------------
(***************************************************************************)
(* What createPatches returns.                                             *)
(***************************************************************************)
Ops == [list : Lists, i : Nat, at : {"env", "end"}, value : EnvVars \cup Envs]

\* An operation for a container of p that lacks the variable.
OpOf(p, op) ==
  /\ op.list \in Lists /\ op.i \in DOMAIN p[op.list]
  /\ ~HasEnv(p[op.list][op.i], JobVar)
  /\ op = AddOp(p, op.list, op.i)

\* No two operations are for one container.
OneEach(ops) ==
  \A j, k \in DOMAIN ops : ops[j].list = ops[k].list /\ ops[j].i = ops[k].i => j = k

\* There is an operation for a container.
OpAt(ops, list, i) == \E k \in DOMAIN ops : ops[k].list = list /\ ops[k].i = i

LEMMA AddOpIsOp ==
  ASSUME NEW p \in Pods, p.jobid # NoJobId, NEW list \in Lists, NEW i \in DOMAIN p[list]
  PROVE  /\ AddOp(p, list, i) \in Ops
         /\ AddOp(p, list, i).list = list /\ AddOp(p, list, i).i = i
<1>1. i \in Nat
  BY PodHasLists
<1>2. JobEnv(p) \in EnvVars
  BY ConstantsAssumption DEF JobEnv, EnvVars, Pods
<1>3. <<JobEnv(p)>> \in Envs
  BY <1>2 DEF Envs
<1> QED BY <1>1, <1>2, <1>3 DEF AddOp, Ops

\* The loop over a list does what its equation says.
LEMMA LoopIsDefined ==
  ASSUME NEW p \in Pods, NEW list \in Lists, p.jobid # NoJobId
  PROVE  LET ops == OpsUpTo(p, list) IN
         ops = [n \in 0..Len(p[list]) |->
                  IF n = 0 THEN <<>>
                  ELSE IF HasEnv(p[list][n], JobVar) THEN ops[n - 1]
                  ELSE Append(ops[n - 1], AddOp(p, list, n))]
<1> DEFINE N == Len(p[list])
           Has(n) == HasEnv(p[list][n], JobVar)
           Add(n) == AddOp(p, list, n)
           Good(g, n) == g = [k \in 0..n |-> IF k = 0 THEN <<>>
                                             ELSE IF Has(k) THEN g[k - 1]
                                             ELSE Append(g[k - 1], Add(k))]
           S == {n \in Nat : \E g : Good(g, n)}
<1> HIDE DEF Has, Add
<1>1. 0 \in S
  <2>1. Good([k \in 0..0 |-> <<>>], 0)
    OBVIOUS
  <2> QED BY <2>1
<1>2. ASSUME NEW n \in S PROVE n + 1 \in S
  <2>1. PICK g : Good(g, n)
    OBVIOUS
  <2> DEFINE h == [k \in 0..(n + 1) |->
                     IF k = n + 1 THEN IF Has(k) THEN g[n] ELSE Append(g[n], Add(k))
                     ELSE g[k]]
  <2>2. n \in Nat /\ \A k \in 0..n : h[k] = g[k]
    OBVIOUS
  <2>3. \A k \in 0..n : g[k] = IF k = 0 THEN <<>>
                               ELSE IF Has(k) THEN g[k - 1] ELSE Append(g[k - 1], Add(k))
    BY <2>1
  <2>4. \A k \in 0..(n + 1) : h[k] = IF k = 0 THEN <<>>
                                     ELSE IF Has(k) THEN h[k - 1] ELSE Append(h[k - 1], Add(k))
    <3> SUFFICES ASSUME NEW k \in 0..(n + 1)
                 PROVE  h[k] = IF k = 0 THEN <<>>
                               ELSE IF Has(k) THEN h[k - 1] ELSE Append(h[k - 1], Add(k))
      OBVIOUS
    <3>1. CASE k = n + 1
      <4>1. h[k - 1] = g[n] /\ k # 0
        BY <2>2, <3>1
      <4> QED BY <3>1, <4>1
    <3>2. CASE k # n + 1
      <4>1. k \in 0..n /\ h[k] = g[k] /\ (k # 0 => h[k - 1] = g[k - 1])
        BY <2>2, <3>2
      <4> QED BY <2>3, <4>1
    <3> QED BY <3>1, <3>2
  <2>5. Good(h, n + 1)
    BY <2>4
  <2>6. n + 1 \in Nat
    BY <2>2
  <2> HIDE DEF Good, h
  <2>7. \E f : Good(f, n + 1)
    BY <2>5
  <2> QED BY <2>6, <2>7
<1>3. N \in S
  <2> HIDE DEF S
  <2>1. S = Nat
    <3>1. S \in SUBSET Nat
      BY DEF S
    <3> QED BY <1>1, <1>2, <3>1, Induction
  <2> QED BY <2>1, PodHasLists
<1>4. \E g : Good(g, N)
  BY <1>3
<1>5. OpsUpTo(p, list) = CHOOSE g : Good(g, N)
  BY DEF OpsUpTo, Has, Add
<1>6. Good(OpsUpTo(p, list), N)
  BY <1>4, <1>5
<1> QED BY <1>6 DEF Has, Add

\* What the loop over a list has made of the first n containers.
MadeOf(p, list, n, ops) ==
  /\ ops \in Seq(Ops)
  /\ \A k \in DOMAIN ops : OpOf(p, ops[k]) /\ ops[k].list = list /\ ops[k].i \in 1..n
  /\ OneEach(ops)
  /\ \A i \in 1..n : HasEnv(p[list][i], JobVar) \/ OpAt(ops, list, i)

\* One turn of the loop.
LEMMA OneTurn ==
  ASSUME NEW p \in Pods, NEW list \in Lists, p.jobid # NoJobId,
         NEW n \in Nat, n + 1 \in DOMAIN p[list],
         NEW ops, MadeOf(p, list, n, ops)
  PROVE  MadeOf(p, list, n + 1,
                IF HasEnv(p[list][n + 1], JobVar) THEN ops
                ELSE Append(ops, AddOp(p, list, n + 1)))
<1>0. ops \in Seq(Ops) /\ Len(ops) \in Nat /\ DOMAIN ops = 1..Len(ops)
  BY DEF MadeOf
<1>1. CASE HasEnv(p[list][n + 1], JobVar)
  <2>1. \A k \in DOMAIN ops :
          OpOf(p, ops[k]) /\ ops[k].list = list /\ ops[k].i \in 1..(n + 1)
    BY DEF MadeOf
  <2>2. \A i \in 1..(n + 1) : HasEnv(p[list][i], JobVar) \/ OpAt(ops, list, i)
    <3> TAKE i \in 1..(n + 1)
    <3>1. i \in 1..n \/ i = n + 1
      OBVIOUS
    <3> QED BY <1>1, <3>1 DEF MadeOf
  <2> QED BY <1>1, <2>1, <2>2 DEF MadeOf
<1>2. CASE ~HasEnv(p[list][n + 1], JobVar)
  <2> DEFINE op  == AddOp(p, list, n + 1)
             all == Append(ops, op)
  <2>1. op \in Ops /\ op.list = list /\ op.i = n + 1
    BY AddOpIsOp
  <2> HIDE DEF op
  <2>2. /\ all \in Seq(Ops) /\ Len(all) = Len(ops) + 1
        /\ all[Len(ops) + 1] = op /\ \A k \in DOMAIN ops : all[k] = ops[k]
        /\ DOMAIN all = 1..(Len(ops) + 1)
    BY <1>0, <2>1
  <2>3. \A k \in DOMAIN all : k \in DOMAIN ops \/ k = Len(ops) + 1
    BY <1>0, <2>2
  <2>4. OpOf(p, op)
    BY <1>2, <2>1 DEF OpOf, op
  <2> HIDE DEF all
  <2>5. \A k \in DOMAIN ops :
          OpOf(p, ops[k]) /\ ops[k].list = list /\ ops[k].i \in 1..n
    BY DEF MadeOf
  <2>6. \A k \in DOMAIN all :
          OpOf(p, all[k]) /\ all[k].list = list /\ all[k].i \in 1..(n + 1)
    <3> TAKE k \in DOMAIN all
    <3>1. CASE k \in DOMAIN ops
      BY <2>2, <2>5, <3>1
    <3>2. CASE k = Len(ops) + 1
      BY <2>1, <2>2, <2>4, <3>2
    <3> QED BY <2>3, <3>1, <3>2
  <2>7. OneEach(all)
    <3> SUFFICES ASSUME NEW j \in DOMAIN all, NEW k \in DOMAIN all,
                        all[j].list = all[k].list, all[j].i = all[k].i
                 PROVE  j = k
      BY DEF OneEach
    <3>1. CASE j \in DOMAIN ops /\ k \in DOMAIN ops
      BY <2>2, <3>1 DEF MadeOf, OneEach
    <3>2. CASE j \notin DOMAIN ops /\ k \notin DOMAIN ops
      BY <2>3, <3>2
    <3>3. CASE j \in DOMAIN ops /\ k \notin DOMAIN ops
      <4>1. all[j].i \in 1..n /\ all[k].i = n + 1
        BY <2>1, <2>2, <2>3, <2>5, <3>3
      <4> QED BY <4>1
    <3>4. CASE j \notin DOMAIN ops /\ k \in DOMAIN ops
      <4>1. all[k].i \in 1..n /\ all[j].i = n + 1
        BY <2>1, <2>2, <2>3, <2>5, <3>4
      <4> QED BY <4>1
    <3> QED BY <3>1, <3>2, <3>3, <3>4
  <2>8. \A i \in 1..(n + 1) : HasEnv(p[list][i], JobVar) \/ OpAt(all, list, i)
    <3> TAKE i \in 1..(n + 1)
    <3>1. CASE i \in 1..n
      <4>1. CASE OpAt(ops, list, i)
        <5>1. PICK k \in DOMAIN ops : ops[k].list = list /\ ops[k].i = i
          BY <4>1 DEF OpAt
        <5>2. k \in DOMAIN all /\ all[k] = ops[k]
          BY <1>0, <2>2
        <5> QED BY <5>1, <5>2 DEF OpAt
      <4> QED BY <3>1, <4>1 DEF MadeOf
    <3>2. CASE i = n + 1
      <4>1. Len(ops) + 1 \in DOMAIN all
        BY <1>0, <2>2
      <4> QED BY <2>1, <2>2, <3>2, <4>1 DEF OpAt
    <3> QED BY <3>1, <3>2
  <2>9. MadeOf(p, list, n + 1, all)
    BY <2>2, <2>6, <2>7, <2>8 DEF MadeOf
  <2> QED BY <1>2, <2>9 DEF all, op
<1> QED BY <1>1, <1>2

LEMMA OpsForMakes ==
  ASSUME NEW p \in Pods, NEW list \in Lists, p.jobid # NoJobId
  PROVE  MadeOf(p, list, Len(p[list]), OpsFor(p, list))
<1> DEFINE N == Len(p[list])
           ops == OpsUpTo(p, list)
           S == {n \in Nat : n <= N => MadeOf(p, list, n, ops[n])}
<1>0. N \in Nat /\ DOMAIN p[list] = 1..N
  BY PodHasLists
<1>1. ops = [n \in 0..N |-> IF n = 0 THEN <<>>
                            ELSE IF HasEnv(p[list][n], JobVar) THEN ops[n - 1]
                            ELSE Append(ops[n - 1], AddOp(p, list, n))]
  BY LoopIsDefined
<1> HIDE DEF ops
<1>2. 0 \in S
  <2>1. ops[0] = <<>>
    BY <1>0, <1>1
  <2>2. MadeOf(p, list, 0, <<>>)
    BY DEF MadeOf, OneEach
  <2> QED BY <2>1, <2>2
<1>3. ASSUME NEW n \in S PROVE n + 1 \in S
  <2> SUFFICES ASSUME n + 1 <= N PROVE MadeOf(p, list, n + 1, ops[n + 1])
    OBVIOUS
  <2>1. n \in Nat /\ n <= N /\ n + 1 \in 0..N /\ n + 1 # 0 /\ (n + 1) - 1 = n
    BY <1>0
  <2>2. MadeOf(p, list, n, ops[n])
    BY <2>1
  <2>3. n + 1 \in DOMAIN p[list]
    BY <1>0, <2>1
  <2>4. ops[n + 1] = IF HasEnv(p[list][n + 1], JobVar) THEN ops[n]
                     ELSE Append(ops[n], AddOp(p, list, n + 1))
    BY <1>1, <2>1
  <2> QED BY <2>1, <2>2, <2>3, <2>4, OneTurn
<1>4. S = Nat
  <2> HIDE DEF S
  <2>1. S \in SUBSET Nat
    BY DEF S
  <2> QED BY <1>2, <1>3, <2>1, Induction
<1>5. MadeOf(p, list, N, ops[N])
  BY <1>0, <1>4
<1> QED BY <1>5 DEF OpsFor, ops

LEMMA PatchOf ==
  ASSUME NEW p \in Pods
  PROVE  /\ CreatePatches(p) \in Seq(Ops)
         /\ p.jobid = NoJobId => CreatePatches(p) = <<>>
         /\ \A k \in DOMAIN CreatePatches(p) : OpOf(p, CreatePatches(p)[k])
         /\ OneEach(CreatePatches(p))
         /\ p.jobid # NoJobId =>
              \A list \in Lists : \A i \in DOMAIN p[list] :
                HasEnv(p[list][i], JobVar) \/ OpAt(CreatePatches(p), list, i)
<1>1. CASE p.jobid = NoJobId
  <2>1. CreatePatches(p) = <<>>
    BY <1>1 DEF CreatePatches
  <2> QED BY <1>1, <2>1 DEF OneEach
<1>2. CASE p.jobid # NoJobId
  <2> DEFINE a == OpsFor(p, "containers")
             b == OpsFor(p, "initContainers")
             all == a \o b
  <2>1. /\ MadeOf(p, "containers", Len(p.containers), a)
        /\ MadeOf(p, "initContainers", Len(p.initContainers), b)
    <3>1. \A list \in Lists : MadeOf(p, list, Len(p[list]), OpsFor(p, list))
      BY <1>2, OpsForMakes
    <3> QED BY <3>1 DEF Lists
  <2>2. CreatePatches(p) = all
    BY <1>2 DEF CreatePatches
  <2>3. /\ a \in Seq(Ops) /\ b \in Seq(Ops) /\ Len(a) \in Nat /\ Len(b) \in Nat
        /\ DOMAIN a = 1..Len(a) /\ DOMAIN b = 1..Len(b)
    BY <2>1 DEF MadeOf
  <2> HIDE DEF a, b
  <2>4. /\ all \in Seq(Ops) /\ DOMAIN all = 1..(Len(a) + Len(b))
        /\ \A k \in DOMAIN a : all[k] = a[k] /\ k \in DOMAIN all
        /\ \A k \in DOMAIN b : all[k + Len(a)] = b[k] /\ k + Len(a) \in DOMAIN all
    BY <2>3
  <2>5. \A k \in DOMAIN all : k \in DOMAIN a \/ (k - Len(a) \in DOMAIN b /\ all[k] = b[k - Len(a)])
    BY <2>3
  <2> HIDE DEF all
  <2>6. /\ \A k \in DOMAIN a : OpOf(p, a[k]) /\ a[k].list = "containers"
        /\ \A k \in DOMAIN b : OpOf(p, b[k]) /\ b[k].list = "initContainers"
    BY <2>1 DEF MadeOf
  <2>7. \A k \in DOMAIN all : OpOf(p, all[k])
    BY <2>4, <2>5, <2>6
  <2>8. OneEach(all)
    <3> SUFFICES ASSUME NEW j \in DOMAIN all, NEW k \in DOMAIN all,
                        all[j].list = all[k].list, all[j].i = all[k].i
                 PROVE  j = k
      BY DEF OneEach
    <3>1. CASE j \in DOMAIN a /\ k \in DOMAIN a
      BY <2>1, <2>4, <3>1 DEF MadeOf, OneEach
    <3>2. CASE j \notin DOMAIN a /\ k \notin DOMAIN a
      <4>1. /\ j - Len(a) \in DOMAIN b /\ all[j] = b[j - Len(a)]
            /\ k - Len(a) \in DOMAIN b /\ all[k] = b[k - Len(a)]
        BY <2>5, <3>2
      <4>2. j - Len(a) = k - Len(a)
        BY <2>1, <4>1 DEF MadeOf, OneEach
      <4> QED BY <2>3, <2>4, <4>2
    <3>3. CASE j \in DOMAIN a /\ k \notin DOMAIN a
      BY <2>4, <2>5, <2>6, <3>3
    <3>4. CASE j \notin DOMAIN a /\ k \in DOMAIN a
      BY <2>4, <2>5, <2>6, <3>4
    <3> QED BY <3>1, <3>2, <3>3, <3>4
  <2>9. \A list \in Lists : \A i \in DOMAIN p[list] :
          HasEnv(p[list][i], JobVar) \/ OpAt(all, list, i)
    <3> SUFFICES ASSUME NEW list \in Lists, NEW i \in DOMAIN p[list],
                        ~HasEnv(p[list][i], JobVar)
                 PROVE  OpAt(all, list, i)
      OBVIOUS
    <3>0. i \in 1..Len(p[list])
      BY PodHasLists
    <3>1. CASE list = "containers"
      <4>1. PICK k \in DOMAIN a : a[k].list = list /\ a[k].i = i
        BY <2>1, <3>0, <3>1 DEF MadeOf, OpAt
      <4> QED BY <2>4, <4>1 DEF OpAt
    <3>2. CASE list = "initContainers"
      <4>1. PICK k \in DOMAIN b : b[k].list = list /\ b[k].i = i
        BY <2>1, <3>0, <3>2 DEF MadeOf, OpAt
      <4>2. k + Len(a) \in DOMAIN all /\ all[k + Len(a)] = b[k]
        BY <2>4
      <4> QED BY <4>1, <4>2 DEF OpAt
    <3> QED BY <3>1, <3>2 DEF Lists
  <2> QED BY <1>2, <2>2, <2>4, <2>7, <2>8, <2>9
<1> QED BY <1>1, <1>2

-----------------------------------------------------------------------------
(***************************************************************************)
(* The inductive invariant.                                                *)
(***************************************************************************)
\* While the answer is applied, a container is as it was sent if there is an
\* operation for it to come, and as it is to be if there is none.
InProgress ==
  /\ sent \in Pods
  /\ \A list \in Lists : DOMAIN pod[list] = DOMAIN sent[list]
  /\ \A k \in DOMAIN patch :
       OpOf(sent, patch[k]) /\ pod[patch[k].list][patch[k].i] = sent[patch[k].list][patch[k].i]
  /\ OneEach(patch)
  /\ \A list \in Lists : \A i \in DOMAIN sent[list] :
       OpAt(patch, list, i) \/ pod[list][i] = Wanted(sent, list, i)
  /\ patch # <<>> => sent.jobid # NoJobId

\* An environment with others' variables behind it.
Continues(wanted, envs) ==
  /\ IsPrefix(wanted, envs)
  /\ \A k \in DOMAIN envs \ DOMAIN wanted : envs[k].name # JobVar

\* After the answer every container that was sent stays as it is to be.
Answered ==
  \A list \in Lists : \A i \in DOMAIN sent[list] :
    i \in DOMAIN pod[list] /\ Continues(Wanted(sent, list, i), pod[list][i])

TypeInv == TypeOK /\ patch \in Seq(Ops)

StageInv ==
  /\ stage # "refused"
  /\ stage # "patching" => patch = <<>>
  /\ stage = "before" => sent = None
  /\ stage = "patching" => InProgress
  /\ stage = "after" /\ sent # None => Answered

WebInv == TypeInv /\ StageInv

-----------------------------------------------------------------------------
(***************************************************************************)
(* What is wanted of an environment.                                       *)
(***************************************************************************)
LEMMA JobEnvIsEnv ==
  ASSUME NEW p \in Pods, p.jobid # NoJobId
  PROVE  JobEnv(p) \in EnvVars /\ JobEnv(p).name = JobVar
BY ConstantsAssumption DEF JobEnv, EnvVars, Pods

LEMMA WantedIs ==
  ASSUME NEW p \in Pods, NEW list \in Lists, NEW i \in DOMAIN p[list]
  PROVE  /\ Wanted(p, list, i) \in Envs
         /\ p.jobid = NoJobId \/ HasEnv(p[list][i], JobVar)
              => Wanted(p, list, i) = p[list][i]
         /\ p.jobid # NoJobId /\ ~HasEnv(p[list][i], JobVar)
              => Wanted(p, list, i) = Append(p[list][i], JobEnv(p))
<1>1. p[list][i] \in Envs
  BY PodHasLists
<1>2. (\E e \in Range(p[list][i]) : e.name = JobVar) <=> HasEnv(p[list][i], JobVar)
  BY DEF Range, HasEnv
<1>3. CASE p.jobid = NoJobId \/ HasEnv(p[list][i], JobVar)
  BY <1>1, <1>2, <1>3 DEF Wanted
<1>4. CASE p.jobid # NoJobId /\ ~HasEnv(p[list][i], JobVar)
  <2>1. JobEnv(p) \in EnvVars
    BY <1>4, JobEnvIsEnv
  <2>2. Wanted(p, list, i) = p[list][i] \o <<JobEnv(p)>>
    BY <1>2, <1>4 DEF Wanted
  <2>3. p[list][i] \o <<JobEnv(p)>> = Append(p[list][i], JobEnv(p))
    BY <1>1, <2>1 DEF Envs
  <2>4. Append(p[list][i], JobEnv(p)) \in Envs
    BY <1>1, <2>1 DEF Envs
  <2> QED BY <1>4, <2>2, <2>3, <2>4
<1> QED BY <1>3, <1>4

\* With a job id, what is wanted names the job.
LEMMA WantedNames ==
  ASSUME NEW p \in Pods, NEW list \in Lists, NEW i \in DOMAIN p[list], p.jobid # NoJobId
  PROVE  HasEnv(Wanted(p, list, i), JobVar)
<1>1. CASE HasEnv(p[list][i], JobVar)
  BY <1>1, WantedIs
<1>2. CASE ~HasEnv(p[list][i], JobVar)
  <2>1. p[list][i] \in Seq(EnvVars)
    BY PodHasLists DEF Envs
  <2>2. JobEnv(p) \in EnvVars /\ JobEnv(p).name = JobVar
    BY JobEnvIsEnv
  <2>3. Wanted(p, list, i) = Append(p[list][i], JobEnv(p))
    BY <1>2, WantedIs
  <2> DEFINE w == Append(p[list][i], JobEnv(p))
             last == Len(p[list][i]) + 1
  <2>4. last \in DOMAIN w /\ w[last] = JobEnv(p)
    BY <2>1, <2>2
  <2> QED BY <2>2, <2>3, <2>4 DEF HasEnv
<1> QED BY <1>1, <1>2

LEMMA PrefixOfItself ==
  ASSUME NEW envs \in Envs
  PROVE  IsPrefix(envs, envs) /\ Continues(envs, envs)
BY PrefixIsPointwise DEF Envs, Continues

LEMMA PrefixOfAppend ==
  ASSUME NEW envs \in Envs, NEW e \in EnvVars
  PROVE  Append(envs, e) \in Envs /\ IsPrefix(envs, Append(envs, e))
<1>1. Append(envs, e) \in Envs /\ Len(envs) \in Nat /\ Len(Append(envs, e)) = Len(envs) + 1
  BY DEF Envs
<1>2. \A k \in 1..Len(envs) : envs[k] = Append(envs, e)[k]
  BY DEF Envs
<1> DEFINE more == Append(envs, e)
<1> HIDE DEF more
<1>3. IsPrefix(envs, more)
  <2>1. Len(envs) <= Len(more) /\ \A k \in 1..Len(envs) : envs[k] = more[k]
    BY <1>1, <1>2 DEF more
  <2>2. envs \in Seq(EnvVars) /\ more \in Seq(EnvVars)
    BY <1>1 DEF Envs, more
  <2> QED BY <2>1, <2>2, PrefixIsPointwise
<1> QED BY <1>1, <1>3 DEF more

LEMMA ContinuesAppend ==
  ASSUME NEW w \in Envs, NEW envs \in Envs, NEW e \in EnvVars,
         Continues(w, envs), e.name # JobVar
  PROVE  Continues(w, Append(envs, e))
<1> DEFINE more == Append(envs, e)
<1>1. /\ more \in Envs /\ Len(envs) \in Nat /\ Len(w) \in Nat /\ Len(more) = Len(envs) + 1
      /\ DOMAIN envs = 1..Len(envs) /\ DOMAIN w = 1..Len(w) /\ DOMAIN more = 1..Len(more)
  BY DEF Envs
<1>2. (\A k \in 1..Len(envs) : more[k] = envs[k]) /\ more[Len(envs) + 1] = e
  BY DEF Envs
<1> HIDE DEF more
<1>3. Len(w) <= Len(envs) /\ \A k \in 1..Len(w) : w[k] = envs[k]
  BY PrefixIsPointwise DEF Continues, Envs
<1>4. IsPrefix(w, more)
  <2>1. Len(w) <= Len(more) /\ \A k \in 1..Len(w) : w[k] = more[k]
    BY <1>1, <1>2, <1>3
  <2> QED BY <1>1, <2>1, PrefixIsPointwise DEF Envs
<1>5. \A k \in DOMAIN more \ DOMAIN w : more[k].name # JobVar
  <2> TAKE k \in DOMAIN more \ DOMAIN w
  <2>1. k \in DOMAIN envs \ DOMAIN w \/ k = Len(envs) + 1
    BY <1>1
  <2> QED BY <1>1, <1>2, <2>1 DEF Continues
<1> QED BY <1>4, <1>5 DEF Continues, more

\* An environment that continues another has its entries of the variable.
LEMMA ContinuesJobEntries ==
  ASSUME NEW w \in Envs, NEW envs \in Envs, Continues(w, envs)
  PROVE  JobEntries(envs) = JobEntries(w)
<1>1. /\ Len(envs) \in Nat /\ Len(w) \in Nat
      /\ DOMAIN envs = 1..Len(envs) /\ DOMAIN w = 1..Len(w)
  BY DEF Envs
<1>2. Len(w) <= Len(envs) /\ \A k \in 1..Len(w) : w[k] = envs[k]
  BY PrefixIsPointwise DEF Continues, Envs
<1>3. {k \in DOMAIN envs : envs[k].name = JobVar} = {k \in DOMAIN w : w[k].name = JobVar}
  BY <1>1, <1>2 DEF Continues
<1>4. \A k \in {k \in DOMAIN w : w[k].name = JobVar} : envs[k] = w[k]
  BY <1>1, <1>2
<1> QED BY <1>3, <1>4 DEF JobEntries

LEMMA ContinuesHasEnv ==
  ASSUME NEW w \in Envs, NEW envs \in Envs, Continues(w, envs), HasEnv(w, JobVar)
  PROVE  HasEnv(envs, JobVar)
<1>1. /\ Len(envs) \in Nat /\ Len(w) \in Nat
      /\ DOMAIN envs = 1..Len(envs) /\ DOMAIN w = 1..Len(w)
  BY DEF Envs
<1>2. Len(w) <= Len(envs) /\ \A k \in 1..Len(w) : w[k] = envs[k]
  BY PrefixIsPointwise DEF Continues, Envs
<1> QED BY <1>1, <1>2 DEF HasEnv

-----------------------------------------------------------------------------
(***************************************************************************)
(* What a step does to the pod.                                            *)
(***************************************************************************)
LEMMA PodIsTyped ==
  ASSUME NEW p \in Pods
  PROVE  \A list \in Lists : \A i \in DOMAIN p[list] : \A k \in DOMAIN p[list][i] :
           DOMAIN p[list][i][k] = {"name", "value"}
<1> SUFFICES ASSUME NEW list \in Lists, NEW i \in DOMAIN p[list], NEW k \in DOMAIN p[list][i]
             PROVE  DOMAIN p[list][i][k] = {"name", "value"}
  OBVIOUS
<1>1. p[list][i] \in Seq(EnvVars)
  BY PodHasLists DEF Envs
<1>2. p[list][i][k] \in EnvVars
  BY <1>1
<1> QED BY <1>2 DEF EnvVars

\* One environment of a pod becomes another.
WithEnv(p, list, i, envs) == [p EXCEPT ![list][i] = envs]

LEMMA OneEnvironment ==
  ASSUME NEW p \in Pods, NEW list \in Lists, NEW i \in DOMAIN p[list], NEW envs \in Envs
  PROVE  LET q == WithEnv(p, list, i, envs) IN
         /\ q \in Pods /\ q.jobid = p.jobid
         /\ \A l \in Lists : DOMAIN q[l] = DOMAIN p[l]
         /\ q[list][i] = envs
         /\ \A l \in Lists : \A j \in DOMAIN p[l] :
              ~(l = list /\ j = i) => q[l][j] = p[l][j]
<1> DEFINE s == [p[list] EXCEPT ![i] = envs]
           q == WithEnv(p, list, i, envs)
<1>1. p[list] \in Seq(Envs)
  BY PodHasLists
<1>2. s \in Seq(Envs) /\ DOMAIN s = DOMAIN p[list]
  BY <1>1
<1>3. s[i] = envs /\ \A j \in DOMAIN p[list] : j # i => s[j] = p[list][j]
  OBVIOUS
<1>4. q = [p EXCEPT ![list] = s]
  BY DEF WithEnv
<1> HIDE DEF s, q
<1>5. /\ q \in Pods /\ q.jobid = p.jobid /\ q[list] = s
      /\ \A other \in Lists : other # list => q[other] = p[other]
  BY <1>2, <1>4 DEF Pods, Lists, Envs
<1>6. \A l \in Lists : DOMAIN q[l] = DOMAIN p[l]
  BY <1>2, <1>5
<1>7. \A l \in Lists : \A j \in DOMAIN p[l] : ~(l = list /\ j = i) => q[l][j] = p[l][j]
  BY <1>3, <1>5
<1> QED BY <1>3, <1>5, <1>6, <1>7 DEF q

LEMMA OtherWebhookAdds ==
  ASSUME pod \in Pods, OtherWebhook
  PROVE  /\ pod' \in Pods
         /\ \A list \in Lists : \A i \in DOMAIN pod[list] :
              /\ i \in DOMAIN pod'[list]
              /\ \/ pod'[list][i] = pod[list][i]
                 \/ \E e \in EnvVars : /\ e.name # JobVar
                                       /\ pod'[list][i] = Append(pod[list][i], e)
<1>1. PICK list \in Lists, e \in Foreign :
        \/ pod' = [pod EXCEPT ![list] = Append(pod[list], <<e>>)]
        \/ \E i \in DOMAIN pod[list] :
             pod' = [pod EXCEPT ![list][i] = Append(pod[list][i], e)]
  BY DEF OtherWebhook
<1>2. e \in EnvVars /\ e.name # JobVar
  BY ConstantsAssumption
<1>3. CASE pod' = [pod EXCEPT ![list] = Append(pod[list], <<e>>)]
  <2> DEFINE s == Append(pod[list], <<e>>)
  <2>1. pod[list] \in Seq(Envs)
    BY PodHasLists
  <2>2. <<e>> \in Envs
    BY <1>2 DEF Envs
  <2>3. s \in Seq(Envs) /\ \A i \in DOMAIN pod[list] : i \in DOMAIN s /\ s[i] = pod[list][i]
    BY <2>1, <2>2
  <2>4. pod' = [pod EXCEPT ![list] = s]
    BY <1>3
  <2> HIDE DEF s
  <2>5. pod' \in Pods /\ pod'[list] = s
        /\ \A other \in Lists : other # list => pod'[other] = pod[other]
    BY <2>3, <2>4 DEF Pods, Lists, Envs
  <2>6. \A l \in Lists : \A i \in DOMAIN pod[l] :
          i \in DOMAIN pod'[l] /\ pod'[l][i] = pod[l][i]
    BY <2>3, <2>5
  <2> QED BY <2>5, <2>6
<1>4. ASSUME NEW i \in DOMAIN pod[list],
             pod' = [pod EXCEPT ![list][i] = Append(pod[list][i], e)]
      PROVE  /\ pod' \in Pods
             /\ \A l \in Lists : \A j \in DOMAIN pod[l] :
                  /\ j \in DOMAIN pod'[l]
                  /\ \/ pod'[l][j] = pod[l][j]
                     \/ \E f \in EnvVars : /\ f.name # JobVar
                                           /\ pod'[l][j] = Append(pod[l][j], f)
  <2> DEFINE envs == Append(pod[list][i], e)
  <2>1. envs \in Envs
    BY <1>2, PodHasLists, PrefixOfAppend
  <2>2. pod' = [pod EXCEPT ![list][i] = envs]
    BY <1>4
  <2> HIDE DEF envs
  <2>3. /\ pod' \in Pods
        /\ \A l \in Lists : DOMAIN pod'[l] = DOMAIN pod[l]
        /\ pod'[list][i] = envs
        /\ \A l \in Lists : \A j \in DOMAIN pod[l] :
             ~(l = list /\ j = i) => pod'[l][j] = pod[l][j]
    <3> DEFINE q == WithEnv(pod, list, i, envs)
    <3>1. /\ q \in Pods
          /\ \A l \in Lists : DOMAIN q[l] = DOMAIN pod[l]
          /\ q[list][i] = envs
          /\ \A l \in Lists : \A j \in DOMAIN pod[l] :
               ~(l = list /\ j = i) => q[l][j] = pod[l][j]
      BY <2>1, OneEnvironment
    <3>2. pod' = q
      BY <2>2 DEF WithEnv
    <3> QED BY <3>1, <3>2
  <2> SUFFICES ASSUME NEW l \in Lists, NEW j \in DOMAIN pod[l]
               PROVE  \/ pod'[l][j] = pod[l][j]
                      \/ \E f \in EnvVars : /\ f.name # JobVar
                                            /\ pod'[l][j] = Append(pod[l][j], f)
    BY <2>3
  <2> QED BY <1>2, <2>3 DEF envs
<1> QED BY <1>1, <1>3, <1>4

\* An operation of the answer can be applied, and makes what is wanted.
LEMMA ApplyMakesWanted ==
  ASSUME WebInv, ApplyOp
  PROVE  LET op == Head(patch) IN
         /\ op.list \in Lists /\ op.i \in DOMAIN pod[op.list]
         /\ pod' = WithEnv(pod, op.list, op.i, Wanted(sent, op.list, op.i))
         /\ IsPrefix(pod[op.list][op.i], Wanted(sent, op.list, op.i))
         /\ patch' = Tail(patch) /\ stage' = stage
<1> DEFINE op == Head(patch)
           l == op.list
           i == op.i
<1>1. InProgress /\ patch # <<>> /\ patch \in Seq(Ops) /\ pod \in Pods
  BY DEF WebInv, StageInv, TypeInv, TypeOK, ApplyOp
<1>2. 1 \in DOMAIN patch /\ op = patch[1]
  BY <1>1
<1>3. /\ sent \in Pods /\ sent.jobid # NoJobId
      /\ OpOf(sent, op) /\ pod[l][i] = sent[l][i]
      /\ \A list \in Lists : DOMAIN pod[list] = DOMAIN sent[list]
  BY <1>1, <1>2 DEF InProgress
<1> HIDE DEF op
<1>4. /\ l \in Lists /\ i \in DOMAIN sent[l] /\ i \in DOMAIN pod[l]
      /\ ~HasEnv(sent[l][i], JobVar) /\ op = AddOp(sent, l, i)
  BY <1>3 DEF OpOf
<1> DEFINE envs == sent[l][i]
<1>5. envs \in Envs /\ JobEnv(sent) \in EnvVars
  BY <1>3, <1>4, PodHasLists, JobEnvIsEnv
<1>6. Wanted(sent, l, i) = Append(envs, JobEnv(sent))
  BY <1>3, <1>4, WantedIs
<1>7. CASE envs = <<>>
  <2>1. op.at = "env" /\ op.value = <<JobEnv(sent)>>
    BY <1>4, <1>7 DEF AddOp
  <2>2. Append(envs, JobEnv(sent)) = <<JobEnv(sent)>>
    BY <1>7
  <2>3. Applicable(op)
    BY <1>4, <2>1 DEF Applicable
  <2>4. pod' = [pod EXCEPT ![l][i] = Wanted(sent, l, i)]
        /\ patch' = Tail(patch) /\ stage' = stage
    BY <1>6, <2>1, <2>2, <2>3 DEF ApplyOp, op
  <2> QED BY <1>3, <1>4, <1>5, <1>6, <2>4, PrefixOfAppend DEF op, WithEnv
<1>8. CASE envs # <<>>
  <2>1. op.at = "end" /\ op.value = JobEnv(sent)
    BY <1>4, <1>8 DEF AddOp
  <2>2. Applicable(op)
    BY <1>3, <1>4, <1>8 DEF Applicable
  <2>3. pod' = [pod EXCEPT ![l][i] = Append(pod[l][i], JobEnv(sent))]
        /\ patch' = Tail(patch) /\ stage' = stage
    BY <2>1, <2>2 DEF ApplyOp, op
  <2> QED BY <1>3, <1>4, <1>5, <1>6, <2>3, PrefixOfAppend DEF op, WithEnv
<1> QED BY <1>7, <1>8

-----------------------------------------------------------------------------
(***************************************************************************)
(* The invariant is inductive.                                             *)
(***************************************************************************)
LEMMA WebInvInit == Init => WebInv
<1> SUFFICES ASSUME Init PROVE WebInv
  OBVIOUS
<1>1. pod \in Pods
  BY ConstantsAssumption DEF Init
<1>2. TypeInv
  BY <1>1, PodIsTyped DEF Init, TypeInv, TypeOK
<1>3. StageInv
  BY DEF Init, StageInv
<1> QED BY <1>2, <1>3 DEF WebInv

\* The types follow when the pod, what was sent and the answer have theirs.
LEMMA TypeStep ==
  ASSUME TypeInv, pod' \in Pods, sent' \in Pods \cup {None}, patch' \in Seq(Ops),
         stage' \in {"before", "patching", "after", "refused"},
         changes' \in Nat, submits' \in Nat
  PROVE  TypeInv'
BY PodIsTyped DEF TypeInv, TypeOK

LEMMA HandleMutateStep ==
  ASSUME WebInv, HandleMutate
  PROVE  WebInv'
<1>1. pod \in Pods /\ TypeInv /\ changes \in Nat /\ submits \in Nat
  BY DEF WebInv, TypeInv, TypeOK
<1>2. /\ pod' = pod /\ sent' = pod /\ patch' = CreatePatches(pod) /\ stage' = "patching"
      /\ changes' = changes /\ submits' = submits
  BY DEF HandleMutate
<1>3. TypeInv'
  BY <1>1, <1>2, PatchOf, TypeStep
<1>4. InProgress'
  <2> DEFINE ops == CreatePatches(pod)
  <2>1. /\ pod.jobid = NoJobId => ops = <<>>
        /\ \A k \in DOMAIN ops : OpOf(pod, ops[k])
        /\ OneEach(ops)
        /\ pod.jobid # NoJobId =>
             \A list \in Lists : \A i \in DOMAIN pod[list] :
               HasEnv(pod[list][i], JobVar) \/ OpAt(ops, list, i)
    BY <1>1, PatchOf
  <2> HIDE DEF ops
  <2>2. \A list \in Lists : \A i \in DOMAIN pod[list] :
          OpAt(ops, list, i) \/ pod[list][i] = Wanted(pod, list, i)
    BY <1>1, <2>1, WantedIs
  <2> QED BY <1>1, <1>2, <2>1, <2>2 DEF InProgress, ops
<1>5. StageInv'
  BY <1>2, <1>4 DEF StageInv
<1> QED BY <1>3, <1>5 DEF WebInv

LEMMA CallFailsStep ==
  ASSUME WebInv, CallFails
  PROVE  WebInv'
<1>1. TypeInv'
  BY TypeStep DEF WebInv, TypeInv, TypeOK, CallFails
<1>2. StageInv'
  BY DEF WebInv, StageInv, CallFails
<1> QED BY <1>1, <1>2 DEF WebInv

LEMMA ApplyOpStep ==
  ASSUME WebInv, ApplyOp
  PROVE  WebInv'
<1> DEFINE op == Head(patch)
           l == op.list
           i == op.i
           w == Wanted(sent, l, i)
<1>1. /\ InProgress /\ patch # <<>> /\ patch \in Seq(Ops) /\ pod \in Pods /\ TypeInv
      /\ stage = "patching" /\ sent' = sent /\ changes' = changes /\ submits' = submits
      /\ changes \in Nat /\ submits \in Nat
  BY DEF WebInv, StageInv, TypeInv, TypeOK, ApplyOp
<1>2. /\ l \in Lists /\ i \in DOMAIN pod[l]
      /\ pod' = WithEnv(pod, l, i, w) /\ patch' = Tail(patch) /\ stage' = stage
  BY ApplyMakesWanted
<1>3. /\ op = patch[1] /\ Len(patch) \in Nat /\ DOMAIN patch = 1..Len(patch)
      /\ 1 \in DOMAIN patch
      /\ Tail(patch) \in Seq(Ops)
      /\ \A k \in DOMAIN Tail(patch) :
           k + 1 \in DOMAIN patch /\ k + 1 # 1 /\ Tail(patch)[k] = patch[k + 1]
      /\ \A k \in DOMAIN patch : k # 1 => k - 1 \in DOMAIN Tail(patch) /\ Tail(patch)[k - 1] = patch[k]
      /\ \A j, k \in DOMAIN Tail(patch) : j + 1 = k + 1 => j = k
  BY <1>1
<1>4. sent \in Pods /\ \A list \in Lists : DOMAIN pod[list] = DOMAIN sent[list]
  BY <1>1 DEF InProgress
<1>5. w \in Envs
  BY <1>2, <1>4, WantedIs
<1> HIDE DEF op, w
<1> DEFINE rest == Tail(patch)
<1> HIDE DEF rest
<1>6. /\ pod' \in Pods /\ pod'[l][i] = w
      /\ \A list \in Lists : DOMAIN pod'[list] = DOMAIN pod[list]
      /\ \A list \in Lists : \A j \in DOMAIN pod[list] :
           ~(list = l /\ j = i) => pod'[list][j] = pod[list][j]
  <2> DEFINE q == WithEnv(pod, l, i, w)
  <2>1. /\ q \in Pods /\ q[l][i] = w
        /\ \A list \in Lists : DOMAIN q[list] = DOMAIN pod[list]
        /\ \A list \in Lists : \A j \in DOMAIN pod[list] :
             ~(list = l /\ j = i) => q[list][j] = pod[list][j]
    BY <1>1, <1>2, <1>5, OneEnvironment
  <2> QED BY <1>2, <2>1
<1>7. TypeInv'
  BY <1>1, <1>2, <1>3, <1>4, <1>6, TypeStep
<1>8. InProgress'
  <2>1. \A k \in DOMAIN rest : ~(rest[k].list = l /\ rest[k].i = i)
    BY <1>1, <1>3 DEF InProgress, OneEach, rest
  <2>2. \A k \in DOMAIN rest :
          /\ OpOf(sent, rest[k])
          /\ pod'[rest[k].list][rest[k].i] = sent[rest[k].list][rest[k].i]
    <3> TAKE k \in DOMAIN rest
    <3>1. /\ OpOf(sent, rest[k])
          /\ pod[rest[k].list][rest[k].i] = sent[rest[k].list][rest[k].i]
      BY <1>1, <1>3 DEF InProgress, rest
    <3>2. rest[k].list \in Lists /\ rest[k].i \in DOMAIN pod[rest[k].list]
      BY <1>4, <3>1 DEF OpOf
    <3> QED BY <1>6, <2>1, <3>1, <3>2
  <2>3. OneEach(rest)
    BY <1>1, <1>3 DEF InProgress, OneEach, rest
  <2>4. \A list \in Lists : \A j \in DOMAIN sent[list] :
          OpAt(rest, list, j) \/ pod'[list][j] = Wanted(sent, list, j)
    <3> SUFFICES ASSUME NEW list \in Lists, NEW j \in DOMAIN sent[list],
                        ~OpAt(rest, list, j)
                 PROVE  pod'[list][j] = Wanted(sent, list, j)
      OBVIOUS
    <3>1. CASE list = l /\ j = i
      BY <1>6, <3>1 DEF w
    <3>2. CASE ~(list = l /\ j = i)
      <4>1. ~OpAt(patch, list, j)
        <5> SUFFICES ASSUME NEW k \in DOMAIN patch, patch[k].list = list, patch[k].i = j
                     PROVE  FALSE
          BY DEF OpAt
        <5>1. k # 1
          BY <1>3, <3>2
        <5>2. k - 1 \in DOMAIN rest /\ rest[k - 1] = patch[k]
          BY <1>3, <5>1 DEF rest
        <5> QED BY <5>2 DEF OpAt
      <4>2. pod[list][j] = Wanted(sent, list, j)
        BY <1>1, <4>1 DEF InProgress
      <4> QED BY <1>4, <1>6, <3>2, <4>2
    <3> QED BY <3>1, <3>2
  <2>5. sent.jobid # NoJobId
    BY <1>1 DEF InProgress
  <2>6. patch' = rest
    BY <1>2 DEF rest
  <2>7. \A list \in Lists : DOMAIN pod'[list] = DOMAIN sent[list]
    BY <1>4, <1>6
  <2>8. \A list, j : Wanted(sent, list, j)' = Wanted(sent, list, j)
    BY <1>1 DEF Wanted, JobEnv
  <2> QED BY <1>1, <1>4, <2>2, <2>3, <2>4, <2>5, <2>6, <2>7, <2>8 DEF InProgress
<1>9. StageInv'
  BY <1>1, <1>2, <1>8 DEF StageInv
<1> QED BY <1>7, <1>9 DEF WebInv

LEMMA PatchedStep ==
  ASSUME WebInv, Patched
  PROVE  WebInv'
<1>1. /\ InProgress /\ patch = <<>> /\ TypeInv
      /\ UNCHANGED <<pod, sent, patch, changes, submits>> /\ stage' = "after"
  BY DEF WebInv, StageInv, Patched
<1>2. TypeInv'
  BY <1>1, TypeStep DEF TypeInv, TypeOK
<1>3. Answered
  <2> SUFFICES ASSUME NEW list \in Lists, NEW i \in DOMAIN sent[list]
               PROVE  i \in DOMAIN pod[list] /\ Continues(Wanted(sent, list, i), pod[list][i])
    BY DEF Answered
  <2>1. sent \in Pods /\ i \in DOMAIN pod[list]
    BY <1>1 DEF InProgress
  <2>2. ~OpAt(patch, list, i)
    BY <1>1 DEF OpAt
  <2>3. pod[list][i] = Wanted(sent, list, i)
    BY <1>1, <2>2 DEF InProgress
  <2>4. Wanted(sent, list, i) \in Envs
    BY <2>1, WantedIs
  <2> QED BY <2>1, <2>3, <2>4, PrefixOfItself
<1>4. Answered'
  BY <1>1, <1>3 DEF Answered, Wanted, JobEnv
<1>5. StageInv'
  BY <1>1, <1>4 DEF StageInv
<1> QED BY <1>2, <1>5 DEF WebInv

LEMMA OtherWebhookStep ==
  ASSUME WebInv, OtherWebhook
  PROVE  WebInv'
<1>1. /\ pod \in Pods /\ TypeInv /\ StageInv /\ sent \in Pods \cup {None}
      /\ patch \in Seq(Ops) /\ changes \in Nat /\ submits \in Nat
      /\ stage \in {"before", "after"} /\ changes' = changes + 1
      /\ UNCHANGED <<sent, patch, stage, submits>>
  BY DEF WebInv, TypeInv, TypeOK, OtherWebhook
<1>2. /\ pod' \in Pods
      /\ \A list \in Lists : \A i \in DOMAIN pod[list] :
           /\ i \in DOMAIN pod'[list]
           /\ \/ pod'[list][i] = pod[list][i]
              \/ \E e \in EnvVars : /\ e.name # JobVar
                                    /\ pod'[list][i] = Append(pod[list][i], e)
  BY <1>1, OtherWebhookAdds
<1>3. TypeInv'
  BY <1>1, <1>2, TypeStep
<1>4. stage = "after" /\ sent # None => Answered'
  <2> SUFFICES ASSUME stage = "after", sent # None,
                      NEW list \in Lists, NEW i \in DOMAIN sent[list]
               PROVE  i \in DOMAIN pod'[list] /\ Continues(Wanted(sent, list, i), pod'[list][i])
    BY <1>1 DEF Answered, Wanted, JobEnv
  <2>1. i \in DOMAIN pod[list] /\ Continues(Wanted(sent, list, i), pod[list][i])
    BY <1>1 DEF StageInv, Answered
  <2>2. Wanted(sent, list, i) \in Envs /\ pod[list][i] \in Envs
    BY <1>1, <2>1, WantedIs, PodHasLists
  <2>3. CASE pod'[list][i] = pod[list][i]
    BY <1>2, <2>1, <2>3
  <2>4. ASSUME NEW e \in EnvVars, e.name # JobVar, pod'[list][i] = Append(pod[list][i], e)
        PROVE  Continues(Wanted(sent, list, i), pod'[list][i])
    BY <2>1, <2>2, <2>4, ContinuesAppend
  <2> QED BY <1>2, <2>1, <2>3, <2>4
<1>5. StageInv'
  BY <1>1, <1>4 DEF StageInv
<1> QED BY <1>3, <1>5 DEF WebInv

LEMMA ResubmitStep ==
  ASSUME WebInv, NEW id \in JobIds \cup {NoJobId}, Resubmit(id)
  PROVE  WebInv'
<1>1. pod' \in Pods
  BY DEF WebInv, TypeInv, TypeOK, Resubmit, Pods
<1>2. TypeInv'
  BY <1>1, TypeStep DEF WebInv, TypeInv, TypeOK, Resubmit
<1>3. StageInv'
  BY DEF WebInv, StageInv, Resubmit
<1> QED BY <1>2, <1>3 DEF WebInv

LEMMA WebInvStep == WebInv /\ [Next]_vars => WebInv'
<1> SUFFICES ASSUME WebInv, [Next]_vars PROVE WebInv'
  OBVIOUS
<1>1. CASE HandleMutate
  BY <1>1, HandleMutateStep
<1>2. CASE CallFails
  BY <1>2, CallFailsStep
<1>3. CASE ApplyOp
  BY <1>3, ApplyOpStep
<1>4. CASE Patched
  BY <1>4, PatchedStep
<1>5. CASE OtherWebhook
  BY <1>5, OtherWebhookStep
<1>6. CASE \E id \in JobIds \cup {NoJobId} : Resubmit(id)
  BY <1>6, ResubmitStep
<1>7. CASE UNCHANGED vars
  <2>1. UNCHANGED <<pod, sent, patch, stage, changes, submits>>
    BY <1>7 DEF vars
  <2>2. TypeInv'
    BY <2>1 DEF WebInv, TypeInv, TypeOK
  <2>3. StageInv'
    BY <2>1 DEF WebInv, StageInv, InProgress, Answered, Wanted, JobEnv
  <2> QED BY <2>2, <2>3 DEF WebInv
<1> QED BY <1>1, <1>2, <1>3, <1>4, <1>5, <1>6, <1>7 DEF Next

THEOREM WebInvHolds == Spec => []WebInv
<1> QED BY WebInvInit, WebInvStep, PTL DEF Spec

-----------------------------------------------------------------------------
(***************************************************************************)
(* The theorems.                                                           *)
(***************************************************************************)
\* A pod stays a pod, whatever it was and however the answer and others change
\* it: no answer puts a list where a variable is due (webhook.go:64-96).
THEOREM TypesHold == Spec => []TypeOK
<1>1. WebInv => TypeOK
  BY DEF WebInv, TypeInv
<1> QED BY <1>1, WebInvHolds, PTL

\* No pod is refused on account of the webhook: every operation of its answer
\* can be applied after those before it (webhook.go:63-96).
THEOREM PatchesApply == Spec => []PatchApplies
<1>1. WebInv => PatchApplies
  BY DEF WebInv, StageInv, PatchApplies
<1> QED BY <1>1, WebInvHolds, PTL

\* After an answer every container that was sent has the job id, once unless
\* the user set it twice (webhook.go:52-100).
THEOREM ContainersNamed == Spec => []EveryContainerNamed
<1>1. WebInv => EveryContainerNamed
  <2> SUFFICES ASSUME WebInv, stage = "after", sent # None,
                      NEW list \in Lists, NEW i \in DOMAIN sent[list]
               PROVE  /\ IsPrefix(Wanted(sent, list, i), pod[list][i])
                      /\ JobEntries(pod[list][i]) = JobEntries(Wanted(sent, list, i))
    BY DEF EveryContainerNamed
  <2>1. pod \in Pods /\ sent \in Pods
    BY DEF WebInv, TypeInv, TypeOK
  <2>2. i \in DOMAIN pod[list] /\ Continues(Wanted(sent, list, i), pod[list][i])
    BY DEF WebInv, StageInv, Answered
  <2>3. Wanted(sent, list, i) \in Envs /\ pod[list][i] \in Envs
    BY <2>1, <2>2, WantedIs, PodHasLists
  <2> QED BY <2>2, <2>3, ContinuesJobEntries DEF Continues
<1> QED BY <1>1, WebInvHolds, PTL

\* Sent the pod again, the webhook asks for nothing for the containers it has
\* seen (webhook.go:65-67, 83-85).
THEOREM AnswerIsIdempotent == Spec => []Idempotent
<1>1. WebInv => Idempotent
  <2> SUFFICES ASSUME WebInv, stage = "after", sent # None, sent.jobid # NoJobId,
                      NEW k \in DOMAIN CreatePatches(pod),
                      CreatePatches(pod)[k].i \in DOMAIN sent[CreatePatches(pod)[k].list]
               PROVE  FALSE
    BY DEF Idempotent
  <2> DEFINE op == CreatePatches(pod)[k]
             w == Wanted(sent, op.list, op.i)
  <2>1. pod \in Pods /\ sent \in Pods
    BY DEF WebInv, TypeInv, TypeOK
  <2>2. OpOf(pod, op)
    BY <2>1, PatchOf
  <2>3. op.i \in DOMAIN sent[op.list]
    OBVIOUS
  <2> HIDE DEF op
  <2>4. op.list \in Lists /\ op.i \in DOMAIN pod[op.list] /\ ~HasEnv(pod[op.list][op.i], JobVar)
    BY <2>2 DEF OpOf
  <2>5. Continues(w, pod[op.list][op.i])
    BY <2>3, <2>4 DEF WebInv, StageInv, Answered
  <2>6. w \in Envs /\ HasEnv(w, JobVar) /\ pod[op.list][op.i] \in Envs
    BY <2>1, <2>3, <2>4, WantedIs, WantedNames, PodHasLists
  <2> QED BY <2>4, <2>5, <2>6, ContinuesHasEnv
<1> QED BY <1>1, WebInvHolds, PTL

\* No step takes a variable from a container or changes its place
\* (webhook.go:64-74).
THEOREM NothingIsLost == Spec => EnvOnlyGrows
<1> DEFINE Grows == \A list \in Lists : \A i \in DOMAIN pod[list] :
                      IsPrefix(pod[list][i], pod'[list][i])
<1>1. WebInv /\ [Next]_vars => [Grows]_vars
  <2> SUFFICES ASSUME WebInv, Next PROVE Grows
    OBVIOUS
  <2>1. pod \in Pods
    BY DEF WebInv, TypeInv, TypeOK
  <2>2. \A list \in Lists : \A i \in DOMAIN pod[list] :
          pod[list][i] \in Envs /\ IsPrefix(pod[list][i], pod[list][i])
    BY <2>1, PodHasLists, PrefixOfItself
  <2>3. CASE pod' = pod
    BY <2>2, <2>3
  <2>4. CASE ApplyOp
    <3> DEFINE op == Head(patch)
               l == op.list
               j == op.i
               w == Wanted(sent, l, j)
    <3>1. /\ l \in Lists /\ j \in DOMAIN pod[l] /\ pod' = WithEnv(pod, l, j, w)
          /\ IsPrefix(pod[l][j], w)
      BY <2>4, ApplyMakesWanted
    <3>2. sent \in Pods /\ \A list \in Lists : DOMAIN pod[list] = DOMAIN sent[list]
      BY <2>4 DEF WebInv, StageInv, InProgress, ApplyOp
    <3>3. w \in Envs
      BY <3>1, <3>2, WantedIs
    <3> HIDE DEF op, w
    <3> DEFINE q == WithEnv(pod, l, j, w)
    <3>4. /\ q[l][j] = w
          /\ \A list \in Lists : \A i \in DOMAIN pod[list] :
               ~(list = l /\ i = j) => q[list][i] = pod[list][i]
      BY <2>1, <3>1, <3>3, OneEnvironment
    <3> QED BY <2>2, <3>1, <3>4
  <2>5. CASE OtherWebhook
    <3>1. \A list \in Lists : \A i \in DOMAIN pod[list] :
            \/ pod'[list][i] = pod[list][i]
            \/ \E e \in EnvVars : pod'[list][i] = Append(pod[list][i], e)
      BY <2>1, <2>5, OtherWebhookAdds
    <3> QED BY <2>2, <3>1, PrefixOfAppend
  <2>6. ASSUME NEW id \in JobIds \cup {NoJobId}, Resubmit(id) PROVE Grows
    <3>1. \A list \in Lists : pod'[list] = pod[list]
      BY <2>1, <2>6 DEF Resubmit, Pods, Lists
    <3> QED BY <2>2, <3>1
  <2> QED BY <2>3, <2>4, <2>5, <2>6 DEF Next, HandleMutate, CallFails, Patched
<1> QED BY <1>1, WebInvHolds, PTL DEF Spec, EnvOnlyGrows
=============================================================================
