---------------------------- MODULE LocksProofs ----------------------------
(***************************************************************************)
(* Proofs about Locks: for any number of requests, watchers and dials, who *)
(* writes under a mutex is alone, nobody waits for ever, and the mutex of  *)
(* the registry is never left locked.                                      *)
(*                                                                         *)
(* The proofs read off the rest of a program who holds what.  That works   *)
(* because every program keeps the rules of WellFormed: they are proved    *)
(* once for what the programs are put together from, and hold of what is   *)
(* left of a program when they hold of the whole.                          *)
(***************************************************************************)
EXTENDS Locks, SequenceTheorems, TLAPS

Opening == {"announce", "rlock"}
Locking == {"lock", "lockAndDefer"}
Closing == {"unlock", "runlock"}

\* The steps of programs.
Steps == [do : Opening \cup Locking \cup Closing, mu : Mutexes]
           \cup [do : {"send", "join"}, mu : {NoMutex}]

\* No step on mu comes after the i-th one of s.
Clear(s, i, mu) == \A k \in DOMAIN s : i < k => s[k].mu # mu

\* The mutex is not held after the i-th step of s.
Released(s, i, mu) == Clear(s, i, mu) \/ NextStep(s, i, mu, Opening)

\* What the next step on a mutex does, by what the one before did.
Successors ==
  [do \in Opening \cup Locking |->
     CASE do = "announce" -> Locking
       [] do = "rlock"    -> {"runlock"}
       [] OTHER           -> {"unlock"}]

\* Between the i-th step of s and the j-th, and not only there, is one on the
\* mutex of the j-th.
Apart(s, i, j) == \E k \in DOMAIN s : i < k /\ k < j /\ s[k].mu = s[j].mu

\* On each mutex the steps follow each other as its methods ask.
Paired(s) ==
  \A i \in DOMAIN s :
    /\ s[i].do \in Opening \cup Locking =>
         NextStep(s, i, s[i].mu, Successors[s[i].do])
    /\ s[i].do \in Closing => Released(s, i, s[i].mu)

\* Nothing comes between the two steps of a Lock.
Prompt(s) ==
  \A i \in DOMAIN s :
    i > 1 /\ s[i].do \in Locking => s[i-1] = Step("announce", s[i].mu)

\* The mutex of a tailnet is not taken while that of the registry is held, nor
\* is anything broadcast while somebody reads.
Ordered(s) ==
  \A i, j \in DOMAIN s :
    /\ i < j
    /\ \/ s[i].mu = TailnetMu /\ s[j].mu = RegistryMu /\ s[j].do \in Closing
       \/ s[i].do = "send" /\ s[j].do = "runlock"
    => Apart(s, i, j)

\* The registry defers each Unlock.
Deferring(s) == \A i \in DOMAIN s : s[i] # Step("lock", RegistryMu)

\* The rules of the rest of a program.
WellFormed(s) ==
  /\ s \in Seq(Steps)
  /\ Paired(s) /\ Prompt(s) /\ Ordered(s) /\ Deferring(s)

\* A whole program, or a part of one that leaves off what it takes up.
Complete(s) == WellFormed(s) /\ \A mu \in Mutexes : Released(s, 0, mu)

-----------------------------------------------------------------------------
(* What comes next, in a program put together from two. *)

\* What comes next is one thing.
LEMMA NextStepUnique ==
  ASSUME NEW s \in Seq(Steps), NEW i \in Nat, NEW mu, NEW D, NEW E,
         NextStep(s, i, mu, D), NextStep(s, i, mu, E)
  PROVE  D \cap E # {}
<1>1. DOMAIN s = 1 .. Len(s)
  OBVIOUS
<1> QED  BY <1>1 DEF NextStep

\* What comes next also does one of more things.
LEMMA NextStepMonotonic ==
  ASSUME NEW s, NEW i, NEW mu, NEW D, NEW E, D \subseteq E, NextStep(s, i, mu, D)
  PROVE  NextStep(s, i, mu, E)
BY DEF NextStep

\* The first of two programs is not changed by the second.
LEMMA NextStepLeft ==
  ASSUME NEW s \in Seq(Steps), NEW t \in Seq(Steps), NEW i \in Nat, NEW mu, NEW D,
         NextStep(s, i, mu, D)
  PROVE  NextStep(s \o t, i, mu, D)
<1>1. PICK k \in 1 .. Len(s) :
        /\ i < k /\ s[k].mu = mu /\ s[k].do \in D
        /\ \A j \in 1 .. Len(s) : i < j /\ j < k => s[j].mu # mu
  BY DEF NextStep
<1>2. /\ DOMAIN (s \o t) = 1 .. Len(s) + Len(t)
      /\ \A j \in 1 .. Len(s) : (s \o t)[j] = s[j]
  OBVIOUS
<1>3. /\ k \in DOMAIN (s \o t)
      /\ \A j \in DOMAIN (s \o t) : i < j /\ j < k => j \in 1 .. Len(s)
  BY <1>2
<1> QED  BY <1>1, <1>2, <1>3 DEF NextStep

\* The second comes after the first.
LEMMA NextStepRight ==
  ASSUME NEW s \in Seq(Steps), NEW t \in Seq(Steps), NEW i \in Nat, NEW mu, NEW D,
         NextStep(t, i, mu, D)
  PROVE  NextStep(s \o t, Len(s) + i, mu, D)
<1> DEFINE n == Len(s)
<1>1. PICK k \in 1 .. Len(t) :
        /\ i < k /\ t[k].mu = mu /\ t[k].do \in D
        /\ \A j \in 1 .. Len(t) : i < j /\ j < k => t[j].mu # mu
  BY DEF NextStep
<1>2. /\ n \in Nat /\ DOMAIN (s \o t) = 1 .. n + Len(t)
      /\ \A j \in 1 .. Len(t) : (s \o t)[n + j] = t[j]
  OBVIOUS
<1>3. /\ n + k \in DOMAIN (s \o t) /\ n + i < n + k
      /\ \A j \in DOMAIN (s \o t) : n + i < j /\ j < n + k =>
           /\ j - n \in 1 .. Len(t) /\ i < j - n /\ j - n < k
           /\ j = n + (j - n)
  BY <1>1, <1>2
<1> HIDE DEF n
<1>4. \A j \in DOMAIN (s \o t) : n + i < j /\ j < n + k => (s \o t)[j].mu # mu
  BY <1>1, <1>2, <1>3
<1>5. NextStep(s \o t, n + i, mu, D)
  BY <1>1, <1>2, <1>3, <1>4 DEF NextStep
<1> QED  BY <1>5 DEF n

\* What the first leaves alone is taken up by the second.
LEMMA NextStepAcross ==
  ASSUME NEW s \in Seq(Steps), NEW t \in Seq(Steps), NEW i \in Nat, NEW mu, NEW D,
         i <= Len(s), Clear(s, i, mu), NextStep(t, 0, mu, D)
  PROVE  NextStep(s \o t, i, mu, D)
<1>1. PICK k \in 1 .. Len(t) :
        /\ t[k].mu = mu /\ t[k].do \in D
        /\ \A j \in 1 .. Len(t) : 0 < j /\ j < k => t[j].mu # mu
  BY DEF NextStep
<1>2. /\ DOMAIN (s \o t) = 1 .. Len(s) + Len(t)
      /\ \A j \in 1 .. Len(s) : (s \o t)[j] = s[j]
      /\ \A j \in DOMAIN (s \o t) : j \notin 1 .. Len(s) =>
           j - Len(s) \in 1 .. Len(t) /\ (s \o t)[j] = t[j - Len(s)]
  OBVIOUS
<1>3. /\ Len(s) + k \in DOMAIN (s \o t) /\ i < Len(s) + k
      /\ (s \o t)[Len(s) + k] = t[k]
  BY <1>1
<1>4. ASSUME NEW j \in DOMAIN (s \o t), i < j, j < Len(s) + k
      PROVE  (s \o t)[j].mu # mu
  <2>1. CASE j \in 1 .. Len(s)
    BY <1>2, <1>4, <2>1 DEF Clear
  <2>2. CASE j \notin 1 .. Len(s)
    <3>1. j - Len(s) \in 1 .. Len(t) /\ 0 < j - Len(s) /\ j - Len(s) < k
      BY <1>2, <1>4, <2>2
    <3> QED  BY <1>1, <1>2, <2>2, <3>1
  <2> QED  BY <2>1, <2>2
<1> QED  BY <1>1, <1>3, <1>4 DEF NextStep

\* What neither touches is not touched.
LEMMA ClearConcat ==
  ASSUME NEW s \in Seq(Steps), NEW t \in Seq(Steps), NEW i \in Nat, NEW mu,
         Clear(s, i, mu), Clear(t, 0, mu)
  PROVE  Clear(s \o t, i, mu)
<1>1. ASSUME NEW j \in DOMAIN (s \o t), i < j
      PROVE  (s \o t)[j].mu # mu
  <2>1. CASE j \in 1 .. Len(s)
    BY <1>1, <2>1 DEF Clear
  <2>2. CASE j \notin 1 .. Len(s)
    <3>1. j - Len(s) \in 1 .. Len(t) /\ 0 < j - Len(s) /\ (s \o t)[j] = t[j - Len(s)]
      BY <1>1, <2>2
    <3> QED  BY <3>1 DEF Clear
  <2> QED  BY <2>1, <2>2
<1> QED  BY <1>1 DEF Clear

\* What the second does not touch is not touched after the first.
LEMMA ClearRight ==
  ASSUME NEW s \in Seq(Steps), NEW t \in Seq(Steps), NEW i \in Nat, NEW mu,
         Clear(t, i, mu)
  PROVE  Clear(s \o t, Len(s) + i, mu)
<1>1. ASSUME NEW j \in DOMAIN (s \o t), Len(s) + i < j
      PROVE  (s \o t)[j].mu # mu
  <2>1. j - Len(s) \in 1 .. Len(t) /\ i < j - Len(s) /\ (s \o t)[j] = t[j - Len(s)]
    BY <1>1
  <2> QED  BY <2>1 DEF Clear
<1> QED  BY <1>1 DEF Clear

\* A mutex that both leave alone or take up anew is not held in between.
LEMMA ReleasedConcat ==
  ASSUME NEW s \in Seq(Steps), NEW t \in Seq(Steps), NEW i \in Nat, NEW mu,
         i <= Len(s), Released(s, i, mu), Released(t, 0, mu)
  PROVE  Released(s \o t, i, mu)
<1>1. CASE NextStep(s, i, mu, Opening)
  BY <1>1, NextStepLeft DEF Released
<1>2. CASE Clear(s, i, mu) /\ NextStep(t, 0, mu, Opening)
  BY <1>2, NextStepAcross DEF Released
<1>3. CASE Clear(s, i, mu) /\ Clear(t, 0, mu)
  BY <1>3, ClearConcat DEF Released
<1> QED  BY <1>1, <1>2, <1>3 DEF Released

-----------------------------------------------------------------------------
(* Programs put together from complete parts are complete. *)

LEMMA PairedConcat ==
  ASSUME NEW s, NEW t, Complete(s), Complete(t)
  PROVE  Paired(s \o t)
<1>0. s \in Seq(Steps) /\ t \in Seq(Steps) /\ Paired(s) /\ Paired(t)
  BY DEF Complete, WellFormed
<1> SUFFICES ASSUME NEW i \in DOMAIN (s \o t)
    PROVE  /\ (s \o t)[i].do \in Opening \cup Locking =>
                NextStep(s \o t, i, (s \o t)[i].mu, Successors[(s \o t)[i].do])
           /\ (s \o t)[i].do \in Closing => Released(s \o t, i, (s \o t)[i].mu)
  BY DEF Paired
<1>1. CASE i \in 1 .. Len(s)
  <2>1. (s \o t)[i] = s[i] /\ i \in Nat /\ i <= Len(s) /\ i \in DOMAIN s
    BY <1>0, <1>1
  <2>2. s[i].do \in Opening \cup Locking =>
          NextStep(s \o t, i, s[i].mu, Successors[s[i].do])
    BY <1>0, <2>1, NextStepLeft DEF Paired
  <2>3. ASSUME s[i].do \in Closing PROVE Released(s \o t, i, s[i].mu)
    <3>1. s[i].mu \in Mutexes
      BY <1>0, <2>1, <2>3 DEF Steps, Closing
    <3>2. Released(s, i, s[i].mu) /\ Released(t, 0, s[i].mu)
      BY <1>0, <2>1, <2>3, <3>1 DEF Paired, Complete
    <3> QED  BY <1>0, <2>1, <3>2, ReleasedConcat
  <2> QED  BY <2>1, <2>2, <2>3
<1>2. CASE i \notin 1 .. Len(s)
  <2> DEFINE k == i - Len(s)
  <2>1. (s \o t)[i] = t[k] /\ k \in Nat /\ k \in DOMAIN t /\ i = Len(s) + k
    BY <1>0, <1>2
  <2> HIDE DEF k
  <2>2. t[k].do \in Opening \cup Locking =>
          NextStep(s \o t, i, t[k].mu, Successors[t[k].do])
    BY <1>0, <2>1, NextStepRight DEF Paired
  <2>3. ASSUME t[k].do \in Closing PROVE Released(s \o t, i, t[k].mu)
    <3>1. Released(t, k, t[k].mu)
      BY <1>0, <2>1, <2>3 DEF Paired
    <3> QED  BY <1>0, <2>1, <3>1, NextStepRight, ClearRight DEF Released
  <2> QED  BY <2>1, <2>2, <2>3
<1> QED  BY <1>1, <1>2

LEMMA PromptConcat ==
  ASSUME NEW s, NEW t, Complete(s), Complete(t)
  PROVE  Prompt(s \o t)
<1>0. s \in Seq(Steps) /\ t \in Seq(Steps) /\ Prompt(s) /\ Prompt(t)
  BY DEF Complete, WellFormed
<1> SUFFICES ASSUME NEW i \in DOMAIN (s \o t), i > 1, (s \o t)[i].do \in Locking
    PROVE  (s \o t)[i-1] = Step("announce", (s \o t)[i].mu)
  BY DEF Prompt
<1>1. CASE i \in 1 .. Len(s)
  <2>1. /\ (s \o t)[i] = s[i] /\ i \in DOMAIN s
        /\ (s \o t)[i-1] = s[i-1]
    BY <1>0, <1>1
  <2> QED  BY <1>0, <2>1 DEF Prompt
<1>2. CASE i = Len(s) + 1
  <2>1. (s \o t)[i] = t[1] /\ 1 \in DOMAIN t
    BY <1>0, <1>2
  <2>2. t[1].mu \in Mutexes
    BY <1>0, <2>1 DEF Steps, Locking
  <2>3. Released(t, 0, t[1].mu)
    BY <2>2 DEF Complete
  <2>4. NextStep(t, 0, t[1].mu, Opening)
    BY <1>0, <2>1, <2>3 DEF Released, Clear
  <2>5. t[1].do \in Opening
    BY <1>0, <2>1, <2>4 DEF NextStep
  <2> QED  BY <2>1, <2>5 DEF Opening, Locking
<1>3. CASE i > Len(s) + 1
  <2> DEFINE k == i - Len(s)
  <2>1. /\ k \in DOMAIN t /\ k > 1
        /\ (s \o t)[i] = t[k] /\ (s \o t)[i-1] = t[k-1]
    BY <1>0, <1>3
  <2> QED  BY <1>0, <2>1 DEF Prompt
<1> QED  BY <1>0, <1>1, <1>2, <1>3

LEMMA OrderedConcat ==
  ASSUME NEW s, NEW t, Complete(s), Complete(t)
  PROVE  Ordered(s \o t)
<1> DEFINE u == s \o t
<1>0. s \in Seq(Steps) /\ t \in Seq(Steps) /\ Ordered(s) /\ Ordered(t)
  BY DEF Complete, WellFormed
<1> SUFFICES ASSUME NEW i \in DOMAIN u, NEW j \in DOMAIN u, i < j,
                    \/ u[i].mu = TailnetMu /\ u[j].mu = RegistryMu /\ u[j].do \in Closing
                    \/ u[i].do = "send" /\ u[j].do = "runlock"
    PROVE  Apart(u, i, j)
  BY DEF Ordered
<1>a. /\ DOMAIN u = 1 .. Len(s) + Len(t)
      /\ \A k \in 1 .. Len(s) : k \in DOMAIN u /\ u[k] = s[k]
      /\ \A k \in 1 .. Len(t) : Len(s) + k \in DOMAIN u /\ u[Len(s) + k] = t[k]
      /\ Len(s) \in Nat
  BY <1>0
<1>1. CASE j \in 1 .. Len(s)
  <2>1. u[i] = s[i] /\ u[j] = s[j] /\ i \in DOMAIN s /\ j \in DOMAIN s
    BY <1>0, <1>a, <1>1
  <2>2. Apart(s, i, j)
    BY <1>0, <2>1 DEF Ordered
  <2>3. PICK k \in 1 .. Len(s) : i < k /\ k < j /\ s[k].mu = s[j].mu
    BY <1>0, <2>2 DEF Apart
  <2>4. k \in DOMAIN u /\ u[k] = s[k]
    BY <1>a
  <2> QED  BY <2>1, <2>3, <2>4 DEF Apart
<1>2. CASE i \notin 1 .. Len(s)
  <2>1. PICK k \in 1 .. Len(t), l \in 1 .. Len(t) : i = Len(s) + k /\ j = Len(s) + l
    <3>1. i - Len(s) \in 1 .. Len(t) /\ j - Len(s) \in 1 .. Len(t)
      BY <1>0, <1>a, <1>2
    <3>2. i = Len(s) + (i - Len(s)) /\ j = Len(s) + (j - Len(s))
      BY <1>a
    <3> QED  BY <3>1, <3>2
  <2>2. u[i] = t[k] /\ u[j] = t[l] /\ k < l
    BY <1>a, <2>1
  <2>3. Apart(t, k, l)
    BY <1>0, <2>2 DEF Ordered
  <2>4. PICK m \in 1 .. Len(t) : k < m /\ m < l /\ t[m].mu = t[l].mu
    BY <1>0, <2>3 DEF Apart
  <2>5. /\ Len(s) + m \in DOMAIN u /\ i < Len(s) + m /\ Len(s) + m < j
        /\ u[Len(s) + m].mu = u[j].mu
    BY <1>a, <2>1, <2>2, <2>4
  <2> QED  BY <2>5 DEF Apart
<1>3. CASE i \in 1 .. Len(s) /\ j \notin 1 .. Len(s)
  <2>1. PICK l \in 1 .. Len(t) : j = Len(s) + l
    <3>1. j - Len(s) \in 1 .. Len(t) /\ j = Len(s) + (j - Len(s))
      BY <1>0, <1>a, <1>3
    <3> QED  BY <3>1
  <2>2. u[j] = t[l] /\ t[l].do \in Closing
    BY <1>a, <2>1 DEF Closing
  <2>3. t[l].mu \in Mutexes
    BY <1>0, <2>2 DEF Steps, Closing
  <2>4. Released(t, 0, t[l].mu)
    BY <2>3 DEF Complete
  <2>5. NextStep(t, 0, t[l].mu, Opening)
    BY <1>0, <2>4 DEF Released, Clear
  <2>6. PICK m \in 1 .. Len(t) :
          /\ t[m].mu = t[l].mu /\ t[m].do \in Opening
          /\ \A k \in 1 .. Len(t) : 0 < k /\ k < m => t[k].mu # t[l].mu
    BY SMTT(30), <1>0, <2>5 DEF NextStep
  <2>7. m < l
    <3>1. m # l
      BY <2>2, <2>6 DEF Opening, Closing
    <3> QED  BY <2>6, <3>1
  <2>8. /\ Len(s) + m \in DOMAIN u /\ i < Len(s) + m /\ Len(s) + m < j
        /\ u[Len(s) + m].mu = u[j].mu
    BY <1>a, <1>3, <2>1, <2>2, <2>6, <2>7
  <2> QED  BY <2>8 DEF Apart
<1> QED  BY <1>1, <1>2, <1>3, <1>a

\* A complete part and another after it make a complete part.
LEMMA CompleteConcat ==
  ASSUME NEW s, NEW t, Complete(s), Complete(t)
  PROVE  Complete(s \o t)
<1>1. s \in Seq(Steps) /\ t \in Seq(Steps) /\ Deferring(s) /\ Deferring(t)
  BY DEF Complete, WellFormed
<1>2. s \o t \in Seq(Steps)
  BY <1>1, ConcatProperties
<1>3. Deferring(s \o t)
  <2>1. ASSUME NEW i \in DOMAIN (s \o t) PROVE (s \o t)[i] # Step("lock", RegistryMu)
    <3>1. CASE i \in 1 .. Len(s)
      BY <1>1, <3>1 DEF Deferring
    <3>2. CASE i \notin 1 .. Len(s)
      <4>1. i - Len(s) \in DOMAIN t /\ (s \o t)[i] = t[i - Len(s)]
        BY <1>1, <2>1, <3>2
      <4> QED  BY <1>1, <4>1 DEF Deferring
    <3> QED  BY <3>1, <3>2
  <2> QED  BY <2>1 DEF Deferring
<1>4. \A mu \in Mutexes : Released(s \o t, 0, mu)
  BY <1>1, ReleasedConcat DEF Complete
<1> QED  BY <1>2, <1>3, <1>4, PairedConcat, PromptConcat, OrderedConcat
          DEF Complete, WellFormed

-----------------------------------------------------------------------------
(* What is done under a mutex. *)

\* Locked and Exposed differ in the second step.
Under(do, mu, body) ==
  <<Step("announce", mu), Step(do, mu)>> \o body \o <<Step("unlock", mu)>>

\* Its steps.
LEMMA UnderSteps ==
  ASSUME NEW do \in Locking, NEW mu \in Mutexes, NEW b \in Seq(Steps)
  PROVE  LET w == Under(do, mu, b) IN
           /\ w \in Seq(Steps)
           /\ DOMAIN w = 1 .. Len(b) + 3
           /\ w[1] = Step("announce", mu) /\ w[2] = Step(do, mu)
           /\ \A k \in 1 .. Len(b) : w[k + 2] = b[k]
           /\ w[Len(b) + 3] = Step("unlock", mu)
<1> DEFINE a == <<Step("announce", mu), Step(do, mu)>>
           z == <<Step("unlock", mu)>>
<1>1. /\ Step("announce", mu) \in Steps /\ Step(do, mu) \in Steps
      /\ Step("unlock", mu) \in Steps
  BY DEF Step, Steps, Opening, Locking, Closing
<1>2. /\ a \in Seq(Steps) /\ z \in Seq(Steps) /\ Len(a) = 2 /\ Len(z) = 1
      /\ a[1] = Step("announce", mu) /\ a[2] = Step(do, mu) /\ z[1] = Step("unlock", mu)
  BY <1>1
<1> HIDE DEF a, z
<1>3. /\ a \o b \in Seq(Steps) /\ Len(a \o b) = Len(b) + 2
      /\ (a \o b)[1] = a[1] /\ (a \o b)[2] = a[2]
      /\ \A k \in 1 .. Len(b) : (a \o b)[k + 2] = b[k]
  <2>1. /\ a \o b \in Seq(Steps) /\ Len(a \o b) = Len(a) + Len(b)
        /\ \A i \in 1 .. Len(a) + Len(b) :
             (a \o b)[i] = IF i <= Len(a) THEN a[i] ELSE b[i - Len(a)]
    BY <1>2, ConcatProperties
  <2>2. \A k \in 1 .. Len(b) : k + 2 \in 1 .. 2 + Len(b) /\ ~(k + 2 <= 2) /\ (k + 2) - 2 = k
    OBVIOUS
  <2>3. Len(b) \in Nat
    OBVIOUS
  <2> HIDE DEF a
  <2> QED  BY <1>2, <2>1, <2>2, <2>3
<1>4. /\ (a \o b) \o z \in Seq(Steps) /\ Len((a \o b) \o z) = Len(b) + 3
      /\ \A k \in 1 .. Len(b) + 2 : ((a \o b) \o z)[k] = (a \o b)[k]
      /\ ((a \o b) \o z)[Len(b) + 3] = z[1]
  BY SMTT(30), <1>2, <1>3, ConcatProperties
<1>5. Under(do, mu, b) = (a \o b) \o z
  BY DEF Under, a, z
<1> QED  BY <1>2, <1>3, <1>4, <1>5

\* What comes next in the body does so in the whole.
LEMMA UnderNext ==
  ASSUME NEW do \in Locking, NEW mu \in Mutexes, NEW b \in Seq(Steps),
         NEW i \in 0 .. Len(b), NEW m, NEW D
  PROVE  LET w == Under(do, mu, b) IN
           /\ NextStep(b, i, m, D) => NextStep(w, i + 2, m, D)
           /\ Clear(b, i, m) /\ m # mu => Clear(w, i + 2, m)
           /\ Released(b, i, m) /\ m # mu => Released(w, i + 2, m)
<1> DEFINE w == Under(do, mu, b)
<1>1. /\ DOMAIN w = 1 .. Len(b) + 3
      /\ w[2] = Step(do, mu) /\ w[Len(b) + 3] = Step("unlock", mu)
      /\ \A k \in 1 .. Len(b) : w[k + 2] = b[k]
      /\ DOMAIN b = 1 .. Len(b) /\ Len(b) \in Nat
  BY UnderSteps
<1> HIDE DEF w
<1>2. \A j \in DOMAIN w : i + 2 < j /\ j # Len(b) + 3 =>
        j - 2 \in 1 .. Len(b) /\ i < j - 2 /\ w[j] = b[j - 2]
  <2> SUFFICES ASSUME NEW j \in DOMAIN w, i + 2 < j, j # Len(b) + 3
      PROVE  j - 2 \in 1 .. Len(b) /\ i < j - 2 /\ w[j] = b[j - 2]
    OBVIOUS
  <2>1. j - 2 \in 1 .. Len(b) /\ i < j - 2 /\ (j - 2) + 2 = j
    BY <1>1
  <2> QED  BY <1>1, <2>1
<1>3. ASSUME NEW E, NextStep(b, i, m, E) PROVE NextStep(w, i + 2, m, E)
  <2>1. PICK k \in 1 .. Len(b) :
          /\ i < k /\ b[k].mu = m /\ b[k].do \in E
          /\ \A j \in 1 .. Len(b) : i < j /\ j < k => b[j].mu # m
    BY <1>1, <1>3 DEF NextStep
  <2>2. /\ k + 2 \in DOMAIN w /\ i + 2 < k + 2
        /\ w[k + 2].mu = m /\ w[k + 2].do \in E
    BY <1>1, <2>1
  <2>3. \A j \in DOMAIN w : i + 2 < j /\ j < k + 2 => w[j].mu # m
    BY <1>1, <1>2, <2>1
  <2> QED  BY <2>2, <2>3 DEF NextStep
<1>4. Clear(b, i, m) /\ m # mu => Clear(w, i + 2, m)
  BY <1>1, <1>2 DEF Clear, Step
<1> QED  BY <1>3, <1>4 DEF Released, w

\* A complete body that leaves the mutex alone, and that of a tailnet when the
\* registry's is held, makes a complete part.
LEMMA CompleteUnder ==
  ASSUME NEW do \in Locking, NEW mu \in Mutexes, NEW b, Complete(b), Clear(b, 0, mu),
         mu = RegistryMu => do = "lockAndDefer" /\ Clear(b, 0, TailnetMu)
  PROVE  Complete(Under(do, mu, b))
<1> DEFINE w == Under(do, mu, b)
           n == Len(b)
<1>1. /\ b \in Seq(Steps) /\ Paired(b) /\ Prompt(b) /\ Ordered(b) /\ Deferring(b)
      /\ \A m \in Mutexes : Released(b, 0, m)
      /\ DOMAIN b = 1 .. n /\ n \in Nat
  BY DEF Complete, WellFormed
<1>2. /\ w \in Seq(Steps)
      /\ DOMAIN w = 1 .. n + 3
      /\ w[1] = Step("announce", mu) /\ w[2] = Step(do, mu)
      /\ \A k \in 1 .. n : w[k + 2] = b[k]
      /\ w[n + 3] = Step("unlock", mu)
  BY <1>1, UnderSteps
<1>3. \A i \in 0 .. n : \A m, D :
           /\ NextStep(b, i, m, D) => NextStep(w, i + 2, m, D)
           /\ Clear(b, i, m) /\ m # mu => Clear(w, i + 2, m)
           /\ Released(b, i, m) /\ m # mu => Released(w, i + 2, m)
  BY <1>1, UnderNext
<1> HIDE DEF w, n
<1>4. \A k \in 1 .. n : b[k].mu # mu
  BY <1>1 DEF Clear
<1>5. \A i \in DOMAIN w : i = 1 \/ i = 2 \/ i = n + 3 \/ \E k \in 1 .. n : i = k + 2
  <2> SUFFICES ASSUME NEW i \in DOMAIN w, i # 1, i # 2, i # n + 3
      PROVE  \E k \in 1 .. n : i = k + 2
    OBVIOUS
  <2>1. i - 2 \in 1 .. n /\ i = (i - 2) + 2
    BY <1>1, <1>2
  <2> QED  BY <2>1
<1>6. \A k \in 1 .. n : w[k + 2].mu # mu
  BY <1>2, <1>4
<1>7. NextStep(w, 2, mu, {"unlock"})
  <2>1. n + 3 \in DOMAIN w /\ 2 < n + 3 /\ w[n + 3].mu = mu /\ w[n + 3].do = "unlock"
    BY <1>1, <1>2 DEF Step
  <2>2. \A j \in DOMAIN w : 2 < j /\ j < n + 3 => w[j].mu # mu
    BY SMTT(30), <1>1, <1>2, <1>5, <1>6
  <2> QED  BY <2>1, <2>2 DEF NextStep
<1>8. NextStep(w, 1, mu, Locking)
  <2>1. 2 \in DOMAIN w /\ 1 < 2 /\ w[2].mu = mu /\ w[2].do \in Locking
    BY <1>1, <1>2 DEF Step
  <2> QED  BY <1>1, <1>2, <2>1 DEF NextStep
<1>9. Paired(w)
  <2> SUFFICES ASSUME NEW i \in DOMAIN w
      PROVE  /\ w[i].do \in Opening \cup Locking =>
                  NextStep(w, i, w[i].mu, Successors[w[i].do])
             /\ w[i].do \in Closing => Released(w, i, w[i].mu)
    BY DEF Paired
  <2>1. CASE i = 1
    BY <1>2, <1>8, <2>1 DEF Step, Successors, Opening, Locking, Closing
  <2>2. CASE i = 2
    <3>1. Successors[do] = {"unlock"} /\ do \notin Closing
      BY DEF Successors, Opening, Locking, Closing
    <3>2. w[i].do = do /\ w[i].mu = mu
      BY <1>2, <2>2 DEF Step
    <3> QED  BY <1>7, <2>2, <3>1, <3>2
  <2>3. CASE i = n + 3
    <3>1. Clear(w, n + 3, mu)
      BY <1>1, <1>2 DEF Clear
    <3> QED  BY <1>2, <2>3, <3>1 DEF Step, Released, Opening, Locking
  <2>4. ASSUME NEW k \in 1 .. n, i = k + 2
        PROVE  /\ w[i].do \in Opening \cup Locking =>
                    NextStep(w, i, w[i].mu, Successors[w[i].do])
               /\ w[i].do \in Closing => Released(w, i, w[i].mu)
    <3>1. k \in 0 .. n /\ w[i] = b[k] /\ b[k].mu # mu
      BY <1>1, <1>2, <1>4, <2>4
    <3>2. /\ b[k].do \in Opening \cup Locking =>
               NextStep(b, k, b[k].mu, Successors[b[k].do])
          /\ b[k].do \in Closing => Released(b, k, b[k].mu)
      BY <1>1 DEF Paired
    <3> QED  BY <1>3, <2>4, <3>1, <3>2
  <2> QED  BY <1>5, <2>1, <2>2, <2>3, <2>4
<1>10. Prompt(w)
  <2> SUFFICES ASSUME NEW i \in DOMAIN w, i > 1, w[i].do \in Locking
      PROVE  w[i-1] = Step("announce", w[i].mu)
    BY DEF Prompt
  <2>1. CASE i = 2
    BY <1>2, <2>1 DEF Step
  <2>2. CASE i = n + 3
    BY <1>2, <2>2 DEF Step, Locking
  <2>3. ASSUME NEW k \in 1 .. n, i = k + 2
        PROVE  w[i-1] = Step("announce", w[i].mu)
    <3>1. w[i] = b[k]
      BY <1>2, <2>3
    <3>2. CASE k > 1
      <4>1. b[k-1] = Step("announce", b[k].mu)
        BY <1>1, <3>1, <3>2 DEF Prompt
      <4>2. k - 1 \in 1 .. n /\ i - 1 = (k - 1) + 2
        BY <1>1, <2>3, <3>2
      <4>3. w[i-1] = b[k-1]
        BY <1>2, <4>2
      <4> QED  BY <3>1, <4>1, <4>3
    <3>3. CASE k = 1
      <4>1. b[1].mu \in Mutexes
        BY <1>1, <3>1, <3>3 DEF Steps, Locking
      <4>2. NextStep(b, 0, b[1].mu, Opening)
        BY <1>1, <3>3, <4>1 DEF Released, Clear
      <4>3. b[1].do \in Opening
        BY <1>1, <3>3, <4>2 DEF NextStep
      <4> QED  BY <3>1, <3>3, <4>3 DEF Opening, Locking
    <3> QED  BY <1>1, <3>2, <3>3
  <2> QED  BY <1>5, <2>1, <2>2, <2>3
<1>11. Ordered(w)
  <2> SUFFICES ASSUME NEW i \in DOMAIN w, NEW j \in DOMAIN w, i < j,
                    \/ w[i].mu = TailnetMu /\ w[j].mu = RegistryMu /\ w[j].do \in Closing
                    \/ w[i].do = "send" /\ w[j].do = "runlock"
      PROVE  Apart(w, i, j)
    BY DEF Ordered
  <2>1. CASE j = n + 3
    <3>1. mu = RegistryMu /\ w[i].mu = TailnetMu
      BY <1>2, <2>1 DEF Step
    <3>2. \A k \in 1 .. n : b[k].mu # TailnetMu
      BY <1>1, <3>1 DEF Clear
    <3>3. i # 1 /\ i # 2
      BY <1>2, <3>1 DEF Step, TailnetMu, RegistryMu
    <3> QED  BY <1>2, <1>5, <2>1, <3>1, <3>2, <3>3
  <2>2. j # 1 /\ j # 2
    BY <1>1, <1>2 DEF Step, Closing, Locking
  <2>3. ASSUME NEW l \in 1 .. n, j = l + 2 PROVE Apart(w, i, j)
    <3>1. w[j] = b[l] /\ b[l].do \in Closing
      BY <1>2, <2>3 DEF Closing
    <3>2. CASE i = 1 \/ i = 2
      <4>1. b[l].mu \in Mutexes
        BY <1>1, <3>1 DEF Steps, Closing
      <4>2. NextStep(b, 0, b[l].mu, Opening)
        BY <1>1, <4>1 DEF Released, Clear
      <4>3. PICK m \in 1 .. n :
              /\ b[m].mu = b[l].mu /\ b[m].do \in Opening
              /\ \A k \in 1 .. n : 0 < k /\ k < m => b[k].mu # b[l].mu
        BY <1>1, <4>2 DEF NextStep
      <4>4. m # l
        BY <3>1, <4>3 DEF Opening, Closing
      <4>5. m < l
        BY <1>1, <4>3, <4>4
      <4>6. m + 2 \in DOMAIN w /\ i < m + 2 /\ m + 2 < j /\ w[m + 2].mu = w[j].mu
        BY <1>1, <1>2, <2>3, <3>1, <3>2, <4>3, <4>5
      <4> QED  BY <4>6 DEF Apart
    <3>3. ASSUME NEW k \in 1 .. n, i = k + 2 PROVE Apart(w, i, j)
      <4>1. w[i] = b[k] /\ k < l
        BY <1>1, <1>2, <2>3, <3>3
      <4>2. Apart(b, k, l)
        BY <1>1, <3>1, <4>1 DEF Ordered
      <4>3. PICK m \in 1 .. n : k < m /\ m < l /\ b[m].mu = b[l].mu
        BY <1>1, <4>2 DEF Apart
      <4>4. m + 2 \in DOMAIN w /\ i < m + 2 /\ m + 2 < j /\ w[m + 2].mu = w[j].mu
        BY <1>1, <1>2, <2>3, <3>1, <3>3, <4>3
      <4> QED  BY <4>4 DEF Apart
    <3>4. i # n + 3
      BY <1>1, <1>2, <2>3
    <3> QED  BY <1>5, <3>2, <3>3, <3>4
  <2> QED  BY <1>5, <2>1, <2>2, <2>3
<1>12. Deferring(w)
  <2> SUFFICES ASSUME NEW i \in DOMAIN w PROVE w[i] # Step("lock", RegistryMu)
    BY DEF Deferring
  <2>1. CASE i = 1 \/ i = 2 \/ i = n + 3
    BY <1>2, <2>1 DEF Step, Locking
  <2>2. ASSUME NEW k \in 1 .. n, i = k + 2 PROVE w[i] # Step("lock", RegistryMu)
    BY <1>1, <1>2, <2>2 DEF Deferring
  <2> QED  BY <1>5, <2>1, <2>2
<1>13. ASSUME NEW m \in Mutexes PROVE Released(w, 0, m)
  <2>1. CASE m = mu
    <3>1. /\ 1 \in DOMAIN w /\ 0 < 1 /\ w[1].mu = mu /\ w[1].do \in Opening
          /\ \A j \in DOMAIN w : ~(0 < j /\ j < 1)
      BY <1>1, <1>2 DEF Step, Opening
    <3>2. NextStep(w, 0, mu, Opening)
      BY <3>1 DEF NextStep
    <3> QED  BY <2>1, <3>2 DEF Released
  <2>2. CASE m # mu
    <3>1. Released(w, 2, m)
      BY <1>1, <1>3, <2>2
    <3>2. w[1].mu # m /\ w[2].mu # m
      BY <1>2, <2>2 DEF Step
    <3>3. Clear(w, 2, m) => Clear(w, 0, m)
      BY <1>1, <1>2, <3>2 DEF Clear
    <3>4. ASSUME NextStep(w, 2, m, Opening) PROVE NextStep(w, 0, m, Opening)
      <4>1. PICK k \in DOMAIN w :
              /\ 2 < k /\ w[k].mu = m /\ w[k].do \in Opening
              /\ \A j \in DOMAIN w : 2 < j /\ j < k => w[j].mu # m
        BY <3>4 DEF NextStep
      <4>2. \A j \in DOMAIN w : j = 1 \/ j = 2 \/ 2 < j
        BY <1>1, <1>2
      <4>3. 0 < k /\ \A j \in DOMAIN w : 0 < j /\ j < k => w[j].mu # m
        BY <1>1, <1>2, <3>2, <4>1, <4>2
      <4> QED  BY <4>1, <4>3 DEF NextStep
    <3> QED  BY <3>1, <3>3, <3>4 DEF Released
  <2> QED  BY <2>1, <2>2
<1> QED  BY <1>2, <1>9, <1>10, <1>11, <1>12, <1>13 DEF Complete, WellFormed, w

\* It leaves the other mutexes alone when its body does.
LEMMA ClearUnder ==
  ASSUME NEW do \in Locking, NEW mu \in Mutexes, NEW b \in Seq(Steps),
         NEW m, m # mu, Clear(b, 0, m)
  PROVE  Clear(Under(do, mu, b), 0, m)
<1> DEFINE w == Under(do, mu, b)
<1>1. /\ DOMAIN w = 1 .. Len(b) + 3 /\ Len(b) \in Nat
      /\ w[1] = Step("announce", mu) /\ w[2] = Step(do, mu)
  BY UnderSteps
<1>2. Clear(w, 2, m)
  BY UnderNext
<1> HIDE DEF w
<1>3. Clear(w, 0, m)
  BY <1>1, <1>2 DEF Clear, Step
<1> QED  BY <1>3 DEF w

-----------------------------------------------------------------------------
(* Every path is complete. *)

\* A complete part that leaves the mutex of the tailnet alone: what is done under
\* that mutex.
Inner(s) == Complete(s) /\ Clear(s, 0, TailnetMu)

\* A complete part that takes no mutex: what is done under that of the registry.
Idle(s) == Inner(s) /\ Clear(s, 0, RegistryMu)

LEMMA MutexesDiffer == TailnetMu # RegistryMu /\ NoMutex \notin Mutexes
BY DEF TailnetMu, RegistryMu, Mutexes, NoMutex

LEMMA InnerConcat ==
  ASSUME NEW s, NEW t, Inner(s), Inner(t)
  PROVE  Inner(s \o t)
<1>1. s \in Seq(Steps) /\ t \in Seq(Steps)
  BY DEF Inner, Complete, WellFormed
<1> QED  BY <1>1, CompleteConcat, ClearConcat DEF Inner

LEMMA IdleEmpty == Idle(<<>>)
BY DEF Idle, Inner, Complete, WellFormed, Paired, Prompt, Ordered, Deferring, Released, Clear

LEMMA IdleStep ==
  ASSUME NEW do \in {"send", "join"}
  PROVE  Idle(<<Step(do, NoMutex)>>)
<1> DEFINE s == <<Step(do, NoMutex)>>
<1>1. Step(do, NoMutex) \in Steps
  BY DEF Step, Steps
<1>2. s \in Seq(Steps) /\ DOMAIN s = {1} /\ s[1] = Step(do, NoMutex)
  BY <1>1
<1> HIDE DEF s
<1>3. \A mu \in Mutexes : Clear(s, 0, mu)
  BY <1>2, MutexesDiffer DEF Clear, Step
<1>4. Paired(s) /\ Prompt(s)
  BY <1>2 DEF Paired, Prompt, Step, Opening, Locking, Closing
<1>5. Ordered(s) /\ Deferring(s)
  BY <1>2 DEF Ordered, Deferring, Step
<1> QED  BY <1>2, <1>3, <1>4, <1>5
          DEF Idle, Inner, Complete, WellFormed, Released, Mutexes, s

LEMMA CompleteReading ==
  ASSUME NEW mu \in Mutexes
  PROVE  /\ Complete(Reading(mu, <<>>))
         /\ \A m : m # mu => Clear(Reading(mu, <<>>), 0, m)
<1> DEFINE s == Reading(mu, <<>>)
<1>1. Step("rlock", mu) \in Steps /\ Step("runlock", mu) \in Steps
  BY DEF Step, Steps, Opening, Closing
<1>2. s = <<Step("rlock", mu)>> \o <<>> \o <<Step("runlock", mu)>>
  BY DEF Reading
<1>3. /\ s \in Seq(Steps) /\ DOMAIN s = {1, 2}
      /\ s[1] = Step("rlock", mu) /\ s[2] = Step("runlock", mu)
  <2> DEFINE x == Step("rlock", mu)
             y == Step("runlock", mu)
  <2>1. x \in Steps /\ y \in Steps /\ s = <<x>> \o <<>> \o <<y>>
    BY <1>1, <1>2
  <2> HIDE DEF x, y
  <2>2. <<x>> \o <<>> = <<x>>
    BY <2>1, ConcatEmptySeq
  <2>3. s = <<x>> \o <<y>>
    BY <2>1, <2>2, Zenon
  <2> HIDE DEF s
  <2>4. /\ <<x>> \in Seq(Steps) /\ Len(<<x>>) = 1 /\ <<x>>[1] = x
        /\ <<y>> \in Seq(Steps) /\ Len(<<y>>) = 1 /\ <<y>>[1] = y
    BY <2>1
  <2>5. s \in Seq(Steps) /\ DOMAIN s = {1, 2} /\ s[1] = x /\ s[2] = y
    <3> DEFINE a == <<x>>
               b == <<y>>
    <3> HIDE DEF a, b
    <3>1. /\ s = a \o b /\ a \in Seq(Steps) /\ b \in Seq(Steps)
          /\ Len(a) = 1 /\ Len(b) = 1 /\ a[1] = x /\ b[1] = y
      BY <2>3, <2>4 DEF a, b
    <3>2. /\ a \o b \in Seq(Steps) /\ Len(a \o b) = Len(a) + Len(b)
          /\ \A i \in 1 .. Len(a) + Len(b) :
               (a \o b)[i] = IF i <= Len(a) THEN a[i] ELSE b[i - Len(a)]
      BY <3>1, ConcatProperties
    <3>3. Len(a \o b) = 2 /\ (a \o b)[1] = x /\ (a \o b)[2] = y
      BY <3>1, <3>2
    <3> QED  BY <3>1, <3>2, <3>3
  <2> QED  BY <2>5 DEF x, y
<1> HIDE DEF s
<1>4. NextStep(s, 1, mu, {"runlock"}) /\ Clear(s, 2, mu) /\ NextStep(s, 0, mu, Opening)
  BY <1>3 DEF NextStep, Clear, Step, Opening
<1>5. Paired(s)
  <2>1. Successors["rlock"] = {"runlock"}
    BY DEF Successors, Opening
  <2>2. s[1].do = "rlock" /\ s[1].mu = mu /\ s[2].do = "runlock" /\ s[2].mu = mu
    BY <1>3 DEF Step
  <2> QED  BY <1>3, <1>4, <2>1, <2>2 DEF Paired, Released, Opening, Locking, Closing
<1>6. Prompt(s) /\ Ordered(s) /\ Deferring(s)
  BY <1>3, MutexesDiffer DEF Prompt, Ordered, Deferring, Step, Locking, Mutexes
<1>7. \A m : m # mu => Clear(s, 0, m)
  BY <1>3 DEF Clear, Step
<1>8. \A m \in Mutexes : Released(s, 0, m)
  BY <1>4, <1>7 DEF Released
<1> QED  BY <1>3, <1>5, <1>6, <1>7, <1>8 DEF Complete, WellFormed, s

\* What is done under a mutex of a tailnet.
LEMMA CompleteTailnet ==
  ASSUME NEW b, Inner(b)
  PROVE  Complete(Locked(TailnetMu, b)) /\ Complete(Exposed(TailnetMu, b))
BY CompleteUnder, MutexesDiffer
   DEF Locked, Exposed, Under, Inner, Locking, Mutexes

\* What is done under the mutex of the registry.
LEMMA InnerRegistry ==
  ASSUME NEW b, Idle(b)
  PROVE  Inner(Locked(RegistryMu, b))
<1>1. Complete(b) /\ Clear(b, 0, TailnetMu) /\ Clear(b, 0, RegistryMu) /\ b \in Seq(Steps)
  BY DEF Idle, Inner, Complete, WellFormed
<1>2. Locked(RegistryMu, b) = Under("lockAndDefer", RegistryMu, b)
  BY DEF Locked, Under
<1>3. "lockAndDefer" \in Locking /\ RegistryMu \in Mutexes
  BY DEF Locking, Mutexes
<1> QED  BY <1>1, <1>2, <1>3, CompleteUnder, ClearUnder, MutexesDiffer DEF Inner

LEMMA Parts ==
  /\ Idle(<<>>) /\ Idle(Broadcast) /\ Idle(Join)
  /\ Inner(<<>>) /\ Inner(Broadcast) /\ Inner(Join) /\ Inner(Callback)
  /\ Complete(<<>>) /\ Complete(Broadcast) /\ Complete(Join)
<1>1. Idle(<<>>) /\ Idle(Broadcast) /\ Idle(Join)
  BY IdleEmpty, IdleStep DEF Broadcast, Join
<1> QED  BY <1>1, InnerRegistry DEF Callback, Idle, Inner

LEMMA ReadingParts ==
  /\ Complete(Snapshot) /\ Complete(Dial)
  /\ Complete(Get) /\ Complete(HasUnconfiguredTailnets) /\ Complete(List)
  /\ Complete(ListAndReadEach)
<1>1. Complete(Reading(TailnetMu, <<>>)) /\ Complete(Reading(RegistryMu, <<>>))
  BY CompleteReading DEF Mutexes
<1>2. Complete(Snapshot) /\ Complete(List)
  BY <1>1 DEF Snapshot, List
<1> QED  BY <1>1, <1>2, CompleteConcat
          DEF Dial, Get, HasUnconfiguredTailnets, ListAndReadEach

LEMMA TailnetParts ==
  \A p \in Start \cup Stop \cup Logout : Complete(p)
<1>1. Inner(Callback \o Broadcast)
  BY Parts, InnerConcat
<1>2. Inner(Callback \o Join \o Broadcast)
  BY Parts, InnerConcat
<1>3. \A b : Inner(b) => Complete(Locked(TailnetMu, b)) /\ Complete(Exposed(TailnetMu, b))
  BY CompleteTailnet
<1>4. Complete(Exposed(TailnetMu, Callback \o Broadcast) \o Exposed(TailnetMu, Broadcast))
  BY <1>1, <1>3, Parts, CompleteConcat
<1>5. /\ Complete(Locked(TailnetMu, <<>>)) /\ Complete(Exposed(TailnetMu, <<>>))
      /\ Complete(Locked(TailnetMu, Callback \o Broadcast))
      /\ Complete(Locked(TailnetMu, Callback \o Join \o Broadcast))
  BY <1>1, <1>2, <1>3, Parts
<1> QED  BY <1>4, <1>5 DEF Start, Stop, Logout

LEMMA ReactParts == \A p \in React : Complete(p)
<1>1. Inner(Locked(RegistryMu, <<>>)) /\ Inner(Locked(RegistryMu, Broadcast))
  BY Parts, InnerRegistry
<1>2. Inner(Locked(RegistryMu, <<>>) \o Callback \o Callback)
  BY <1>1, Parts, InnerConcat
<1>3. \A claim \in Claims : Complete(Exposed(TailnetMu, claim))
  BY <1>1, <1>2, Parts, CompleteTailnet DEF Claims
<1>4. \A after \in {<<>>, Broadcast, Join \o Broadcast} : Complete(after)
  BY Parts, CompleteConcat
<1> DEFINE Afters == {<<>>, Broadcast, Join \o Broadcast}
<1>5. React = {Exposed(TailnetMu, claim) \o after : claim \in Claims, after \in Afters}
  BY DEF React
<1> HIDE DEF Afters
<1>6. ASSUME NEW p \in React PROVE Complete(p)
  <2>1. PICK claim \in Claims, after \in Afters : p = Exposed(TailnetMu, claim) \o after
    BY <1>5
  <2>2. Complete(after)
    BY <1>4 DEF Afters
  <2> QED  BY <1>3, <2>1, <2>2, CompleteConcat
<1> QED  BY <1>6

LEMMA RegistryParts ==
  /\ Complete(Add) /\ Complete(Locked(RegistryMu, <<>>))
  /\ \A p \in Delete : Complete(p)
<1>1. Complete(Locked(RegistryMu, <<>>)) /\ Complete(Locked(RegistryMu, Broadcast))
  BY Parts, InnerRegistry DEF Inner
<1>2. Complete(Locked(RegistryMu, Broadcast) \o Broadcast)
  BY <1>1, Parts, CompleteConcat
<1> QED  BY <1>1, <1>2 DEF Add, Delete

\* Every path through a handler, a watcher or a dial is complete.
LEMMA PathsComplete ==
  ASSUME NEW g, NEW p \in Paths(g)
  PROVE  Complete(p)
<1>1. \A q \in StartHandler \cup StopHandler : Complete(q)
  BY ReadingParts, TailnetParts, CompleteConcat DEF StartHandler, StopHandler
<1>2. \A q \in DeleteHandler : Complete(q)
  <2>1. Complete(Get \o Snapshot)
    BY ReadingParts, CompleteConcat
  <2>2. \A q \in Logout \cup {<<>>} : Complete((Get \o Snapshot) \o q)
    BY <2>1, TailnetParts, Parts, CompleteConcat
  <2>3. \A q \in Logout \cup {<<>>}, d \in Delete : Complete(((Get \o Snapshot) \o q) \o d)
    BY <2>2, RegistryParts, CompleteConcat
  <2>4. \A q \in Logout \cup {<<>>}, d \in Delete : Complete(Get \o Snapshot \o q \o d)
    BY <2>3
  <2> DEFINE Logouts == Logout \cup {<<>>}
  <2>5. DeleteHandler = {Get} \cup {Get \o Snapshot \o q \o d : q \in Logouts, d \in Delete}
    BY DEF DeleteHandler
  <2>6. \A q \in Logouts, d \in Delete : Complete(Get \o Snapshot \o q \o d)
    BY <2>4
  <2> HIDE DEF Logouts
  <2>7. ASSUME NEW path \in DeleteHandler, path # Get PROVE Complete(path)
    <3>1. PICK q \in Logouts, d \in Delete : path = Get \o Snapshot \o q \o d
      BY <2>5, <2>7
    <3> QED  BY <2>6, <3>1, Zenon
  <2> QED  BY <2>7, ReadingParts
<1>3. \A q \in AddHandler : Complete(q)
  <2>1. /\ Complete(HasUnconfiguredTailnets)
        /\ Complete(HasUnconfiguredTailnets \o Locked(RegistryMu, <<>>))
        /\ Complete(HasUnconfiguredTailnets \o Add)
    BY ReadingParts, RegistryParts, CompleteConcat
  <2>2. \A q \in Start : Complete((HasUnconfiguredTailnets \o Add) \o q)
    BY <2>1, TailnetParts, CompleteConcat
  <2>3. \A q \in Start : Complete(((HasUnconfiguredTailnets \o Add) \o q) \o Broadcast)
    BY <2>2, Parts, CompleteConcat
  <2> QED  BY <2>1, <2>3 DEF AddHandler
<1>4. \A q \in PageHandler : Complete(q)
  BY ReadingParts, CompleteConcat DEF PageHandler
<1>5. p \in React \cup {Dial} \cup StartHandler \cup StopHandler \cup DeleteHandler
            \cup AddHandler \cup PageHandler
  BY DEF Paths
<1> QED  BY <1>1, <1>2, <1>3, <1>4, <1>5, ReactParts, ReadingParts

-----------------------------------------------------------------------------
(* What is left of a program, and who holds what by it. *)

\* A Lock has been called, a Lock has returned, an RLock has returned; and the
\* mutex has not been unlocked since.
Owns(s, mu)     == NextStep(s, 0, mu, Locking \cup {"unlock"})
Unlocks(s, mu)  == NextStep(s, 0, mu, {"unlock"})
RUnlocks(s, mu) == NextStep(s, 0, mu, {"runlock"})

\* Who has taken up nothing holds nothing.
LEMMA ReleasedHoldsNothing ==
  ASSUME NEW s \in Seq(Steps), NEW mu, Released(s, 0, mu)
  PROVE  ~Owns(s, mu) /\ ~Unlocks(s, mu) /\ ~RUnlocks(s, mu)
<1>1. ASSUME NEW D, NextStep(s, 0, mu, D), D \cap Opening = {} PROVE FALSE
  <2>1. ~Clear(s, 0, mu)
    BY <1>1 DEF NextStep, Clear
  <2> QED  BY <1>1, <2>1, NextStepUnique DEF Released
<1> QED  BY <1>1 DEF Owns, Unlocks, RUnlocks, Opening, Locking

\* Who has nothing more to do holds nothing.
LEMMA EmptyHoldsNothing ==
  \A mu : ~Owns(<<>>, mu) /\ ~Unlocks(<<>>, mu) /\ ~RUnlocks(<<>>, mu)
BY DEF Owns, Unlocks, RUnlocks, NextStep

\* A Lock that has returned was called, and nobody has read since.
LEMMA UnlocksOwns ==
  ASSUME NEW s \in Seq(Steps), NEW mu, Unlocks(s, mu)
  PROVE  Owns(s, mu) /\ ~RUnlocks(s, mu)
BY NextStepMonotonic, NextStepUnique DEF Owns, Unlocks, RUnlocks

\* The rest of a program.
LEMMA TailSteps ==
  ASSUME NEW s \in Seq(Steps), s # <<>>
  PROVE  /\ Tail(s) \in Seq(Steps)
         /\ DOMAIN s = 1 .. Len(s) /\ Len(s) \in Nat /\ 1 \in DOMAIN s
         /\ DOMAIN Tail(s) = 1 .. Len(s) - 1
         /\ Head(s) = s[1]
         /\ \A k \in DOMAIN Tail(s) : k + 1 \in DOMAIN s /\ Tail(s)[k] = s[k + 1]
         /\ \A j \in DOMAIN s : j > 1 => j - 1 \in DOMAIN Tail(s) /\ Tail(s)[j - 1] = s[j]
OBVIOUS

LEMMA TailNext ==
  ASSUME NEW s \in Seq(Steps), s # <<>>, NEW i \in Nat, NEW mu
  PROVE  /\ \A D : NextStep(Tail(s), i, mu, D) <=> NextStep(s, i + 1, mu, D)
         /\ Released(Tail(s), i, mu) <=> Released(s, i + 1, mu)
<1> DEFINE t == Tail(s)
<1>1. /\ DOMAIN s = 1 .. Len(s) /\ Len(s) \in Nat /\ DOMAIN t = 1 .. Len(s) - 1
      /\ \A k \in DOMAIN t : k + 1 \in DOMAIN s /\ t[k] = s[k + 1]
      /\ \A j \in DOMAIN s : j > 1 => j - 1 \in DOMAIN t /\ t[j - 1] = s[j]
  BY TailSteps
<1> HIDE DEF t
<1>2. ASSUME NEW D, NextStep(t, i, mu, D) PROVE NextStep(s, i + 1, mu, D)
  <2>1. PICK k \in DOMAIN t :
          /\ i < k /\ t[k].mu = mu /\ t[k].do \in D
          /\ \A j \in DOMAIN t : i < j /\ j < k => t[j].mu # mu
    BY <1>2 DEF NextStep
  <2>2. k + 1 \in DOMAIN s /\ i + 1 < k + 1 /\ s[k + 1].mu = mu /\ s[k + 1].do \in D
    BY <1>1, <2>1
  <2>3. ASSUME NEW j \in DOMAIN s, i + 1 < j, j < k + 1 PROVE s[j].mu # mu
    <3>1. j - 1 \in DOMAIN t /\ i < j - 1 /\ j - 1 < k /\ t[j - 1] = s[j]
      BY <1>1, <2>1, <2>3
    <3> QED  BY <2>1, <3>1
  <2> QED  BY <2>2, <2>3 DEF NextStep
<1>3. ASSUME NEW D, NextStep(s, i + 1, mu, D) PROVE NextStep(t, i, mu, D)
  <2>1. PICK k \in DOMAIN s :
          /\ i + 1 < k /\ s[k].mu = mu /\ s[k].do \in D
          /\ \A j \in DOMAIN s : i + 1 < j /\ j < k => s[j].mu # mu
    BY <1>3 DEF NextStep
  <2>2. k - 1 \in DOMAIN t /\ i < k - 1 /\ t[k - 1].mu = mu /\ t[k - 1].do \in D
    BY <1>1, <2>1
  <2>3. \A j \in DOMAIN t : i < j /\ j < k - 1 => t[j].mu # mu
    BY <1>1, <2>1
  <2> QED  BY <2>2, <2>3 DEF NextStep
<1>4. Clear(t, i, mu) <=> Clear(s, i + 1, mu)
  <2>1. ASSUME Clear(t, i, mu), NEW j \in DOMAIN s, i + 1 < j PROVE s[j].mu # mu
    <3>1. j - 1 \in DOMAIN t /\ i < j - 1 /\ t[j - 1] = s[j]
      BY <1>1, <2>1
    <3> QED  BY <2>1, <3>1 DEF Clear
  <2>2. ASSUME Clear(s, i + 1, mu), NEW k \in DOMAIN t, i < k PROVE t[k].mu # mu
    BY <1>1, <2>2 DEF Clear
  <2> QED  BY <2>1, <2>2 DEF Clear
<1> QED  BY <1>2, <1>3, <1>4 DEF Released, t

\* The rules hold of what is left of a program.
LEMMA TailWellFormed ==
  ASSUME NEW s, WellFormed(s), s # <<>>
  PROVE  WellFormed(Tail(s))
<1> DEFINE t == Tail(s)
<1>0. s \in Seq(Steps) /\ Paired(s) /\ Prompt(s) /\ Ordered(s) /\ Deferring(s)
  BY DEF WellFormed
<1>1. /\ t \in Seq(Steps)
      /\ DOMAIN s = 1 .. Len(s) /\ Len(s) \in Nat /\ DOMAIN t = 1 .. Len(s) - 1
      /\ \A k \in DOMAIN t : k + 1 \in DOMAIN s /\ t[k] = s[k + 1]
      /\ \A j \in DOMAIN s : j > 1 => j - 1 \in DOMAIN t /\ t[j - 1] = s[j]
  BY <1>0, TailSteps
<1>2. \A i \in Nat : \A mu :
        /\ \A D : NextStep(t, i, mu, D) <=> NextStep(s, i + 1, mu, D)
        /\ Released(t, i, mu) <=> Released(s, i + 1, mu)
  BY <1>0, TailNext
<1> HIDE DEF t
<1>3. Paired(t)
  <2> SUFFICES ASSUME NEW i \in DOMAIN t
      PROVE  /\ t[i].do \in Opening \cup Locking =>
                  NextStep(t, i, t[i].mu, Successors[t[i].do])
             /\ t[i].do \in Closing => Released(t, i, t[i].mu)
    BY DEF Paired
  <2>1. i \in Nat /\ i + 1 \in DOMAIN s /\ t[i] = s[i + 1]
    BY <1>1
  <2>2. /\ s[i + 1].do \in Opening \cup Locking =>
             NextStep(s, i + 1, s[i + 1].mu, Successors[s[i + 1].do])
        /\ s[i + 1].do \in Closing => Released(s, i + 1, s[i + 1].mu)
    BY <1>0, <2>1 DEF Paired
  <2> QED  BY <1>2, <2>1, <2>2
<1>4. Prompt(t)
  <2> SUFFICES ASSUME NEW i \in DOMAIN t, i > 1, t[i].do \in Locking
      PROVE  t[i-1] = Step("announce", t[i].mu)
    BY DEF Prompt
  <2>1. i + 1 \in DOMAIN s /\ i + 1 > 1 /\ t[i] = s[i + 1] /\ (i + 1) - 1 = i
    BY <1>1
  <2>2. s[i] = Step("announce", s[i + 1].mu)
    BY <1>0, <2>1 DEF Prompt
  <2>3. t[i-1] = s[i]
    BY <1>1
  <2> QED  BY <2>1, <2>2, <2>3
<1>5. Ordered(t)
  <2> SUFFICES ASSUME NEW i \in DOMAIN t, NEW j \in DOMAIN t, i < j,
                    \/ t[i].mu = TailnetMu /\ t[j].mu = RegistryMu /\ t[j].do \in Closing
                    \/ t[i].do = "send" /\ t[j].do = "runlock"
      PROVE  Apart(t, i, j)
    BY DEF Ordered
  <2>1. /\ i + 1 \in DOMAIN s /\ j + 1 \in DOMAIN s /\ i + 1 < j + 1
        /\ t[i] = s[i + 1] /\ t[j] = s[j + 1]
    BY <1>1
  <2>2. Apart(s, i + 1, j + 1)
    BY <1>0, <2>1 DEF Ordered
  <2>3. PICK k \in DOMAIN s : i + 1 < k /\ k < j + 1 /\ s[k].mu = s[j + 1].mu
    BY <2>2 DEF Apart
  <2>4. k - 1 \in DOMAIN t /\ i < k - 1 /\ k - 1 < j /\ t[k - 1].mu = t[j].mu
    BY <1>1, <2>1, <2>3
  <2> QED  BY <2>4 DEF Apart
<1>6. Deferring(t)
  BY <1>0, <1>1 DEF Deferring
<1> QED  BY <1>1, <1>3, <1>4, <1>5, <1>6 DEF WellFormed, t

\* A step changes nothing about the other mutexes.
LEMMA TailOther ==
  ASSUME NEW s \in Seq(Steps), s # <<>>, NEW mu, Head(s).mu # mu, NEW D
  PROVE  NextStep(Tail(s), 0, mu, D) <=> NextStep(s, 0, mu, D)
<1>1. NextStep(Tail(s), 0, mu, D) <=> NextStep(s, 1, mu, D)
  BY TailNext
<1>2. /\ DOMAIN s = 1 .. Len(s) /\ Len(s) \in Nat /\ s[1].mu # mu
  BY TailSteps
<1>3. \A j \in DOMAIN s : 0 < j /\ (j = 1 \/ 1 < j)
  BY <1>2
<1>4. ASSUME NextStep(s, 1, mu, D) PROVE NextStep(s, 0, mu, D)
  <2>1. PICK k \in DOMAIN s :
          /\ 1 < k /\ s[k].mu = mu /\ s[k].do \in D
          /\ \A j \in DOMAIN s : 1 < j /\ j < k => s[j].mu # mu
    BY <1>4 DEF NextStep
  <2> QED  BY <1>2, <1>3, <2>1 DEF NextStep
<1>5. ASSUME NextStep(s, 0, mu, D) PROVE NextStep(s, 1, mu, D)
  <2>1. PICK k \in DOMAIN s :
          /\ 0 < k /\ s[k].mu = mu /\ s[k].do \in D
          /\ \A j \in DOMAIN s : 0 < j /\ j < k => s[j].mu # mu
    BY <1>5 DEF NextStep
  <2> QED  BY <1>2, <1>3, <2>1 DEF NextStep
<1> QED  BY <1>1, <1>4, <1>5

\* The next step is on its mutex.
LEMMA HeadNext ==
  ASSUME NEW s \in Seq(Steps), s # <<>>, NEW D
  PROVE  NextStep(s, 0, Head(s).mu, D) <=> Head(s).do \in D
<1>1. DOMAIN s = 1 .. Len(s) /\ Len(s) \in Nat /\ 1 \in DOMAIN s /\ Head(s) = s[1]
  BY TailSteps
<1>2. \A j \in DOMAIN s : 0 < j /\ ~(j < 1) /\ (j = 1 \/ 1 < j)
  BY <1>1
<1> QED  BY <1>1, <1>2 DEF NextStep

\* What a step with a mutex makes of who holds it.
LEMMA TailSame ==
  ASSUME NEW s, WellFormed(s), s # <<>>, NEW do, NEW mu, Head(s) = Step(do, mu)
  PROVE  /\ do = "announce" =>
              /\ ~Owns(s, mu) /\ ~Unlocks(s, mu) /\ ~RUnlocks(s, mu)
              /\ Owns(Tail(s), mu) /\ ~Unlocks(Tail(s), mu) /\ ~RUnlocks(Tail(s), mu)
         /\ do \in Locking =>
              /\ Owns(s, mu) /\ ~Unlocks(s, mu) /\ ~RUnlocks(s, mu)
              /\ Owns(Tail(s), mu) /\ Unlocks(Tail(s), mu) /\ ~RUnlocks(Tail(s), mu)
         /\ do = "unlock" =>
              /\ Owns(s, mu) /\ Unlocks(s, mu) /\ ~RUnlocks(s, mu)
              /\ ~Owns(Tail(s), mu) /\ ~Unlocks(Tail(s), mu) /\ ~RUnlocks(Tail(s), mu)
         /\ do = "rlock" =>
              /\ ~Owns(s, mu) /\ ~Unlocks(s, mu) /\ ~RUnlocks(s, mu)
              /\ ~Owns(Tail(s), mu) /\ ~Unlocks(Tail(s), mu) /\ RUnlocks(Tail(s), mu)
         /\ do = "runlock" =>
              /\ ~Owns(s, mu) /\ ~Unlocks(s, mu) /\ RUnlocks(s, mu)
              /\ ~Owns(Tail(s), mu) /\ ~Unlocks(Tail(s), mu) /\ ~RUnlocks(Tail(s), mu)
<1> DEFINE t == Tail(s)
<1>0. /\ s \in Seq(Steps) /\ Paired(s) /\ t \in Seq(Steps)
      /\ Head(s).do = do /\ Head(s).mu = mu /\ s[1].do = do /\ s[1].mu = mu /\ 1 \in DOMAIN s
  BY TailSteps DEF WellFormed, Step
<1>1. /\ Owns(s, mu) <=> do \in Locking \cup {"unlock"}
      /\ Unlocks(s, mu) <=> do = "unlock"
      /\ RUnlocks(s, mu) <=> do = "runlock"
  <2>1. \A D : NextStep(s, 0, mu, D) <=> do \in D
    BY <1>0, HeadNext
  <2> QED  BY <2>1 DEF Owns, Unlocks, RUnlocks
<1>2. /\ \A D : NextStep(t, 0, mu, D) <=> NextStep(s, 1, mu, D)
      /\ Released(t, 0, mu) <=> Released(s, 1, mu)
  BY <1>0, TailNext
<1> HIDE DEF t
<1>3. do \in Opening \cup Locking => NextStep(t, 0, mu, Successors[do])
  BY <1>0, <1>2 DEF Paired
<1>4. do \in Closing => ~Owns(t, mu) /\ ~Unlocks(t, mu) /\ ~RUnlocks(t, mu)
  BY <1>0, <1>2, ReleasedHoldsNothing DEF Paired
<1>5. do = "announce" => Owns(t, mu) /\ ~Unlocks(t, mu) /\ ~RUnlocks(t, mu)
  <2> SUFFICES ASSUME do = "announce"
      PROVE  Owns(t, mu) /\ ~Unlocks(t, mu) /\ ~RUnlocks(t, mu)
    OBVIOUS
  <2>1. NextStep(t, 0, mu, Locking)
    BY <1>3 DEF Successors, Opening
  <2> QED  BY <1>0, <2>1, NextStepMonotonic, NextStepUnique
            DEF Owns, Unlocks, RUnlocks, Locking
<1>6. do \in Locking => Owns(t, mu) /\ Unlocks(t, mu) /\ ~RUnlocks(t, mu)
  <2> SUFFICES ASSUME do \in Locking
      PROVE  Owns(t, mu) /\ Unlocks(t, mu) /\ ~RUnlocks(t, mu)
    OBVIOUS
  <2>1. Successors[do] = {"unlock"}
    BY DEF Successors, Locking
  <2>2. Unlocks(t, mu)
    BY <1>3, <2>1 DEF Unlocks
  <2> QED  BY <1>0, <2>2, UnlocksOwns
<1>7. do = "rlock" => ~Owns(t, mu) /\ ~Unlocks(t, mu) /\ RUnlocks(t, mu)
  <2> SUFFICES ASSUME do = "rlock"
      PROVE  ~Owns(t, mu) /\ ~Unlocks(t, mu) /\ RUnlocks(t, mu)
    OBVIOUS
  <2>1. NextStep(t, 0, mu, {"runlock"})
    BY <1>3 DEF Successors, Opening
  <2> QED  BY <1>0, <2>1, NextStepUnique DEF Owns, Unlocks, RUnlocks, Locking
<1> QED  BY <1>1, <1>4, <1>5, <1>6, <1>7 DEF Locking, Closing, t

\* In the middle of a Lock nothing else is done.
LEMMA LockingIsNext ==
  ASSUME NEW s, WellFormed(s), s # <<>>, NEW mu, NextStep(s, 0, mu, Locking)
  PROVE  Head(s).do \in Locking /\ Head(s).mu = mu
<1>1. s \in Seq(Steps) /\ Prompt(s) /\ DOMAIN s = 1 .. Len(s) /\ Len(s) \in Nat /\ Head(s) = s[1]
  BY TailSteps DEF WellFormed
<1>2. PICK k \in DOMAIN s :
        /\ s[k].mu = mu /\ s[k].do \in Locking
        /\ \A j \in DOMAIN s : 0 < j /\ j < k => s[j].mu # mu
  BY DEF NextStep
<1>3. ASSUME k > 1 PROVE FALSE
  <2>1. s[k-1] = Step("announce", mu)
    BY <1>1, <1>2, <1>3 DEF Prompt
  <2>2. k - 1 \in DOMAIN s /\ 0 < k - 1 /\ k - 1 < k
    BY <1>1, <1>3
  <2> QED  BY <1>2, <2>1, <2>2 DEF Step
<1>4. k = 1
  BY <1>1, <1>3
<1> QED  BY <1>1, <1>2, <1>4

\* Nobody reads when it broadcasts.
LEMMA SendNotReading ==
  ASSUME NEW s, WellFormed(s), s # <<>>, Head(s).do = "send", NEW mu
  PROVE  ~RUnlocks(s, mu)
<1>1. /\ s \in Seq(Steps) /\ Ordered(s) /\ DOMAIN s = 1 .. Len(s) /\ Len(s) \in Nat
      /\ Head(s) = s[1] /\ 1 \in DOMAIN s
  BY TailSteps DEF WellFormed
<1> SUFFICES ASSUME RUnlocks(s, mu) PROVE FALSE
  OBVIOUS
<1>2. PICK k \in DOMAIN s :
        /\ s[k].mu = mu /\ s[k].do = "runlock"
        /\ \A j \in DOMAIN s : 0 < j /\ j < k => s[j].mu # mu
  BY DEF RUnlocks, NextStep
<1>3. 1 < k
  BY <1>1, <1>2
<1>4. Apart(s, 1, k)
  BY <1>1, <1>2, <1>3 DEF Ordered
<1> QED  BY <1>1, <1>2, <1>4 DEF Apart

\* Who holds the mutex of the registry does not go for that of a tailnet.
LEMMA RegistryIsInner ==
  ASSUME NEW s, WellFormed(s), s # <<>>,
         Unlocks(s, RegistryMu) \/ RUnlocks(s, RegistryMu)
  PROVE  Head(s).mu # TailnetMu
<1>1. /\ s \in Seq(Steps) /\ Ordered(s) /\ DOMAIN s = 1 .. Len(s) /\ Len(s) \in Nat
      /\ Head(s) = s[1] /\ 1 \in DOMAIN s
  BY TailSteps DEF WellFormed
<1>2. PICK k \in DOMAIN s :
        /\ s[k].mu = RegistryMu /\ s[k].do \in Closing
        /\ \A j \in DOMAIN s : 0 < j /\ j < k => s[j].mu # RegistryMu
  BY DEF Unlocks, RUnlocks, NextStep, Closing
<1> SUFFICES ASSUME s[1].mu = TailnetMu PROVE FALSE
  BY <1>1
<1>3. 1 < k
  BY <1>1, <1>2, MutexesDiffer
<1>4. Apart(s, 1, k)
  BY <1>1, <1>2, <1>3 DEF Ordered
<1> QED  BY <1>1, <1>2, <1>4 DEF Apart

-----------------------------------------------------------------------------
(* The inductive invariant. *)

Types ==
  /\ program \in [Goroutines -> Seq(Steps)]
  /\ writer \in [Mutexes -> Goroutines \cup {Nobody, Gone}]
  /\ readers \in [Mutexes -> SUBSET Goroutines]
  /\ deferred \in [Goroutines -> SUBSET Mutexes]
  /\ exited \in BOOLEAN

\* The mutexes know who writes and who reads.
Books ==
  \A g \in Goroutines, mu \in Mutexes :
    /\ writer[mu] = g <=> Owns(program[g], mu)
    /\ g \in readers[mu] <=> RUnlocks(program[g], mu)

\* Unless a panic has ended the process, who has deferred an Unlock still writes,
\* and who writes in the registry has deferred it.
Deferred ==
  \A g \in Goroutines :
    /\ \A mu \in deferred[g] : Unlocks(program[g], mu)
    /\ Unlocks(program[g], RegistryMu) => RegistryMu \in deferred[g]

\* Who has nothing to do has deferred nothing.
Idlers == \A g \in Goroutines : program[g] = <<>> => deferred[g] = {}

\* Nobody reads where somebody writes.
Exclusive ==
  \A g \in Goroutines, mu \in Mutexes : Unlocks(program[g], mu) => readers[mu] = {}

IInv ==
  /\ Types
  /\ \A g \in Goroutines : WellFormed(program[g])
  /\ Books
  /\ Deferred \/ (exited /\ Idlers)
  /\ Exclusive
  /\ RegistryNotLost

\* At first nobody does anything.
LEMMA InvariantInit == Init => IInv
<1> SUFFICES ASSUME Init PROVE IInv
  OBVIOUS
<1>1. \A g \in Goroutines : program[g] = <<>>
  BY DEF Init
<1>2. WellFormed(<<>>)
  BY IdleEmpty DEF Idle, Inner, Complete
<1>3. Types
  BY <1>2 DEF Init, Types, WellFormed
<1>4. Books
  BY <1>1, EmptyHoldsNothing, LocksAssumption DEF Init, Books
<1>5. Deferred /\ Exclusive
  BY <1>1, EmptyHoldsNothing DEF Init, Deferred, Exclusive
<1>6. RegistryNotLost
  BY DEF Init, RegistryNotLost, Nobody, Gone, Mutexes
<1> QED  BY <1>1, <1>2, <1>3, <1>4, <1>5, <1>6 DEF IInv

\* What a goroutine that goes on changes, and what it does not.
LEMMA GoingOn ==
  ASSUME IInv, NEW g \in Goroutines, NEW do, NEW mu, Does(g, do, mu), GoesOn(g)
  PROVE  /\ program' \in [Goroutines -> Seq(Steps)]
         /\ \A h \in Goroutines : WellFormed(program'[h])
         /\ \A h \in Goroutines, m \in Mutexes : h # g \/ m # mu =>
              /\ Owns(program'[h], m) <=> Owns(program[h], m)
              /\ Unlocks(program'[h], m) <=> Unlocks(program[h], m)
              /\ RUnlocks(program'[h], m) <=> RUnlocks(program[h], m)
         /\ do = "announce" =>
              /\ ~Owns(program[g], mu) /\ ~Unlocks(program[g], mu) /\ ~RUnlocks(program[g], mu)
              /\ Owns(program'[g], mu) /\ ~Unlocks(program'[g], mu) /\ ~RUnlocks(program'[g], mu)
         /\ do \in Locking =>
              /\ Owns(program[g], mu) /\ ~Unlocks(program[g], mu) /\ ~RUnlocks(program[g], mu)
              /\ Owns(program'[g], mu) /\ Unlocks(program'[g], mu) /\ ~RUnlocks(program'[g], mu)
         /\ do = "unlock" =>
              /\ Owns(program[g], mu) /\ Unlocks(program[g], mu) /\ ~RUnlocks(program[g], mu)
              /\ ~Owns(program'[g], mu) /\ ~Unlocks(program'[g], mu) /\ ~RUnlocks(program'[g], mu)
         /\ do = "rlock" =>
              /\ ~Owns(program[g], mu) /\ ~Unlocks(program[g], mu) /\ ~RUnlocks(program[g], mu)
              /\ ~Owns(program'[g], mu) /\ ~Unlocks(program'[g], mu) /\ RUnlocks(program'[g], mu)
         /\ do = "runlock" =>
              /\ ~Owns(program[g], mu) /\ ~Unlocks(program[g], mu) /\ RUnlocks(program[g], mu)
              /\ ~Owns(program'[g], mu) /\ ~Unlocks(program'[g], mu) /\ ~RUnlocks(program'[g], mu)
<1>1. /\ program \in [Goroutines -> Seq(Steps)]
      /\ WellFormed(program[g]) /\ program[g] # <<>> /\ Head(program[g]) = Step(do, mu)
      /\ program[g] \in Seq(Steps)
  BY DEF IInv, Types, Does
<1>2. /\ program'[g] = Tail(program[g])
      /\ \A h \in Goroutines : h # g => program'[h] = program[h]
  BY <1>1 DEF GoesOn
<1>3. Tail(program[g]) \in Seq(Steps) /\ WellFormed(Tail(program[g]))
  BY <1>1, TailWellFormed DEF WellFormed
<1>4. program' \in [Goroutines -> Seq(Steps)]
  BY <1>1, <1>3 DEF GoesOn
<1>5. \A h \in Goroutines : WellFormed(program'[h])
  BY <1>2, <1>3 DEF IInv
<1>6. ASSUME NEW m, m # mu
      PROVE  \A D : NextStep(program'[g], 0, m, D) <=> NextStep(program[g], 0, m, D)
  BY <1>1, <1>2, <1>6, TailOther DEF Step
<1>7. \A h \in Goroutines, m \in Mutexes : h # g \/ m # mu =>
        /\ Owns(program'[h], m) <=> Owns(program[h], m)
        /\ Unlocks(program'[h], m) <=> Unlocks(program[h], m)
        /\ RUnlocks(program'[h], m) <=> RUnlocks(program[h], m)
  BY <1>2, <1>6 DEF Owns, Unlocks, RUnlocks
<1> QED  BY <1>1, <1>2, <1>4, <1>5, <1>7, TailSame

-----------------------------------------------------------------------------
(* Every step keeps it. *)

\* A goroutine that holds nothing takes up a program.
LEMMA BeginStep ==
  ASSUME IInv, NEW g \in Goroutines, Begin(g)
  PROVE  IInv'
<1>1. program[g] = <<>> /\ ~exited
  BY DEF Begin
<1>2. PICK p \in Paths(g) : program' = [program EXCEPT ![g] = p]
  BY DEF Begin
<1>3. WellFormed(p) /\ p \in Seq(Steps) /\ \A mu \in Mutexes : Released(p, 0, mu)
  BY PathsComplete DEF Complete, WellFormed
<1>4. /\ program'[g] = p /\ program' \in [Goroutines -> Seq(Steps)]
      /\ \A h \in Goroutines : h # g => program'[h] = program[h]
  BY <1>2, <1>3 DEF IInv, Types
<1>5. \A mu \in Mutexes : ~Owns(p, mu) /\ ~Unlocks(p, mu) /\ ~RUnlocks(p, mu)
  BY <1>3, ReleasedHoldsNothing
<1>6. \A h \in Goroutines, mu \in Mutexes :
        /\ Owns(program'[h], mu) <=> Owns(program[h], mu)
        /\ Unlocks(program'[h], mu) <=> Unlocks(program[h], mu)
        /\ RUnlocks(program'[h], mu) <=> RUnlocks(program[h], mu)
  BY <1>1, <1>4, <1>5, EmptyHoldsNothing
<1>7. UNCHANGED <<writer, readers, deferred, exited>>
  BY DEF Begin
<1>8. Types' /\ RegistryNotLost'
  BY <1>4, <1>7 DEF IInv, Types, RegistryNotLost
<1>9. \A h \in Goroutines : WellFormed(program'[h])
  BY <1>3, <1>4 DEF IInv
<1>10. Books' /\ Exclusive'
  BY <1>6, <1>7 DEF IInv, Books, Exclusive
<1>11. Deferred'
  BY <1>1, <1>6, <1>7 DEF IInv, Types, Deferred, Mutexes
<1> QED  BY <1>8, <1>9, <1>10, <1>11 DEF IInv

\* Where nobody comes to write or ceases to, what is deferred is still right.
LEMMA DeferredKept ==
  ASSUME IInv, ~exited, deferred' = deferred,
         \A h \in Goroutines, m \in Mutexes :
           Unlocks(program'[h], m) <=> Unlocks(program[h], m)
  PROVE  Deferred'
BY DEF IInv, Types, Deferred, Mutexes

\* Lock is called: nobody was writing.
LEMMA AnnounceStep ==
  ASSUME IInv, NEW g \in Goroutines, NEW mu \in Mutexes, Announce(g, mu)
  PROVE  IInv'
<1>1. Does(g, "announce", mu) /\ GoesOn(g) /\ writer[mu] = Nobody /\ ~exited
  BY DEF Announce, Does
<1>2. /\ writer' = [writer EXCEPT ![mu] = g]
      /\ readers' = readers /\ deferred' = deferred /\ exited' = exited
  BY DEF Announce
<1>3. /\ program' \in [Goroutines -> Seq(Steps)]
      /\ \A h \in Goroutines : WellFormed(program'[h])
      /\ \A h \in Goroutines, m \in Mutexes : h # g \/ m # mu =>
           /\ Owns(program'[h], m) <=> Owns(program[h], m)
           /\ Unlocks(program'[h], m) <=> Unlocks(program[h], m)
           /\ RUnlocks(program'[h], m) <=> RUnlocks(program[h], m)
      /\ ~Owns(program[g], mu) /\ ~Unlocks(program[g], mu) /\ ~RUnlocks(program[g], mu)
      /\ Owns(program'[g], mu) /\ ~Unlocks(program'[g], mu) /\ ~RUnlocks(program'[g], mu)
  BY <1>1, GoingOn
<1>4. /\ g \notin {Nobody, Gone} /\ writer'[mu] = g
      /\ \A m \in Mutexes : m # mu => writer'[m] = writer[m]
  BY <1>2, LocksAssumption DEF IInv, Types
<1>5. Types' /\ RegistryNotLost'
  BY <1>2, <1>3, <1>4 DEF IInv, Types, RegistryNotLost, Mutexes
<1>6. Books'
  <2> SUFFICES ASSUME NEW h \in Goroutines, NEW m \in Mutexes
      PROVE  /\ writer'[m] = h <=> Owns(program'[h], m)
             /\ h \in readers'[m] <=> RUnlocks(program'[h], m)
    BY DEF Books
  <2>1. /\ writer[m] = h <=> Owns(program[h], m)
        /\ h \in readers[m] <=> RUnlocks(program[h], m)
        /\ h \notin {Nobody, Gone}
    BY LocksAssumption DEF IInv, Books
  <2> QED  BY <1>1, <1>2, <1>3, <1>4, <2>1
<1>7. \A h \in Goroutines, m \in Mutexes :
        Unlocks(program'[h], m) <=> Unlocks(program[h], m)
  BY <1>3
<1>8. Deferred' /\ Exclusive'
  BY <1>1, <1>2, <1>7, DeferredKept DEF IInv, Exclusive
<1> QED  BY <1>3, <1>5, <1>6, <1>8 DEF IInv

\* Lock returns: nobody is reading.
LEMMA LockStep ==
  ASSUME IInv, NEW g \in Goroutines, NEW mu \in Mutexes, Lock(g, mu)
  PROVE  IInv'
<1>1. PICK do \in Locking :
        /\ Does(g, do, mu) /\ GoesOn(g) /\ readers[mu] = {} /\ ~exited
        /\ IF do = "lock" THEN deferred' = deferred
           ELSE deferred' = [deferred EXCEPT ![g] = @ \cup {mu}]
  <2>1. "lock" \in Locking /\ "lockAndDefer" \in Locking
    BY DEF Locking
  <2> QED  BY <2>1 DEF Lock, Does
<1>2. writer' = writer /\ readers' = readers /\ exited' = exited
  BY DEF Lock
<1>3. /\ program' \in [Goroutines -> Seq(Steps)]
      /\ \A h \in Goroutines : WellFormed(program'[h])
      /\ \A h \in Goroutines, m \in Mutexes : h # g \/ m # mu =>
           /\ Owns(program'[h], m) <=> Owns(program[h], m)
           /\ Unlocks(program'[h], m) <=> Unlocks(program[h], m)
           /\ RUnlocks(program'[h], m) <=> RUnlocks(program[h], m)
      /\ Owns(program[g], mu) /\ ~Unlocks(program[g], mu) /\ ~RUnlocks(program[g], mu)
      /\ Owns(program'[g], mu) /\ Unlocks(program'[g], mu) /\ ~RUnlocks(program'[g], mu)
  BY <1>1, GoingOn
<1>4. Types' /\ RegistryNotLost'
  <2>1. deferred' \in [Goroutines -> SUBSET Mutexes]
    <3>1. CASE do = "lock"
      BY <1>1, <3>1 DEF IInv, Types
    <3>2. CASE do # "lock"
      BY <1>1, <3>2 DEF IInv, Types
    <3> QED  BY <3>1, <3>2
  <2> QED  BY <1>2, <1>3, <2>1 DEF IInv, Types, RegistryNotLost
<1>5. Books'
  BY <1>2, <1>3 DEF IInv, Books
<1>6. Exclusive'
  BY <1>1, <1>2, <1>3 DEF IInv, Exclusive
<1>7. do = "lock" => mu # RegistryMu
  <2>1. /\ Deferring(program[g]) /\ program[g] \in Seq(Steps) /\ program[g] # <<>>
        /\ Head(program[g]) = Step(do, mu)
    BY <1>1 DEF IInv, WellFormed, Does
  <2>2. 1 \in DOMAIN program[g] /\ Head(program[g]) = program[g][1]
    BY <2>1, TailSteps
  <2> QED  BY <2>1, <2>2 DEF Deferring
<1>8. Deferred'
  <2> SUFFICES ASSUME NEW h \in Goroutines
      PROVE  /\ \A m \in deferred'[h] : Unlocks(program'[h], m)
             /\ Unlocks(program'[h], RegistryMu) => RegistryMu \in deferred'[h]
    BY DEF Deferred
  <2>1. /\ \A m \in deferred[h] : Unlocks(program[h], m)
        /\ Unlocks(program[h], RegistryMu) => RegistryMu \in deferred[h]
        /\ deferred[h] \subseteq Mutexes /\ RegistryMu \in Mutexes
    BY <1>1 DEF IInv, Types, Deferred, Mutexes
  <2>2. CASE do = "lock"
    BY <1>1, <1>3, <1>7, <2>1, <2>2
  <2>3. CASE do # "lock"
    <3>1. /\ deferred'[g] = deferred[g] \cup {mu}
          /\ h # g => deferred'[h] = deferred[h]
      BY <1>1, <2>3 DEF IInv, Types
    <3> QED  BY <1>3, <2>1, <3>1
  <2> QED  BY <2>2, <2>3
<1> QED  BY <1>3, <1>4, <1>5, <1>6, <1>8 DEF IInv

\* Unlock.
LEMMA UnlockStep ==
  ASSUME IInv, NEW g \in Goroutines, NEW mu \in Mutexes, Unlock(g, mu)
  PROVE  IInv'
<1>1. Does(g, "unlock", mu) /\ GoesOn(g) /\ ~exited
  BY DEF Unlock, Does
<1>2. /\ writer' = [writer EXCEPT ![mu] = Nobody]
      /\ deferred' = [deferred EXCEPT ![g] = @ \ {mu}]
      /\ readers' = readers /\ exited' = exited
  BY DEF Unlock
<1>3. /\ program' \in [Goroutines -> Seq(Steps)]
      /\ \A h \in Goroutines : WellFormed(program'[h])
      /\ \A h \in Goroutines, m \in Mutexes : h # g \/ m # mu =>
           /\ Owns(program'[h], m) <=> Owns(program[h], m)
           /\ Unlocks(program'[h], m) <=> Unlocks(program[h], m)
           /\ RUnlocks(program'[h], m) <=> RUnlocks(program[h], m)
      /\ Owns(program[g], mu) /\ Unlocks(program[g], mu) /\ ~RUnlocks(program[g], mu)
      /\ ~Owns(program'[g], mu) /\ ~Unlocks(program'[g], mu) /\ ~RUnlocks(program'[g], mu)
  BY <1>1, GoingOn
<1>4. /\ writer'[mu] = Nobody /\ writer[mu] = g
      /\ \A m \in Mutexes : m # mu => writer'[m] = writer[m]
      /\ deferred'[g] = deferred[g] \ {mu} /\ deferred[g] \subseteq Mutexes
      /\ \A h \in Goroutines : h # g => deferred'[h] = deferred[h]
  BY <1>2, <1>3 DEF IInv, Types, Books
<1>5. Types' /\ RegistryNotLost'
  <2>1. Nobody # Gone
    BY DEF Nobody, Gone
  <2>2. Types'
    BY <1>2, <1>3 DEF IInv, Types
  <2> QED  BY <1>4, <2>1, <2>2 DEF IInv, RegistryNotLost, Mutexes
<1>6. Books'
  <2> SUFFICES ASSUME NEW h \in Goroutines, NEW m \in Mutexes
      PROVE  /\ writer'[m] = h <=> Owns(program'[h], m)
             /\ h \in readers'[m] <=> RUnlocks(program'[h], m)
    BY DEF Books
  <2>1. /\ writer[m] = h <=> Owns(program[h], m)
        /\ h \in readers[m] <=> RUnlocks(program[h], m)
        /\ h \notin {Nobody, Gone}
    BY LocksAssumption DEF IInv, Books
  <2> QED  BY <1>2, <1>3, <1>4, <2>1
<1>7. Deferred'
  <2> SUFFICES ASSUME NEW h \in Goroutines
      PROVE  /\ \A m \in deferred'[h] : Unlocks(program'[h], m)
             /\ Unlocks(program'[h], RegistryMu) => RegistryMu \in deferred'[h]
    BY DEF Deferred
  <2>1. /\ \A m \in deferred[h] : Unlocks(program[h], m)
        /\ Unlocks(program[h], RegistryMu) => RegistryMu \in deferred[h]
        /\ deferred[h] \subseteq Mutexes /\ RegistryMu \in Mutexes
    BY <1>1 DEF IInv, Types, Deferred, Mutexes
  <2>2. CASE h = g
    BY <1>3, <1>4, <2>1, <2>2
  <2>3. CASE h # g
    BY <1>3, <1>4, <2>1, <2>3
  <2> QED  BY <2>2, <2>3
<1>8. Exclusive'
  <2>1. \A h \in Goroutines, m \in Mutexes :
          Unlocks(program'[h], m) => Unlocks(program[h], m)
    BY <1>3
  <2> QED  BY <1>2, <2>1 DEF IInv, Exclusive
<1> QED  BY <1>3, <1>5, <1>6, <1>7, <1>8 DEF IInv

\* RLock returns: nobody has called Lock.
LEMMA RLockStep ==
  ASSUME IInv, NEW g \in Goroutines, NEW mu \in Mutexes, RLock(g, mu)
  PROVE  IInv'
<1>1. Does(g, "rlock", mu) /\ GoesOn(g) /\ writer[mu] = Nobody /\ ~exited
  BY DEF RLock, Does
<1>2. /\ readers' = [readers EXCEPT ![mu] = @ \cup {g}]
      /\ writer' = writer /\ deferred' = deferred /\ exited' = exited
  BY DEF RLock
<1>3. /\ program' \in [Goroutines -> Seq(Steps)]
      /\ \A h \in Goroutines : WellFormed(program'[h])
      /\ \A h \in Goroutines, m \in Mutexes : h # g \/ m # mu =>
           /\ Owns(program'[h], m) <=> Owns(program[h], m)
           /\ Unlocks(program'[h], m) <=> Unlocks(program[h], m)
           /\ RUnlocks(program'[h], m) <=> RUnlocks(program[h], m)
      /\ ~Owns(program[g], mu) /\ ~Unlocks(program[g], mu) /\ ~RUnlocks(program[g], mu)
      /\ ~Owns(program'[g], mu) /\ ~Unlocks(program'[g], mu) /\ RUnlocks(program'[g], mu)
  BY <1>1, GoingOn
<1>4. /\ readers'[mu] = readers[mu] \cup {g}
      /\ \A m \in Mutexes : m # mu => readers'[m] = readers[m]
  BY <1>2 DEF IInv, Types
<1>5. Types' /\ RegistryNotLost'
  BY <1>2, <1>3 DEF IInv, Types, RegistryNotLost
<1>6. Books'
  BY <1>2, <1>3, <1>4 DEF IInv, Books
<1>7. \A h \in Goroutines : ~Unlocks(program[h], mu)
  <2> SUFFICES ASSUME NEW h \in Goroutines, Unlocks(program[h], mu) PROVE FALSE
    OBVIOUS
  <2>1. Owns(program[h], mu)
    BY UnlocksOwns DEF IInv, Types
  <2> QED  BY <1>1, <2>1, LocksAssumption DEF IInv, Books
<1>8. \A h \in Goroutines, m \in Mutexes :
        Unlocks(program'[h], m) <=> Unlocks(program[h], m)
  BY <1>3
<1>9. Deferred'
  BY <1>1, <1>2, <1>8, DeferredKept
<1>10. Exclusive'
  BY <1>4, <1>7, <1>8 DEF IInv, Exclusive
<1> QED  BY <1>3, <1>5, <1>6, <1>9, <1>10 DEF IInv

\* RUnlock.
LEMMA RUnlockStep ==
  ASSUME IInv, NEW g \in Goroutines, NEW mu \in Mutexes, RUnlock(g, mu)
  PROVE  IInv'
<1>1. Does(g, "runlock", mu) /\ GoesOn(g) /\ ~exited
  BY DEF RUnlock, Does
<1>2. /\ readers' = [readers EXCEPT ![mu] = @ \ {g}]
      /\ writer' = writer /\ deferred' = deferred /\ exited' = exited
  BY DEF RUnlock
<1>3. /\ program' \in [Goroutines -> Seq(Steps)]
      /\ \A h \in Goroutines : WellFormed(program'[h])
      /\ \A h \in Goroutines, m \in Mutexes : h # g \/ m # mu =>
           /\ Owns(program'[h], m) <=> Owns(program[h], m)
           /\ Unlocks(program'[h], m) <=> Unlocks(program[h], m)
           /\ RUnlocks(program'[h], m) <=> RUnlocks(program[h], m)
      /\ ~Owns(program[g], mu) /\ ~Unlocks(program[g], mu) /\ RUnlocks(program[g], mu)
      /\ ~Owns(program'[g], mu) /\ ~Unlocks(program'[g], mu) /\ ~RUnlocks(program'[g], mu)
  BY <1>1, GoingOn
<1>4. /\ readers'[mu] = readers[mu] \ {g}
      /\ \A m \in Mutexes : m # mu => readers'[m] = readers[m]
  BY <1>2 DEF IInv, Types
<1>5. Types' /\ RegistryNotLost'
  BY <1>2, <1>3 DEF IInv, Types, RegistryNotLost
<1>6. Books'
  BY <1>2, <1>3, <1>4 DEF IInv, Books
<1>7. \A h \in Goroutines, m \in Mutexes :
        Unlocks(program'[h], m) <=> Unlocks(program[h], m)
  BY <1>3
<1>8. Deferred'
  BY <1>1, <1>2, <1>7, DeferredKept
<1>9. Exclusive'
  <2> SUFFICES ASSUME NEW h \in Goroutines, NEW m \in Mutexes, Unlocks(program[h], m)
      PROVE  readers'[m] = {}
    BY <1>7 DEF Exclusive
  <2>1. readers[m] = {}
    BY DEF IInv, Exclusive
  <2> QED  BY <1>4, <2>1
<1> QED  BY <1>3, <1>5, <1>6, <1>8, <1>9 DEF IInv

\* A broadcast and the end of a Close change nothing about the mutexes.
LEMMA OtherStep ==
  ASSUME IInv, NEW g \in Goroutines, NEW do, Does(g, do, NoMutex), GoesOn(g),
         UNCHANGED <<writer, readers, deferred, exited>>
  PROVE  IInv'
<1>1. /\ program' \in [Goroutines -> Seq(Steps)]
      /\ \A h \in Goroutines : WellFormed(program'[h])
      /\ \A h \in Goroutines, m \in Mutexes :
           /\ Owns(program'[h], m) <=> Owns(program[h], m)
           /\ Unlocks(program'[h], m) <=> Unlocks(program[h], m)
           /\ RUnlocks(program'[h], m) <=> RUnlocks(program[h], m)
  BY GoingOn, MutexesDiffer
<1>2. Types' /\ RegistryNotLost'
  BY <1>1 DEF IInv, Types, RegistryNotLost
<1>3. Books' /\ Exclusive'
  BY <1>1 DEF IInv, Books, Exclusive
<1>4. Deferred'
  <2>1. ~exited
    BY DEF Does
  <2> QED  BY <1>1, <2>1, DeferredKept
<1> QED  BY <1>1, <1>2, <1>3, <1>4 DEF IInv

\* A panic: who broadcasts reads nowhere, and in the registry it has deferred the
\* Unlock.
LEMMA PanicStep ==
  ASSUME IInv, NEW g \in Goroutines, Panic(g)
  PROVE  IInv'
<1>1. /\ ~exited /\ program[g] # <<>> /\ Head(program[g]) = Step("send", NoMutex)
      /\ WellFormed(program[g]) /\ program[g] \in Seq(Steps)
  BY DEF Panic, Does, IInv, WellFormed
<1>2. readers' = readers /\ deferred' = [deferred EXCEPT ![g] = {}]
  BY DEF Panic
<1>3. CASE g \notin Requests
  <2>1. exited' = TRUE /\ program' = program /\ writer' = writer
    BY <1>3 DEF Panic
  <2>2. Idlers'
    <3> SUFFICES ASSUME NEW h \in Goroutines, program[h] = <<>> PROVE deferred'[h] = {}
      BY <2>1 DEF Idlers
    <3>1. h # g /\ \A mu \in deferred[h] : Unlocks(program[h], mu)
      BY <1>1 DEF IInv, Deferred
    <3>2. deferred[h] = {}
      BY <3>1, EmptyHoldsNothing
    <3> QED  BY <1>2, <3>1, <3>2 DEF IInv, Types
  <2>3. Types'
    BY <1>2, <2>1 DEF IInv, Types
  <2> QED  BY <1>2, <2>1, <2>2, <2>3 DEF IInv, Books, Exclusive, RegistryNotLost
<1>4. CASE g \in Requests
  <2>1. /\ program' = [program EXCEPT ![g] = <<>>]
        /\ writer' = [mu \in Mutexes |->
             IF writer[mu] # g THEN writer[mu]
             ELSE IF mu \in deferred[g] THEN Nobody ELSE Gone]
        /\ exited' = exited
    BY <1>4 DEF Panic
  <2>2. /\ program'[g] = <<>> /\ program' \in [Goroutines -> Seq(Steps)]
        /\ \A h \in Goroutines : h # g => program'[h] = program[h]
        /\ deferred'[g] = {} /\ deferred' \in [Goroutines -> SUBSET Mutexes]
        /\ \A h \in Goroutines : h # g => deferred'[h] = deferred[h]
    BY <1>2, <2>1 DEF IInv, Types
  <2>3. Types'
    BY <1>2, <2>1, <2>2 DEF IInv, Types
  <2>4. WellFormed(<<>>)
    BY IdleEmpty DEF Idle, Inner, Complete
  <2>5. \A h \in Goroutines : WellFormed(program'[h])
    BY <2>2, <2>4 DEF IInv
  <2>6. Books'
    <3> SUFFICES ASSUME NEW h \in Goroutines, NEW m \in Mutexes
        PROVE  /\ writer'[m] = h <=> Owns(program'[h], m)
               /\ h \in readers'[m] <=> RUnlocks(program'[h], m)
      BY DEF Books
    <3>1. /\ writer[m] = h <=> Owns(program[h], m)
          /\ h \in readers[m] <=> RUnlocks(program[h], m)
          /\ h \notin {Nobody, Gone}
      BY LocksAssumption DEF IInv, Books
    <3>2. CASE h = g
      <4>1. ~RUnlocks(program[g], m)
        BY <1>1, SendNotReading DEF Step
      <4>2. writer'[m] # g
        BY <2>1, <3>1, <3>2
      <4> QED  BY <1>2, <2>2, <3>1, <3>2, <4>1, <4>2, EmptyHoldsNothing
    <3>3. CASE h # g
      <4>1. writer'[m] = h <=> writer[m] = h
        BY <2>1, <3>1, <3>3
      <4> QED  BY <1>2, <2>2, <3>1, <3>3, <4>1
    <3> QED  BY <3>2, <3>3
  <2>7. \A h \in Goroutines : \A m :
          Unlocks(program'[h], m) => h # g /\ Unlocks(program[h], m)
    BY <2>2, EmptyHoldsNothing
  <2>8. Deferred'
    <3> SUFFICES ASSUME NEW h \in Goroutines
        PROVE  /\ \A m \in deferred'[h] : Unlocks(program'[h], m)
               /\ Unlocks(program'[h], RegistryMu) => RegistryMu \in deferred'[h]
      BY DEF Deferred
    <3>1. CASE h = g
      BY <2>2, <2>7, <3>1
    <3>2. CASE h # g
      BY <1>1, <2>2, <3>2 DEF IInv, Deferred
    <3> QED  BY <3>1, <3>2
  <2>9. Exclusive'
    BY <1>2, <2>7 DEF IInv, Exclusive
  <2>10. RegistryNotLost'
    <3>1. RegistryMu \in Mutexes /\ Nobody # Gone
      BY DEF Mutexes, Nobody, Gone
    <3>2. CASE writer[RegistryMu] # g
      BY <2>1, <3>1, <3>2 DEF IInv, RegistryNotLost
    <3>3. CASE writer[RegistryMu] = g
      <4>1. Owns(program[g], RegistryMu)
        BY <3>1, <3>3 DEF IInv, Books
      <4>2. ~NextStep(program[g], 0, RegistryMu, Locking)
        BY <1>1, LockingIsNext DEF Step, Locking
      <4>3. Unlocks(program[g], RegistryMu)
        BY <4>1, <4>2 DEF Owns, Unlocks, NextStep
      <4>4. RegistryMu \in deferred[g]
        BY <1>1, <4>3 DEF IInv, Deferred
      <4> QED  BY <2>1, <3>1, <3>3, <4>4 DEF RegistryNotLost
    <3> QED  BY <3>2, <3>3
  <2> QED  BY <2>3, <2>5, <2>6, <2>8, <2>9, <2>10 DEF IInv
<1> QED  BY <1>3, <1>4

\* Every step keeps the invariant.
LEMMA InvariantStep == IInv /\ [Next]_vars => IInv'
<1> SUFFICES ASSUME IInv, [Next]_vars PROVE IInv'
  OBVIOUS
<1>1. ASSUME NEW g \in Goroutines, Begin(g) PROVE IInv'
  BY <1>1, BeginStep
<1>2. ASSUME NEW g \in Goroutines, NEW mu \in Mutexes, Announce(g, mu) PROVE IInv'
  BY <1>2, AnnounceStep
<1>3. ASSUME NEW g \in Goroutines, NEW mu \in Mutexes, Lock(g, mu) PROVE IInv'
  BY <1>3, LockStep
<1>4. ASSUME NEW g \in Goroutines, NEW mu \in Mutexes, Unlock(g, mu) PROVE IInv'
  BY <1>4, UnlockStep
<1>5. ASSUME NEW g \in Goroutines, NEW mu \in Mutexes, RLock(g, mu) PROVE IInv'
  BY <1>5, RLockStep
<1>6. ASSUME NEW g \in Goroutines, NEW mu \in Mutexes, RUnlock(g, mu) PROVE IInv'
  BY <1>6, RUnlockStep
<1>7. ASSUME NEW g \in Goroutines, Send(g) PROVE IInv'
  BY <1>7, OtherStep DEF Send
<1>8. ASSUME NEW g \in Goroutines, CloseReturns(g) PROVE IInv'
  BY <1>8, OtherStep DEF CloseReturns
<1>9. ASSUME NEW g \in Goroutines, Panic(g) PROVE IInv'
  BY <1>9, PanicStep
<1>10. CASE UNCHANGED vars
  BY <1>10 DEF vars, IInv, Types, Books, Deferred, Idlers, Exclusive, RegistryNotLost
<1> QED  BY <1>1, <1>2, <1>3, <1>4, <1>5, <1>6, <1>7, <1>8, <1>9, <1>10 DEF Next, Advance

LEMMA Invariant == Spec => []IInv
<1> QED  BY InvariantInit, InvariantStep, PTL DEF Spec

-----------------------------------------------------------------------------
(* The theorems. *)

\* What the invariant says of the types.
LEMMA TypeFromInvariant == IInv => TypeOK
<1> SUFFICES ASSUME IInv PROVE TypeOK
  OBVIOUS
<1>1. Steps \subseteq [do : Doing, mu : Mutexes \cup {NoMutex}]
  BY DEF Steps, Doing, Opening, Locking, Closing
<1>2. \A g \in Goroutines : program[g] \in Seq([do : Doing, mu : Mutexes \cup {NoMutex}])
  <2>1. \A g \in Goroutines : program[g] \in Seq(Steps)
    BY DEF IInv, Types
  <2> QED  BY <1>1, <2>1, SeqMonotonic
<1>3. program \in [Goroutines -> Seq([do : Doing, mu : Mutexes \cup {NoMutex}])]
  BY <1>2 DEF IInv, Types
<1>4. ASSUME NEW g \in Goroutines, program[g] = <<>>
      PROVE  deferred[g] = {} /\ \A mu \in Mutexes : writer[mu] # g /\ g \notin readers[mu]
  <2>1. \A mu \in Mutexes : writer[mu] # g /\ g \notin readers[mu]
    BY <1>4, EmptyHoldsNothing DEF IInv, Books
  <2>2. deferred[g] = {}
    BY <1>4, EmptyHoldsNothing DEF IInv, Deferred, Idlers
  <2> QED  BY <2>1, <2>2
<1> QED  BY <1>3, <1>4 DEF IInv, Types, TypeOK

\* Types are kept, and who has nothing more to do holds nothing.
THEOREM TypeCorrect == Spec => []TypeOK
<1> QED  BY Invariant, TypeFromInvariant, PTL

\* Whatever panics, the mutex of the registry is never left locked.
THEOREM RegistryNeverLeftLocked == Spec => []RegistryNotLost
<1>1. IInv => RegistryNotLost
  BY DEF IInv
<1> QED  BY <1>1, Invariant, PTL

\* Who writes under a mutex is alone with it.
THEOREM Exclusion == Spec => []LocksExclude
<1>1. IInv => LocksExclude
  <2> SUFFICES ASSUME IInv, NEW mu \in Mutexes, NEW g \in Goroutines, NEW h \in Goroutines,
                      Writes(g, mu), Writes(h, mu) \/ Reads(h, mu)
      PROVE  g = h
    BY DEF LocksExclude
  <2>1. /\ program[g] \in Seq(Steps) /\ program[h] \in Seq(Steps)
        /\ Unlocks(program[g], mu)
        /\ Unlocks(program[h], mu) \/ RUnlocks(program[h], mu)
    BY DEF IInv, Types, Writes, Reads, Unlocks, RUnlocks
  <2>2. writer[mu] = g /\ readers[mu] = {}
    BY <2>1, UnlocksOwns DEF IInv, Books, Exclusive
  <2>3. CASE Unlocks(program[h], mu)
    BY <2>1, <2>2, <2>3, UnlocksOwns DEF IInv, Books
  <2>4. CASE RUnlocks(program[h], mu)
    BY <2>2, <2>4 DEF IInv, Books
  <2> QED  BY <2>1, <2>3, <2>4
<1> QED  BY <1>1, Invariant, PTL

\* A goroutine waits only for a mutex: a Close returns by itself.
LEMMA WaitsForMutex ==
  ASSUME NEW g, ~exited, program[g] # <<>>, ~Ready(g)
  PROVE  \E mu \in Mutexes :
           /\ Head(program[g]).mu = mu
           /\ \/ Head(program[g]).do \in Opening /\ writer[mu] # Nobody
              \/ Head(program[g]).do \in Locking /\ readers[mu] # {}
BY DEF Ready, Waits, Timeout, Opening, Locking

\* Who holds the mutex of the registry waits for no other, and only for readers of
\* this one.
LEMMA RegistryHolder ==
  ASSUME IInv, ~exited, NEW g \in Goroutines
  PROVE  /\ g \in readers[RegistryMu] => Ready(g)
         /\ writer[RegistryMu] = g => Ready(g) \/ readers[RegistryMu] # {}
<1>1. WellFormed(program[g]) /\ program[g] \in Seq(Steps) /\ RegistryMu \in Mutexes
  BY DEF IInv, WellFormed, Mutexes
<1>2. ASSUME program[g] # <<>>, Head(program[g]).mu = RegistryMu
      PROVE  \A D : NextStep(program[g], 0, RegistryMu, D) <=> Head(program[g]).do \in D
  BY <1>1, <1>2, HeadNext
<1>3. ASSUME g \in readers[RegistryMu] PROVE Ready(g)
  <2>1. RUnlocks(program[g], RegistryMu) /\ program[g] # <<>>
    BY <1>1, <1>3, EmptyHoldsNothing DEF IInv, Books
  <2>2. Head(program[g]).mu # TailnetMu
    BY <1>1, <2>1, RegistryIsInner
  <2>3. Head(program[g]).mu = RegistryMu => Head(program[g]).do = "runlock"
    BY <1>2, <2>1 DEF RUnlocks
  <2> QED  BY <2>1, <2>2, <2>3, WaitsForMutex DEF Mutexes, Opening, Locking
<1>4. ASSUME writer[RegistryMu] = g, readers[RegistryMu] = {} PROVE Ready(g)
  <2>1. Owns(program[g], RegistryMu) /\ program[g] # <<>>
    BY <1>1, <1>4, EmptyHoldsNothing DEF IInv, Books
  <2>2. Head(program[g]).mu # TailnetMu
    <3>1. CASE Unlocks(program[g], RegistryMu)
      BY <1>1, <2>1, <3>1, RegistryIsInner
    <3>2. CASE ~Unlocks(program[g], RegistryMu)
      <4>1. NextStep(program[g], 0, RegistryMu, Locking)
        BY <2>1, <3>2 DEF Owns, Unlocks, NextStep
      <4> QED  BY <1>1, <2>1, <4>1, LockingIsNext, MutexesDiffer
    <3> QED  BY <3>1, <3>2
  <2>3. Head(program[g]).mu = RegistryMu => Head(program[g]).do \in Locking \cup {"unlock"}
    BY <1>2, <2>1 DEF Owns
  <2> QED  BY <1>4, <2>1, <2>2, <2>3, WaitsForMutex DEF Mutexes, Opening, Locking
<1> QED  BY <1>3, <1>4

\* The registry is never held by somebody who waits for something else.
THEOREM RegistryStaysFree == Spec => []RegistryFree
<1>1. IInv => RegistryFree
  <2> SUFFICES ASSUME IInv, ~exited PROVE RegistryFree
    BY DEF RegistryFree
  <2>1. readers[RegistryMu] \subseteq Goroutines
    BY DEF IInv, Types, Mutexes
  <2> QED  BY <2>1, RegistryHolder DEF RegistryFree
<1> QED  BY <1>1, Invariant, PTL

\* No set of goroutines waits for each other.  If one waits, somebody holds what it
\* waits for: who holds the registry's mutex goes on, and otherwise who holds that
\* of the tailnet does.
THEOREM NoDeadlock == Spec => []EveryoneReturns
<1>1. IInv => EveryoneReturns
  <2> SUFFICES ASSUME IInv, ~exited, writer[TailnetMu] # Gone,
                      NEW g \in Goroutines, program[g] # <<>>,
                      \A h \in Goroutines : ~Ready(h)
      PROVE  FALSE
    BY DEF EveryoneReturns
  <2>0. TailnetMu \in Mutexes /\ RegistryMu \in Mutexes
    BY DEF Mutexes
  <2>1. readers[RegistryMu] = {}
    BY <2>0, RegistryHolder DEF IInv, Types
  <2>2. writer[RegistryMu] = Nobody
    BY <2>0, <2>1, RegistryHolder DEF IInv, Types, RegistryNotLost
  <2>3. ASSUME NEW h \in Goroutines, program[h] # <<>>
        PROVE  /\ Head(program[h]).mu = TailnetMu
               /\ \/ Head(program[h]).do \in Opening /\ writer[TailnetMu] # Nobody
                  \/ Head(program[h]).do \in Locking /\ readers[TailnetMu] # {}
    <3>1. PICK mu \in Mutexes :
            /\ Head(program[h]).mu = mu
            /\ \/ Head(program[h]).do \in Opening /\ writer[mu] # Nobody
               \/ Head(program[h]).do \in Locking /\ readers[mu] # {}
      BY <2>3, WaitsForMutex
    <3>2. mu # RegistryMu
      BY <2>1, <2>2, <3>1
    <3> QED  BY <3>1, <3>2 DEF Mutexes
  <2>4. ASSUME NEW h \in Goroutines, program[h] # <<>>
        PROVE  \A D : NextStep(program[h], 0, TailnetMu, D) <=> Head(program[h]).do \in D
    BY <2>3, <2>4, HeadNext DEF IInv, Types
  <2>5. readers[TailnetMu] = {}
    <3> SUFFICES ASSUME NEW h \in Goroutines, h \in readers[TailnetMu] PROVE FALSE
      BY <2>0 DEF IInv, Types
    <3>1. RUnlocks(program[h], TailnetMu) /\ program[h] # <<>>
      BY <2>0, EmptyHoldsNothing DEF IInv, Books
    <3>2. Head(program[h]).do = "runlock"
      BY SMTT(30), <2>4, <3>1 DEF RUnlocks
    <3> QED  BY <2>3, <3>1, <3>2 DEF Opening, Locking
  <2>6. writer[TailnetMu] = Nobody
    <3> SUFFICES ASSUME NEW h \in Goroutines, writer[TailnetMu] = h PROVE FALSE
      BY <2>0 DEF IInv, Types
    <3>1. Owns(program[h], TailnetMu) /\ program[h] # <<>>
      BY <2>0, EmptyHoldsNothing DEF IInv, Books
    <3>2. Head(program[h]).do \in Locking \cup {"unlock"}
      BY <2>4, <3>1 DEF Owns
    <3> QED  BY <2>3, <2>5, <3>1, <3>2 DEF Opening, Locking
  <2> QED  BY <2>3, <2>5, <2>6
<1> QED  BY <1>1, Invariant, PTL

=============================================================================
