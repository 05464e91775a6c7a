--------------------------- MODULE ExporterProofs ---------------------------
(***************************************************************************)
(* Safety theorems about Exporter, for every set of names, every queue     *)
(* size and any number of jobs, names and foreign files.                   *)
(***************************************************************************)
EXTENDS Exporter, TLAPS, FiniteSetTheorems, WellFoundedInduction

USE QueueAssumption

----------------------------------------------------------------------------
\* The helpers.

JobRecord == [state : JobState, live : BOOLEAN]

LEMMA WithFacts ==
  ASSUME NEW f, NEW k, NEW v
  PROVE  /\ DOMAIN With(f, k, v) = DOMAIN f \cup {k}
         /\ With(f, k, v)[k] = v
         /\ \A x \in DOMAIN f : x # k => With(f, k, v)[x] = f[x]
  BY DEF With

LEMMA WithType ==
  ASSUME NEW n \in Nat, NEW S, NEW f \in [1..n -> S], NEW v \in S
  PROVE  With(f, n + 1, v) \in [1..n + 1 -> S]
<1>1. 1..n + 1 = 1..n \cup {n + 1} /\ DOMAIN f = 1..n
  OBVIOUS
<1> QED BY <1>1 DEF With

\* Every set of numbers that is not empty has a least one.
LEMMA Least ==
  ASSUME NEW T, T \subseteq Nat, T # {}
  PROVE  \E x \in T : \A y \in T : x <= y
<1>1. PICK x \in T : \A y \in T : ~ (<<y, x>> \in OpToRel(<, Nat))
  BY NatLessThanWellFounded, WFMin
<1>2. ASSUME NEW y \in T PROVE x <= y
  <2>1. x \in Nat /\ y \in Nat
    OBVIOUS
  <2>2. ~ (y < x)
    BY <1>1, <2>1 DEF OpToRel
  <2> QED BY <2>1, <2>2
<1> QED BY <1>2

\* What pruning keeps: every unfinished job, and all but one of the others.
LEMMA PruneFacts ==
  ASSUME NEW known, DOMAIN known \subseteq Nat
  PROVE  LET p == pruneJobsLocked(known)
         IN  \/ /\ p = known
                /\ \/ Cardinality(DOMAIN known) <= MaxKept
                   \/ \A x \in DOMAIN known : known[x].state \notin {"completed", "failed"}
             \/ \E id \in DOMAIN known :
                    /\ known[id].state \in {"completed", "failed"}
                    /\ DOMAIN p = DOMAIN known \ {id}
                    /\ \A x \in DOMAIN p : p[x] = known[x]
<1> DEFINE finished == {id \in DOMAIN known : known[id].state \in {"completed", "failed"}}
           c == CHOOSE id \in finished : \A o \in finished : id <= o
           p == pruneJobsLocked(known)
<1>1. CASE Cardinality(DOMAIN known) <= MaxKept \/ finished = {}
  <2>1. p = known
    BY <1>1 DEF pruneJobsLocked
  <2> QED BY <1>1, <2>1
<1>2. CASE ~(Cardinality(DOMAIN known) <= MaxKept \/ finished = {})
  <2>1. p = Without(known, c)
    BY <1>2 DEF pruneJobsLocked
  <2>2. \E id \in finished : \A o \in finished : id <= o
    BY <1>2, Least
  <2>3. c \in finished
    BY <2>2
  <2> HIDE DEF c
  <2>4. DOMAIN p = DOMAIN known \ {c} /\ \A x \in DOMAIN p : p[x] = known[x]
    BY <2>1 DEF Without
  <2> QED BY <2>3, <2>4
<1> QED BY <1>1, <1>2

LEMMA ExceptState ==
  ASSUME NEW f, NEW k, NEW st \in JobState, \A x \in DOMAIN f : f[x] \in JobRecord
  PROVE  LET g == [f EXCEPT ![k].state = st]
         IN  /\ DOMAIN g = DOMAIN f
             /\ \A x \in DOMAIN f :
                    g[x] = IF x = k THEN [state |-> st, live |-> f[x].live] ELSE f[x]
<1> DEFINE g == [f EXCEPT ![k].state = st]
<1>1. DOMAIN g = DOMAIN f
  OBVIOUS
<1>2. ASSUME NEW x \in DOMAIN f, x = k
      PROVE  g[x] = [state |-> st, live |-> f[x].live]
  <2>1. f[x] \in JobRecord
    OBVIOUS
  <2>2. g[x] = [f[x] EXCEPT !.state = st]
    BY <1>2
  <2> QED BY <2>1, <2>2 DEF JobRecord
<1>3. ASSUME NEW x \in DOMAIN f, x # k
      PROVE  g[x] = f[x]
  BY <1>3
<1> QED BY <1>1, <1>2, <1>3

LEMMA ExceptLive ==
  ASSUME NEW f, NEW k, \A x \in DOMAIN f : f[x] \in JobRecord
  PROVE  LET g == [f EXCEPT ![k].live = FALSE]
         IN  /\ DOMAIN g = DOMAIN f
             /\ \A x \in DOMAIN f :
                    g[x] = IF x = k THEN [state |-> f[x].state, live |-> FALSE] ELSE f[x]
<1> DEFINE g == [f EXCEPT ![k].live = FALSE]
<1>1. DOMAIN g = DOMAIN f
  OBVIOUS
<1>2. ASSUME NEW x \in DOMAIN f, x = k
      PROVE  g[x] = [state |-> f[x].state, live |-> FALSE]
  <2>1. f[x] \in JobRecord
    OBVIOUS
  <2>2. g[x] = [f[x] EXCEPT !.live = FALSE]
    BY <1>2
  <2> QED BY <2>1, <2>2 DEF JobRecord
<1>3. ASSUME NEW x \in DOMAIN f, x # k
      PROVE  g[x] = f[x]
  BY <1>3
<1> QED BY <1>1, <1>2, <1>3

LEMMA EmptySeq == \A S : <<>> \in Seq(S) /\ Len(<<>>) = 0
  OBVIOUS

LEMMA WiderSeq ==
  ASSUME NEW S, NEW T, S \subseteq T, NEW q \in Seq(S)
  PROVE  q \in Seq(T)
  OBVIOUS

LEMMA HeadTail ==
  ASSUME NEW S, NEW q \in Seq(S), q # <<>>
  PROVE  /\ Head(q) \in S /\ Tail(q) \in Seq(S) /\ Head(q) = q[1]
         /\ Len(q) \in Nat /\ Len(q) > 0 /\ Len(Tail(q)) = Len(q) - 1
         /\ \A k \in 1..Len(q) - 1 : Tail(q)[k] = q[k + 1]
  OBVIOUS

LEMMA Appended ==
  ASSUME NEW S, NEW q \in Seq(S), NEW x \in S
  PROVE  /\ Append(q, x) \in Seq(S) /\ Len(q) \in Nat /\ Len(Append(q, x)) = Len(q) + 1
         /\ Append(q, x)[Len(q) + 1] = x
         /\ \A k \in 1..Len(q) : Append(q, x)[k] = q[k]
  OBVIOUS

----------------------------------------------------------------------------
\* Types.

TypeInv == TypeOK /\ worker \in [at : Step, job : 0..sequence]

LEMMA InitType == Init => TypeInv
<1> SUFFICES ASSUME Init PROVE TypeInv
  OBVIOUS
<1>1. /\ sequence = 0 /\ jobs = <<>> /\ target = <<>> /\ live = <<>> /\ queue = <<>>
      /\ files = <<>> /\ activeNames = {} /\ pending = 0 /\ closed = FALSE /\ sending = 0
      /\ worker = [at |-> "idle", job |-> 0]
      /\ segments = {} /\ temps = {} /\ encodings = {} /\ spoolRemoved = FALSE
  BY DEF Init
<1>2. DOMAIN jobs = {} /\ DOMAIN files = {}
  BY <1>1
<1>3. target \in [1..sequence -> Target]
      /\ live \in [1..sequence -> {"none", "pending", "good", "bad"}]
  BY <1>1
<1>4. queue \in Seq(1..sequence)
  BY <1>1, EmptySeq
<1>5. worker \in [at : Step, job : 0..sequence] /\ worker.at = "idle" /\ worker.job = 0
  BY <1>1 DEF Step
<1>6. sequence \in 0..MaxJobs
  BY <1>1
<1> HIDE DEF Init
<1> QED BY <1>1, <1>2, <1>3, <1>4, <1>5, <1>6 DEF TypeInv, TypeOK, Step

LEMMA Holding ==
  ASSUME TypeInv, worker.at # "idle"
  PROVE  job \in 1..sequence /\ job \in Nat /\ target[job] \in Target
<1>1. worker.job \in 0..sequence /\ worker.job # 0 /\ sequence \in Nat
  BY DEF TypeInv, TypeOK
<1>2. job \in 1..sequence
  BY <1>1 DEF job
<1> QED BY <1>1, <1>2 DEF TypeInv, TypeOK

LEMMA Goto ==
  ASSUME TypeInv, worker.at # "idle", NEW st \in Step \ {"idle"}, goto(st),
         sequence' = sequence
  PROVE  /\ worker' \in [at : Step, job : 0..sequence']
         /\ worker'.at = st /\ worker'.job = worker.job
         /\ worker'.at = "idle" <=> worker'.job = 0
<1>1. worker \in [at : Step, job : 0..sequence] /\ worker.job # 0
  BY DEF TypeInv, TypeOK
<1>2. worker' = [worker EXCEPT !.at = st]
  BY DEF goto
<1>3. worker' \in [at : Step, job : 0..sequence] /\ worker'.at = st /\ worker'.job = worker.job
  BY <1>1, <1>2
<1> QED BY <1>1, <1>3

\* What a link adds is the target's name.
LEMMA LinkType ==
  ASSUME TypeInv, NEW t \in Target, NEW made, link(t, made)
  PROVE  DOMAIN files' \subseteq Target
<1>1. DOMAIN files \subseteq Target
  BY DEF TypeInv, TypeOK
<1>2. files' = With(files, t, made)
  BY DEF link
<1>3. DOMAIN files' = DOMAIN files \cup {t}
  BY <1>2 DEF With
<1> QED BY <1>1, <1>3

\* A record whose state or live encoding changes is one still.
LEMMA JobsType ==
  ASSUME TypeInv, NEW k,
         \/ \E st \in JobState : jobs' = [jobs EXCEPT ![k].state = st]
         \/ jobs' = [jobs EXCEPT ![k].live = FALSE]
  PROVE  DOMAIN jobs' = DOMAIN jobs /\ \A id \in DOMAIN jobs' : jobs'[id] \in JobRecord
<1>1. \A x \in DOMAIN jobs : jobs[x] \in JobRecord
  BY DEF TypeInv, TypeOK, JobRecord
<1>2. CASE \E st \in JobState : jobs' = [jobs EXCEPT ![k].state = st]
  <2>1. PICK st \in JobState : jobs' = [jobs EXCEPT ![k].state = st]
    BY <1>2
  <2>2. /\ DOMAIN jobs' = DOMAIN jobs
        /\ \A x \in DOMAIN jobs :
             jobs'[x] = IF x = k THEN [state |-> st, live |-> jobs[x].live] ELSE jobs[x]
    BY <1>1, <2>1, ExceptState
  <2> QED BY <1>1, <2>2 DEF JobRecord
<1>3. CASE jobs' = [jobs EXCEPT ![k].live = FALSE]
  <2>1. /\ DOMAIN jobs' = DOMAIN jobs
        /\ \A x \in DOMAIN jobs :
             jobs'[x] = IF x = k THEN [state |-> jobs[x].state, live |-> FALSE] ELSE jobs[x]
    BY <1>1, <1>3, ExceptLive
  <2> QED BY <1>1, <2>1 DEF JobRecord
<1> QED BY <1>2, <1>3

\* enqueue gives out the next number, and keeps the unfinished jobs.
LEMMA EnqueueFacts ==
  ASSUME TypeInv, NEW b \in Base, NEW size \in QueueSize,
         NEW encoding \in {"none", "pending"}, Enqueue(b, size, encoding)
  PROVE  LET id == sequence + 1
             new == [state |-> "queued", live |-> encoding # "none"]
         IN  /\ sequence' = id /\ id \in 1..MaxJobs
             /\ new \in JobRecord
             /\ DOMAIN jobs' \subseteq DOMAIN jobs \cup {id}
             /\ id \in DOMAIN jobs' /\ jobs'[id] = new
             /\ \A x \in DOMAIN jobs' : x # id => jobs'[x] = jobs[x]
             /\ \A x \in DOMAIN jobs : Unfinished(x) => x \in DOMAIN jobs'
             /\ \/ DOMAIN jobs' = DOMAIN jobs \cup {id}
                   /\ \/ Cardinality(DOMAIN jobs') <= MaxKept
                      \/ \A x \in DOMAIN jobs : Unfinished(x)
                \/ \E x \in DOMAIN jobs : DOMAIN jobs' = (DOMAIN jobs \cup {id}) \ {x}
             /\ \E t \in Target :
                   /\ available(t)
                   /\ target' = With(target, id, t)
                   /\ activeNames' = activeNames \cup {Fold[t]}
<1> DEFINE id == sequence + 1
           new == [state |-> "queued", live |-> encoding # "none"]
           known == With(jobs, id, new)
<1>1. sequence \in Nat /\ MaxJobs \in Nat /\ sequence < MaxJobs /\ DOMAIN jobs \subseteq 1..sequence
  BY DEF TypeInv, TypeOK, Enqueue
<1>2. id \in 1..MaxJobs /\ id \notin DOMAIN jobs /\ DOMAIN jobs \subseteq Nat
  BY <1>1
<1>3. new \in JobRecord
  BY DEF JobRecord, JobState
<1>4. sequence' = id /\ jobs' = pruneJobsLocked(known)
  BY DEF Enqueue
<1>5. \E t \in Target :
        /\ available(t) /\ target' = With(target, id, t)
        /\ activeNames' = activeNames \cup {Fold[t]}
  BY DEF Enqueue, nextAvailableTargetLocked
<1> HIDE DEF id, new
<1>6. /\ DOMAIN known = DOMAIN jobs \cup {id} /\ known[id] = new
      /\ \A x \in DOMAIN jobs : x # id => known[x] = jobs[x]
  BY DEF With
<1>7. new.state = "queued"
  BY DEF new
<1>8. \A x \in DOMAIN jobs : jobs[x].state \in JobState
  BY DEF TypeInv, TypeOK
<1>9. DOMAIN known \subseteq Nat
  BY <1>2, <1>6
<1> HIDE DEF known
<1>10. CASE /\ jobs' = known
            /\ \/ Cardinality(DOMAIN known) <= MaxKept
               \/ \A x \in DOMAIN known : known[x].state \notin {"completed", "failed"}
  <2>1. \/ Cardinality(DOMAIN jobs') <= MaxKept
        \/ \A x \in DOMAIN jobs : Unfinished(x)
    BY <1>2, <1>6, <1>8, <1>10 DEF Unfinished, JobState
  <2> QED BY <1>2, <1>3, <1>4, <1>5, <1>6, <1>10, <2>1 DEF id, new
<1>11. CASE \E x \in DOMAIN known :
              /\ known[x].state \in {"completed", "failed"}
              /\ DOMAIN jobs' = DOMAIN known \ {x}
              /\ \A y \in DOMAIN jobs' : jobs'[y] = known[y]
  <2>1. PICK x \in DOMAIN known :
              /\ known[x].state \in {"completed", "failed"}
              /\ DOMAIN jobs' = DOMAIN known \ {x}
              /\ \A y \in DOMAIN jobs' : jobs'[y] = known[y]
    BY <1>11
  <2>2. x # id /\ x \in DOMAIN jobs /\ ~Unfinished(x)
    BY <1>2, <1>6, <1>7, <2>1 DEF Unfinished
  <2>3. id \in DOMAIN jobs' /\ jobs'[id] = new
        /\ DOMAIN jobs' = (DOMAIN jobs \cup {id}) \ {x}
    BY <1>6, <2>1, <2>2
  <2>4. \A y \in DOMAIN jobs' : y # id => jobs'[y] = jobs[y]
    BY <1>6, <2>1
  <2>5. \A y \in DOMAIN jobs : Unfinished(y) => y \in DOMAIN jobs'
    BY <2>2, <2>3
  <2> QED BY <1>2, <1>3, <1>4, <1>5, <2>2, <2>3, <2>4, <2>5 DEF id, new
<1> QED BY <1>4, <1>9, <1>10, <1>11, PruneFacts

LEMMA NextType == TypeInv /\ [Next]_vars => TypeInv'
<1> SUFFICES ASSUME TypeInv, [Next]_vars PROVE TypeInv'
  OBVIOUS
<1>t. /\ worker \in [at : Step, job : 0..sequence] /\ sequence \in Nat
      /\ queue \in Seq(1..sequence)
  BY DEF TypeInv, TypeOK
<1>1. ASSUME NEW b \in Base, NEW size \in QueueSize, NEW encoding \in {"none", "pending"},
             Enqueue(b, size, encoding)
      PROVE  TypeInv'
  <2> DEFINE id == sequence + 1
             new == [state |-> "queued", live |-> encoding # "none"]
  <2>1. /\ sequence' = id /\ id \in 1..MaxJobs /\ new \in JobRecord
        /\ DOMAIN jobs' \subseteq DOMAIN jobs \cup {id}
        /\ jobs'[id] = new
        /\ \A x \in DOMAIN jobs' : x # id => jobs'[x] = jobs[x]
    BY <1>1, EnqueueFacts
  <2>2. PICK t \in Target :
            target' = With(target, id, t) /\ activeNames' = activeNames \cup {Fold[t]}
    BY <1>1, EnqueueFacts
  <2>3. /\ live' = With(live, id, encoding)
        /\ encodings' \subseteq encodings \cup {id} /\ segments' = segments \cup {id}
        /\ pending' = pending + 1 /\ sending' = id
        /\ UNCHANGED <<closed, queue, worker, temps, files, spoolRemoved>>
    BY <1>1 DEF Enqueue
  <2>4. target' \in [1..sequence' -> Target]
    BY <1>t, <2>1, <2>2, WithType DEF TypeInv, TypeOK
  <2>5. live' \in [1..sequence' -> {"none", "pending", "good", "bad"}]
    <3>1. live \in [1..sequence -> {"none", "pending", "good", "bad"}]
          /\ encoding \in {"none", "pending", "good", "bad"}
      BY DEF TypeInv, TypeOK
    <3> QED BY <1>t, <2>1, <2>3, <3>1, WithType
  <2>6. 1..sequence \subseteq 1..sequence' /\ id \in 1..sequence' /\ 0..sequence \subseteq 0..sequence'
    BY <1>t, <2>1
  <2>7. queue' \in Seq(1..sequence')
    BY <1>t, <2>3, <2>6, WiderSeq
  <2> HIDE DEF id, new
  <2>8. DOMAIN jobs' \subseteq 1..sequence' /\ \A x \in DOMAIN jobs' : jobs'[x] \in JobRecord
    BY <2>1, <2>6 DEF TypeInv, TypeOK, JobRecord
  <2>9. worker' \in [at : Step, job : 0..sequence']
    BY <1>t, <2>3, <2>6
  <2>10. activeNames' \subseteq {Fold[t1] : t1 \in Target}
    BY <2>2 DEF TypeInv, TypeOK
  <2>11. sequence' \in 0..MaxJobs /\ sending' \in 0..sequence' /\ pending' \in Nat
    BY <1>t, <2>1, <2>3, <2>6 DEF TypeInv, TypeOK, id
  <2>12. segments' \subseteq 1..sequence' /\ temps' \subseteq 1..sequence'
         /\ encodings' \subseteq 1..sequence'
    BY <2>3, <2>6 DEF TypeInv, TypeOK
  <2> QED
    BY <2>3, <2>4, <2>5, <2>7, <2>8, <2>9, <2>10, <2>11, <2>12
    DEF TypeInv, TypeOK, JobRecord
<1>2. ASSUME Send PROVE TypeInv'
  <2>1. sending \in 1..sequence /\ queue' = Append(queue, sending) /\ sending' = 0
    BY <1>2, <1>t DEF Send, TypeInv, TypeOK
  <2>2. queue' \in Seq(1..sequence)
    BY <1>t, <2>1, Appended
  <2>3. UNCHANGED <<jobs, target, live, activeNames, pending, sequence, closed, worker,
                    segments, temps, encodings, files, spoolRemoved>>
    BY <1>2 DEF Send
  <2> QED BY <2>1, <2>2, <2>3 DEF TypeInv, TypeOK
<1>3. ASSUME Receive PROVE TypeInv'
  <2>1. /\ queue # <<>> /\ queue' = Tail(queue)
        /\ worker' = [at |-> "received", job |-> Head(queue)]
        /\ UNCHANGED <<jobs, target, live, activeNames, pending, sequence, closed, sending,
                       segments, temps, encodings, files, spoolRemoved>>
    BY <1>3 DEF Receive
  <2>2. Head(queue) \in 1..sequence /\ queue' \in Seq(1..sequence)
    BY <1>t, <2>1, HeadTail
  <2>3. worker' \in [at : Step, job : 0..sequence] /\ worker'.at = "received" /\ worker'.job # 0
    BY <2>1, <2>2 DEF Step
  <2> QED BY <2>1, <2>2, <2>3 DEF TypeInv, TypeOK
<1>4. ASSUME setRunning \/ Fallback PROVE TypeInv'
  <2>1. /\ worker.at # "idle"
        /\ \E st \in Step \ {"idle"} : goto(st)
        /\ UNCHANGED <<target, live, activeNames, pending, sequence, closed, queue, sending,
                       segments, temps, encodings, files, spoolRemoved>>
    BY <1>4 DEF setRunning, Fallback, Step
  <2>2. /\ worker' \in [at : Step, job : 0..sequence']
        /\ worker'.at = "idle" <=> worker'.job = 0
    BY <2>1, Goto
  <2>3. DOMAIN jobs' = DOMAIN jobs /\ \A id \in DOMAIN jobs' : jobs'[id] \in JobRecord
    BY <1>4, JobsType DEF setRunning, Fallback, JobState
  <2> QED BY <2>1, <2>2, <2>3 DEF TypeInv, TypeOK, JobRecord
<1>5. ASSUME AwaitLive \/ LinkLive \/ Encode \/ Link \/ Cleanup PROVE TypeInv'
  <2>1. /\ worker.at # "idle"
        /\ \E st \in Step \ {"idle"} : goto(st)
        /\ UNCHANGED <<jobs, target, live, activeNames, pending, sequence, closed, queue,
                       sending, spoolRemoved>>
        /\ segments' \subseteq segments /\ temps' \subseteq temps \cup {job}
        /\ encodings' \subseteq encodings
    BY <1>5 DEF AwaitLive, LinkLive, Encode, Link, Cleanup, Step
  <2>2. /\ worker' \in [at : Step, job : 0..sequence']
        /\ worker'.at = "idle" <=> worker'.job = 0
        /\ job \in 1..sequence /\ target[job] \in Target
    BY <2>1, Goto, Holding
  <2>3. DOMAIN files' \subseteq Target
    <3>1. files' = files \/ \E made : link(target[job], made)
      BY <1>5 DEF AwaitLive, LinkLive, Encode, Link, Cleanup
    <3> QED BY <2>2, <3>1, LinkType DEF TypeInv, TypeOK
  <2> QED BY <2>1, <2>2, <2>3 DEF TypeInv, TypeOK
<1>6. ASSUME finish PROVE TypeInv'
  <2>1. /\ jobs' = [jobs EXCEPT ![job].state = worker.at] /\ worker.at \in JobState
        /\ activeNames' \subseteq activeNames
        /\ pending' = IF pending > 0 THEN pending - 1 ELSE 0
        /\ worker' = [at |-> "idle", job |-> 0]
        /\ UNCHANGED <<target, live, sequence, closed, queue, sending, segments, temps,
                       encodings, files, spoolRemoved>>
    BY <1>6 DEF finish, JobState
  <2>2. DOMAIN jobs' = DOMAIN jobs /\ \A id \in DOMAIN jobs' : jobs'[id] \in JobRecord
    BY <2>1, JobsType
  <2>3. worker' \in [at : Step, job : 0..sequence] /\ worker'.at = "idle" /\ worker'.job = 0
    BY <1>t, <2>1 DEF Step
  <2>4. pending' \in Nat
    BY <2>1 DEF TypeInv, TypeOK
  <2> QED BY <2>1, <2>2, <2>3, <2>4 DEF TypeInv, TypeOK, JobRecord
<1>7. ASSUME Close PROVE TypeInv'
  BY <1>7 DEF Close, TypeInv, TypeOK
<1>8. ASSUME RemoveSpool PROVE TypeInv'
  BY <1>8 DEF RemoveSpool, TypeInv, TypeOK
<1>9. ASSUME NEW id \in 1..sequence, LiveResult(id) PROVE TypeInv'
  <2>1. /\ \E r \in {"good", "bad"} : live' = [live EXCEPT ![id] = r]
        /\ UNCHANGED <<jobs, target, activeNames, pending, sequence, closed, queue, sending,
                       worker, segments, temps, encodings, files, spoolRemoved>>
    BY <1>9 DEF LiveResult
  <2>2. live' \in [1..sequence -> {"none", "pending", "good", "bad"}]
    BY <2>1 DEF TypeInv, TypeOK
  <2> QED BY <2>1, <2>2 DEF TypeInv, TypeOK
<1>10. ASSUME NEW t \in Target, ForeignFile(t) PROVE TypeInv'
  <2>1. /\ link(t, Foreign)
        /\ UNCHANGED <<jobs, target, live, activeNames, pending, sequence, closed, queue,
                       sending, worker, segments, temps, encodings, spoolRemoved>>
    BY <1>10 DEF ForeignFile
  <2>2. DOMAIN files' \subseteq Target
    BY <2>1, LinkType
  <2> QED BY <2>1, <2>2 DEF TypeInv, TypeOK
<1>11. ASSUME UNCHANGED vars PROVE TypeInv'
  BY <1>11 DEF vars, TypeInv, TypeOK
<1> QED
  BY <1>1, <1>2, <1>3, <1>4, <1>5, <1>6, <1>7, <1>8, <1>9, <1>10, <1>11
  DEF Next, WorkerStep

LEMMA TypeInvHolds == Spec => []TypeInv
  BY InitType, NextType, PTL DEF Spec

\* Every variable keeps its type, and the worker holds a job except when it waits for
\* one (export.go:59-73).
THEOREM TypeCorrect == Spec => []TypeOK
<1>1. TypeInv => TypeOK
  BY DEF TypeInv
<1> QED BY <1>1, TypeInvHolds, PTL

----------------------------------------------------------------------------
\* The queue.

\* pending counts the jobs that are queued, being sent or being worked on.
CountInv ==
    /\ pending = Len(queue) + (IF sending = 0 THEN 0 ELSE 1)
                            + (IF worker.at = "idle" THEN 0 ELSE 1)
    /\ pending <= QueueCap
    /\ sending # 0 => ~closed

LEMMA InitCount == Init => CountInv
<1> SUFFICES ASSUME Init PROVE CountInv
  OBVIOUS
<1>1. /\ Len(queue) = 0 /\ sending = 0 /\ worker.at = "idle" /\ pending = 0 /\ QueueCap >= 0
  BY EmptySeq DEF Init
<1> QED BY <1>1 DEF CountInv

LEMMA NextCount == TypeInv /\ CountInv /\ [Next]_vars => CountInv'
<1> SUFFICES ASSUME TypeInv, CountInv, [Next]_vars PROVE CountInv'
  OBVIOUS
<1>t. /\ queue \in Seq(1..sequence) /\ Len(queue) \in Nat /\ pending \in Nat
      /\ sequence \in Nat /\ sending \in Nat /\ QueueCap \in Nat
  BY DEF TypeInv, TypeOK
<1>c. /\ pending = Len(queue) + (IF sending = 0 THEN 0 ELSE 1)
                              + (IF worker.at = "idle" THEN 0 ELSE 1)
      /\ pending <= QueueCap /\ (sending # 0 => ~closed)
  BY DEF CountInv
<1>1. ASSUME NEW b \in Base, NEW size \in QueueSize, NEW encoding \in {"none", "pending"},
             Enqueue(b, size, encoding)
      PROVE  CountInv'
  <2>1. /\ sending = 0 /\ sending' = sequence + 1 /\ pending' = pending + 1 /\ pending < size
        /\ ~closed /\ UNCHANGED <<closed, queue, worker>>
    BY <1>1 DEF Enqueue, muFree, queueHasRoom
  <2>2. size \in Nat /\ size <= QueueCap
    BY QueueAssumption
  <2>3. sending' # 0 /\ pending' <= QueueCap
    BY <1>t, <2>1, <2>2
  <2>4. pending' = Len(queue') + 1 + (IF worker'.at = "idle" THEN 0 ELSE 1)
    <3>1. Len(queue') = Len(queue) /\ worker'.at = worker.at
      BY <2>1
    <3>2. pending = Len(queue) + (IF worker.at = "idle" THEN 0 ELSE 1)
      BY <1>t, <1>c, <2>1
    <3> QED BY <1>t, <2>1, <3>1, <3>2
  <2> QED BY <2>1, <2>3, <2>4 DEF CountInv
<1>2. ASSUME Send PROVE CountInv'
  <2>1. /\ sending # 0 /\ sending' = 0 /\ queue' = Append(queue, sending)
        /\ UNCHANGED <<pending, closed, worker>>
    BY <1>2 DEF Send
  <2>2. Len(queue') = Len(queue) + 1
    BY <1>t, <2>1
  <2> QED BY <1>t, <1>c, <2>1, <2>2 DEF CountInv
<1>3. ASSUME Receive PROVE CountInv'
  <2>1. /\ worker.at = "idle" /\ queue # <<>> /\ queue' = Tail(queue)
        /\ worker' = [at |-> "received", job |-> Head(queue)]
        /\ UNCHANGED <<pending, closed, sending>>
    BY <1>3 DEF Receive
  <2>2. Len(queue') = Len(queue) - 1 /\ Len(queue) > 0
    BY <1>t, <2>1, HeadTail
  <2>3. worker'.at = "received"
    BY <2>1
  <2>4. pending = Len(queue) + (IF sending = 0 THEN 0 ELSE 1)
    BY <1>t, <1>c, <2>1
  <2>5. pending' = Len(queue') + (IF sending' = 0 THEN 0 ELSE 1) + 1
    <3>1. pending' = pending /\ sending' = sending
      BY <2>1
    <3> QED BY <1>t, <2>2, <2>4, <3>1
  <2> QED BY <1>c, <2>1, <2>3, <2>5 DEF CountInv
<1>4. ASSUME setRunning \/ Fallback \/ AwaitLive \/ LinkLive \/ Encode \/ Link \/ Cleanup
      PROVE  CountInv'
  <2>1. /\ worker.at # "idle" /\ \E st \in Step \ {"idle"} : goto(st)
        /\ UNCHANGED <<pending, sequence, closed, queue, sending>>
    BY <1>4 DEF setRunning, Fallback, AwaitLive, LinkLive, Encode, Link, Cleanup, Step
  <2>2. worker'.at # "idle"
    BY <2>1, Goto
  <2> QED BY <1>c, <2>1, <2>2 DEF CountInv
<1>5. ASSUME finish PROVE CountInv'
  <2>1. /\ worker.at # "idle" /\ worker' = [at |-> "idle", job |-> 0]
        /\ pending' = IF pending > 0 THEN pending - 1 ELSE 0
        /\ UNCHANGED <<closed, queue, sending>>
    BY <1>5 DEF finish
  <2>2. worker'.at = "idle"
    BY <2>1
  <2> QED BY <1>t, <1>c, <2>1, <2>2 DEF CountInv
<1>6. ASSUME Close PROVE CountInv'
  BY <1>6, <1>c DEF Close, muFree, CountInv
<1>7. ASSUME \/ RemoveSpool \/ UNCHANGED vars
             \/ \E id \in 1..sequence : LiveResult(id)
             \/ \E t \in Target : ForeignFile(t)
      PROVE  CountInv'
  <2>1. UNCHANGED <<pending, closed, queue, sending, worker>>
    BY <1>7 DEF RemoveSpool, LiveResult, ForeignFile, vars
  <2> QED BY <2>1, <1>c DEF CountInv
<1> QED BY <1>1, <1>2, <1>3, <1>4, <1>5, <1>6, <1>7 DEF Next, WorkerStep

\* The send under e.mu always finds room and an open channel, for every queue size the
\* configuration may have had: it cannot deadlock with the worker (export.go:106-162,
\* 210-218).
THEOREM SendsNeverBlock == Spec => []SendNeverBlocks
<1>1. TypeInv /\ CountInv => SendNeverBlocks
  <2> SUFFICES ASSUME TypeInv, CountInv, sending # 0 PROVE Len(queue) < QueueCap /\ ~closed
    BY DEF SendNeverBlocks
  <2>1. Len(queue) \in Nat /\ pending \in Nat /\ QueueCap \in Nat
    BY DEF TypeInv, TypeOK
  <2> QED BY <2>1 DEF CountInv
<1> QED BY <1>1, InitCount, NextCount, TypeInvHolds, PTL DEF Spec

----------------------------------------------------------------------------
\* Published files.

\* Files only come: no action writes to a name that is taken.
LEMMA LinkKeeps ==
  ASSUME NEW t, NEW made, link(t, made)
  PROVE  /\ t \notin DOMAIN files
         /\ DOMAIN files' = DOMAIN files \cup {t} /\ files'[t] = made
         /\ \A u \in DOMAIN files : files'[u] = files[u]
<1>1. ~Exists(t) /\ files' = With(files, t, made)
  BY DEF link
<1>2. t \notin DOMAIN files
  BY <1>1 DEF Exists, Same
<1>3. DOMAIN files' = DOMAIN files \cup {t} /\ files'[t] = made
      /\ \A u \in DOMAIN files : u # t => files'[u] = files[u]
  BY <1>1 DEF With
<1> QED BY <1>2, <1>3

\* Whoever made a file, it is never replaced (export.go:284-288, 317-320, 353).
THEOREM NothingIsOverwritten == Spec => NeverOverwritten
<1>1. [Next]_vars => [\A t \in DOMAIN files : t \in DOMAIN files' /\ files'[t] = files[t]]_vars
  <2> SUFFICES ASSUME [Next]_vars
      PROVE  \A t \in DOMAIN files : t \in DOMAIN files' /\ files'[t] = files[t]
    OBVIOUS
  <2>1. files' = files \/ \E t, made : link(t, made)
    <3>1. ASSUME NEW b \in Base, NEW size \in QueueSize, NEW encoding \in {"none", "pending"},
                 Enqueue(b, size, encoding)
          PROVE  files' = files
      BY <3>1 DEF Enqueue
    <3>2. WorkerStep => files' = files \/ \E t, made : link(t, made)
      BY DEF WorkerStep, Receive, setRunning, AwaitLive, LinkLive, Fallback, Encode, Link,
             Cleanup, finish
    <3> QED BY <3>1, <3>2 DEF Next, Send, Close, RemoveSpool, LiveResult, ForeignFile, vars
  <2> QED BY <2>1, LinkKeeps
<1> QED BY <1>1, PTL DEF Spec, NeverOverwritten
----------------------------------------------------------------------------
\* The line: the jobs that are being sent, queued or worked on.

Queued == {queue[k] : k \in 1..Len(queue)}

\* They are distinct, and they are the unfinished jobs.
LineInv ==
    /\ \A k, l \in 1..Len(queue) : k # l => queue[k] # queue[l]
    /\ sending \notin Queued /\ worker.job \notin Queued
    /\ sending # 0 => worker.job # sending
    /\ \A id \in 1..sequence : id \in ActiveJobs <=> id \in Queued \cup {sending, worker.job}

LEMMA ActiveGrows ==
  ASSUME TypeInv, NEW b \in Base, NEW size \in QueueSize,
         NEW encoding \in {"none", "pending"}, Enqueue(b, size, encoding)
  PROVE  ActiveJobs' = ActiveJobs \cup {sequence + 1}
<1> DEFINE id == sequence + 1
<1>1. sequence \in Nat /\ DOMAIN jobs \subseteq 1..sequence
  BY DEF TypeInv, TypeOK
<1>2. /\ sequence' = id /\ DOMAIN jobs' \subseteq DOMAIN jobs \cup {id}
      /\ id \in DOMAIN jobs' /\ jobs'[id].state = "queued"
      /\ \A x \in DOMAIN jobs' : x # id => jobs'[x] = jobs[x]
      /\ \A x \in DOMAIN jobs : Unfinished(x) => x \in DOMAIN jobs'
  BY EnqueueFacts
<1>3. 1..id = 1..sequence \cup {id} /\ id \notin 1..sequence
  BY <1>1
<1> HIDE DEF id
<1>4. ASSUME NEW x \in 1..sequence'
      PROVE  x \in ActiveJobs' <=> x \in ActiveJobs \cup {id}
  <2>1. x \in 1..sequence \/ x = id
    BY <1>2, <1>3
  <2> QED BY <1>1, <1>2, <1>3, <2>1 DEF ActiveJobs, Unfinished
<1>5. ActiveJobs \cup {id} \subseteq 1..sequence' /\ ActiveJobs' \subseteq 1..sequence'
  BY <1>2, <1>3 DEF ActiveJobs
<1>6. ActiveJobs' = ActiveJobs \cup {id}
  BY <1>4, <1>5
<1> QED BY <1>6 DEF id

\* The worker's job is forgotten by the line, and by nothing else, when it ends.
LEMMA ActiveShrinks ==
  ASSUME TypeInv, finish
  PROVE  ActiveJobs' = ActiveJobs \ {job}
<1>1. /\ jobs' = [jobs EXCEPT ![job].state = worker.at] /\ sequence' = sequence
      /\ worker.at \in {"completed", "failed"}
  BY DEF finish
<1>2. \A x \in DOMAIN jobs : jobs[x] \in JobRecord
  BY DEF TypeInv, TypeOK, JobRecord
<1>3. /\ DOMAIN jobs' = DOMAIN jobs
      /\ \A x \in DOMAIN jobs :
           jobs'[x] = IF x = job THEN [state |-> worker.at, live |-> jobs[x].live] ELSE jobs[x]
  <2>1. worker.at \in JobState
    BY <1>1 DEF JobState
  <2> QED BY <1>1, <1>2, <2>1, ExceptState
<1>4. ASSUME NEW x \in 1..sequence
      PROVE  x \in ActiveJobs' <=> x \in ActiveJobs \ {job}
  BY <1>1, <1>3 DEF ActiveJobs, Unfinished
<1>5. ActiveJobs \subseteq 1..sequence /\ ActiveJobs' \subseteq 1..sequence
  BY <1>1 DEF ActiveJobs
<1> QED BY <1>4, <1>5

LEMMA ActiveStays ==
  ASSUME TypeInv, sequence' = sequence,
         \/ jobs' = jobs
         \/ job \in ActiveJobs /\ jobs' = [jobs EXCEPT ![job].state = "running"]
         \/ jobs' = [jobs EXCEPT ![job].live = FALSE]
  PROVE  ActiveJobs' = ActiveJobs
<1>1. \A x \in DOMAIN jobs : jobs[x] \in JobRecord
  BY DEF TypeInv, TypeOK, JobRecord
<1>2. CASE jobs' = jobs
  BY <1>2 DEF ActiveJobs, Unfinished
<1>3. CASE job \in ActiveJobs /\ jobs' = [jobs EXCEPT ![job].state = "running"]
  <2>1. /\ DOMAIN jobs' = DOMAIN jobs
        /\ \A x \in DOMAIN jobs :
             jobs'[x] = IF x = job THEN [state |-> "running", live |-> jobs[x].live] ELSE jobs[x]
    <3>1. "running" \in JobState
      BY DEF JobState
    <3> QED BY <1>1, <1>3, <3>1, ExceptState
  <2> QED BY <1>3, <2>1 DEF ActiveJobs, Unfinished
<1>4. CASE jobs' = [jobs EXCEPT ![job].live = FALSE]
  <2>1. /\ DOMAIN jobs' = DOMAIN jobs
        /\ \A x \in DOMAIN jobs :
             jobs'[x] = IF x = job THEN [state |-> jobs[x].state, live |-> FALSE] ELSE jobs[x]
    BY <1>1, <1>4, ExceptLive
  <2> QED BY <2>1 DEF ActiveJobs, Unfinished
<1> QED BY <1>2, <1>3, <1>4

LEMMA InitLine == Init => LineInv
<1> SUFFICES ASSUME Init PROVE LineInv
  OBVIOUS
<1>1. Len(queue) = 0 /\ sequence = 0 /\ sending = 0
  BY EmptySeq DEF Init
<1>2. Queued = {} /\ 1..sequence = {}
  BY <1>1 DEF Queued
<1> QED BY <1>1, <1>2 DEF LineInv

LEMMA WorkersJob ==
  ASSUME TypeInv, LineInv, worker.at # "idle"
  PROVE  job \in ActiveJobs
<1>1. job \in 1..sequence
  BY Holding
<1> QED BY <1>1 DEF LineInv, job

LEMMA NextLine == TypeInv /\ LineInv /\ [Next]_vars => LineInv'
<1> SUFFICES ASSUME TypeInv, LineInv, [Next]_vars PROVE LineInv'
  OBVIOUS
<1>t. /\ queue \in Seq(1..sequence) /\ Len(queue) \in Nat
      /\ sequence \in Nat /\ sending \in 0..sequence /\ worker.job \in 0..sequence
      /\ \A k \in 1..Len(queue) : queue[k] \in 1..sequence
  BY DEF TypeInv, TypeOK
<1>1. ASSUME NEW b \in Base, NEW size \in QueueSize, NEW encoding \in {"none", "pending"},
             Enqueue(b, size, encoding)
      PROVE  LineInv'
  <2>1. /\ sending = 0 /\ sending' = sequence + 1 /\ sequence' = sequence + 1
        /\ UNCHANGED <<queue, worker>>
    BY <1>1 DEF Enqueue, muFree
  <2>2. ActiveJobs' = ActiveJobs \cup {sequence + 1}
    BY <1>1, ActiveGrows
  <2>3. Queued' = Queued /\ Queued \subseteq 1..sequence
    BY <1>t, <2>1 DEF Queued
  <2>4. 1..sequence' = 1..sequence \cup {sequence + 1} /\ sequence + 1 \notin 1..sequence
        /\ sequence + 1 # worker.job /\ worker'.job = worker.job
    BY <1>t, <2>1
  <2>5. \A id \in 1..sequence' :
           id \in ActiveJobs' <=> id \in Queued' \cup {sending', worker'.job}
    BY <1>t, <2>1, <2>2, <2>3, <2>4 DEF LineInv
  <2> QED BY <2>1, <2>3, <2>4, <2>5 DEF LineInv
<1>2. ASSUME Send PROVE LineInv'
  <2>1. /\ sending # 0 /\ sending' = 0 /\ queue' = Append(queue, sending)
        /\ UNCHANGED <<sequence, worker, jobs>>
    BY <1>2 DEF Send
  <2>2. /\ Len(queue') = Len(queue) + 1 /\ queue'[Len(queue) + 1] = sending
        /\ \A k \in 1..Len(queue) : queue'[k] = queue[k]
    BY <1>t, <2>1
  <2>3. Queued' = Queued \cup {sending}
    BY <1>t, <2>2 DEF Queued
  <2>4. ActiveJobs' = ActiveJobs
    BY <2>1, ActiveStays
  <2>5. ASSUME NEW k \in 1..Len(queue'), NEW l \in 1..Len(queue'), k # l
        PROVE  queue'[k] # queue'[l]
    <3>1. \A i \in 1..Len(queue) : queue[i] # sending
      BY DEF LineInv, Queued
    <3>2. \A i, j \in 1..Len(queue) : i # j => queue[i] # queue[j]
      BY DEF LineInv
    <3>3. (k \in 1..Len(queue) \/ k = Len(queue) + 1)
          /\ (l \in 1..Len(queue) \/ l = Len(queue) + 1)
      BY <1>t, <2>2
    <3> QED BY <2>2, <2>5, <3>1, <3>2, <3>3
  <2>6. 0 \notin Queued' /\ worker'.job \notin Queued'
    BY <1>t, <2>1, <2>3 DEF LineInv, Queued
  <2>7. \A id \in 1..sequence' :
           id \in ActiveJobs' <=> id \in Queued' \cup {sending', worker'.job}
    BY <1>t, <2>1, <2>3, <2>4 DEF LineInv
  <2> QED BY <2>1, <2>5, <2>6, <2>7 DEF LineInv
<1>3. ASSUME Receive PROVE LineInv'
  <2>1. /\ worker.at = "idle" /\ queue # <<>> /\ queue' = Tail(queue)
        /\ worker' = [at |-> "received", job |-> Head(queue)]
        /\ UNCHANGED <<sequence, sending, jobs>>
    BY <1>3 DEF Receive
  <2>2. /\ Len(queue') = Len(queue) - 1 /\ Len(queue) > 0
        /\ worker'.job = queue[1] /\ worker.job = 0
        /\ \A k \in 1..Len(queue) - 1 : queue'[k] = queue[k + 1]
    BY <1>t, <2>1, HeadTail DEF TypeInv, TypeOK
  <2>3. Queued' = Queued \ {queue[1]} /\ queue[1] \in Queued
    <3>1. ASSUME NEW x \in Queued' PROVE x \in Queued \ {queue[1]}
      <4>1. PICK k \in 1..Len(queue') : x = queue'[k]
        BY DEF Queued
      <4>2. k \in 1..Len(queue) - 1 /\ k + 1 \in 1..Len(queue) /\ 1 \in 1..Len(queue)
            /\ k + 1 # 1
        BY <1>t, <2>2
      <4>3. x = queue[k + 1]
        BY <2>2, <4>1, <4>2
      <4>4. queue[k + 1] # queue[1]
        BY <4>2 DEF LineInv
      <4> QED BY <4>2, <4>3, <4>4 DEF Queued
    <3>2. ASSUME NEW x \in Queued, x # queue[1] PROVE x \in Queued'
      <4>1. PICK k \in 1..Len(queue) : x = queue[k]
        BY DEF Queued
      <4>2. k - 1 \in 1..Len(queue') /\ queue'[k - 1] = x
        BY <1>t, <2>2, <3>2, <4>1
      <4> QED BY <4>2 DEF Queued
    <3>3. queue[1] \in Queued
      BY <1>t, <2>2 DEF Queued
    <3> QED BY <3>1, <3>2, <3>3
  <2>4. ActiveJobs' = ActiveJobs
    BY <2>1, ActiveStays
  <2>5. ASSUME NEW k \in 1..Len(queue'), NEW l \in 1..Len(queue'), k # l
        PROVE  queue'[k] # queue'[l]
    <3>1. k + 1 \in 1..Len(queue) /\ l + 1 \in 1..Len(queue) /\ k + 1 # l + 1
          /\ k \in 1..Len(queue) - 1 /\ l \in 1..Len(queue) - 1
      BY <1>t, <2>2, <2>5
    <3>2. queue[k + 1] # queue[l + 1]
      BY <3>1 DEF LineInv
    <3> QED BY <2>2, <3>1, <3>2
  <2>6. \A id \in 1..sequence' :
           id \in ActiveJobs' <=> id \in Queued' \cup {sending', worker'.job}
    BY <1>t, <2>1, <2>2, <2>3, <2>4 DEF LineInv
  <2>7. sending' \notin Queued' /\ worker'.job \notin Queued'
        /\ (sending' # 0 => worker'.job # sending')
    BY <2>1, <2>2, <2>3 DEF LineInv
  <2> QED BY <2>5, <2>6, <2>7 DEF LineInv
<1>4. ASSUME setRunning \/ Fallback \/ AwaitLive \/ LinkLive \/ Encode \/ Link \/ Cleanup
      PROVE  LineInv'
  <2>1. /\ worker.at # "idle" /\ \E st \in Step \ {"idle"} : goto(st)
        /\ UNCHANGED <<sequence, queue, sending>>
        /\ \/ jobs' = jobs
           \/ jobs' = [jobs EXCEPT ![job].state = "running"]
           \/ jobs' = [jobs EXCEPT ![job].live = FALSE]
    BY <1>4 DEF setRunning, Fallback, AwaitLive, LinkLive, Encode, Link, Cleanup, Step
  <2>2. worker'.job = worker.job /\ job \in ActiveJobs
    BY <2>1, Goto, WorkersJob
  <2>3. ActiveJobs' = ActiveJobs
    BY <2>1, <2>2, ActiveStays
  <2> QED BY <2>1, <2>2, <2>3 DEF LineInv, Queued
<1>5. ASSUME finish PROVE LineInv'
  <2>1. /\ worker.at # "idle" /\ worker' = [at |-> "idle", job |-> 0] /\ sending = 0
        /\ UNCHANGED <<sequence, queue, sending>>
    BY <1>5 DEF finish, muFree
  <2>2. ActiveJobs' = ActiveJobs \ {job} /\ worker'.job = 0 /\ Queued' = Queued
    BY <1>5, <2>1, ActiveShrinks DEF Queued
  <2>3. 0 \notin Queued
    BY <1>t DEF Queued
  <2>4. \A id \in 1..sequence' :
           id \in ActiveJobs' <=> id \in Queued' \cup {sending', worker'.job}
    BY <1>t, <2>1, <2>2, <2>3 DEF LineInv, job
  <2> QED BY <2>1, <2>2, <2>3, <2>4 DEF LineInv
<1>6. ASSUME \/ Close \/ RemoveSpool \/ UNCHANGED vars
             \/ \E id \in 1..sequence : LiveResult(id)
             \/ \E t \in Target : ForeignFile(t)
      PROVE  LineInv'
  <2>1. UNCHANGED <<sequence, queue, sending, worker, jobs>>
    BY <1>6 DEF Close, RemoveSpool, LiveResult, ForeignFile, vars
  <2>2. ActiveJobs' = ActiveJobs
    BY <2>1, ActiveStays
  <2> QED BY <2>1, <2>2 DEF LineInv, Queued
<1> QED BY <1>1, <1>2, <1>3, <1>4, <1>5, <1>6 DEF Next, WorkerStep

----------------------------------------------------------------------------
\* Shutdown.

SpoolInv == spoolRemoved => workerDone /\ sending = 0

LEMMA NextSpool == TypeInv /\ CountInv /\ SpoolInv /\ [Next]_vars => SpoolInv'
<1> SUFFICES ASSUME TypeInv, CountInv, SpoolInv, [Next]_vars PROVE SpoolInv'
  OBVIOUS
<1>1. CASE spoolRemoved
  <2>1. closed /\ queue = <<>> /\ worker.at = "idle" /\ sending = 0
    BY <1>1 DEF SpoolInv, workerDone
  <2>2. UNCHANGED <<closed, queue, worker, sending>>
    BY <2>1 DEF Next, WorkerStep, Enqueue, Send, Receive, setRunning, AwaitLive, LinkLive,
                Fallback, Encode, Link, Cleanup, finish, Close, RemoveSpool, LiveResult,
                ForeignFile, vars
  <2> QED BY <2>1, <2>2 DEF SpoolInv, workerDone
<1>2. CASE ~spoolRemoved
  <2>1. \/ spoolRemoved' = spoolRemoved
        \/ RemoveSpool
    BY DEF Next, WorkerStep, Enqueue, Send, Receive, setRunning, AwaitLive, LinkLive,
           Fallback, Encode, Link, Cleanup, finish, Close, LiveResult, ForeignFile, vars
  <2>2. closed => sending = 0
    BY DEF CountInv
  <2>3. RemoveSpool => workerDone /\ UNCHANGED <<closed, queue, worker, sending>>
    BY DEF RemoveSpool
  <2>4. ASSUME RemoveSpool PROVE SpoolInv'
    <3>1. closed /\ queue = <<>> /\ worker.at = "idle" /\ sending = 0
      BY <2>2, <2>3, <2>4 DEF workerDone
    <3>2. closed' = closed /\ queue' = queue /\ worker' = worker /\ sending' = sending
      BY <2>3, <2>4
    <3> QED BY <3>1, <3>2 DEF SpoolInv, workerDone
  <2> QED BY <1>2, <2>1, <2>4 DEF SpoolInv
<1> QED BY <1>1, <1>2

\* The spool directory is removed only when every accepted job has ended
\* (main.go:152-157).
THEOREM SpoolOutlives == Spec => []SpoolOutlivesJobs
<1>1. Init => SpoolInv
  BY DEF Init, SpoolInv
<1>2. TypeInv /\ LineInv /\ SpoolInv => SpoolOutlivesJobs
  <2> SUFFICES ASSUME TypeInv, LineInv, SpoolInv, spoolRemoved PROVE ActiveJobs = {}
    BY DEF SpoolOutlivesJobs
  <2>1. queue = <<>> /\ worker.job = 0 /\ sending = 0
    BY DEF SpoolInv, workerDone, TypeInv, TypeOK
  <2>2. Len(queue) = 0
    BY <2>1, EmptySeq
  <2>3. Queued = {}
    BY <2>2 DEF Queued
  <2>4. ActiveJobs \subseteq 1..sequence /\ 0 \notin 1..sequence
    BY DEF ActiveJobs
  <2> QED BY <2>1, <2>3, <2>4 DEF LineInv
<1> QED BY <1>1, <1>2, InitLine, NextLine, NextSpool, InitCount, NextCount, TypeInvHolds, PTL
        DEF Spec

----------------------------------------------------------------------------
\* Spool, partial and live files.

\* What the worker has removed, or has not made yet, at each of its steps.
LeftInv ==
    /\ NothingLeftBehind
    /\ \A id \in 1..sequence : live[id] = "none" => id \notin encodings
    /\ worker.at \in {"fallback", "encode", "link", "cleanup", "failedCleanup", "completed",
                      "failed"} => job \notin encodings
    /\ temps \subseteq {job}
    /\ worker.at \notin {"link", "cleanup", "failedCleanup"} => temps = {}
    /\ worker.at \in {"completed", "failed"} => job \notin segments

LEMMA InitLeft == Init => LeftInv
<1> SUFFICES ASSUME Init PROVE LeftInv
  OBVIOUS
<1>1. /\ sequence = 0 /\ segments = {} /\ temps = {} /\ encodings = {} /\ worker.at = "idle"
  BY DEF Init
<1> QED BY <1>1 DEF LeftInv, NothingLeftBehind

LEMMA NextLeft == TypeInv /\ LineInv /\ LeftInv /\ [Next]_vars => LeftInv'
<1> SUFFICES ASSUME TypeInv, LineInv, LeftInv, [Next]_vars PROVE LeftInv'
  OBVIOUS
<1>t. sequence \in Nat /\ ActiveJobs \subseteq 1..sequence /\ DOMAIN live = 1..sequence
  BY DEF TypeInv, TypeOK, ActiveJobs
<1>1. ASSUME NEW b \in Base, NEW size \in QueueSize, NEW encoding \in {"none", "pending"},
             Enqueue(b, size, encoding)
      PROVE  LeftInv'
  <2>1. /\ sequence' = sequence + 1 /\ live' = With(live, sequence + 1, encoding)
        /\ encodings' = IF encoding = "none" THEN encodings ELSE encodings \cup {sequence + 1}
        /\ segments' = segments \cup {sequence + 1}
        /\ UNCHANGED <<worker, temps>>
    BY <1>1 DEF Enqueue
  <2>2. ActiveJobs' = ActiveJobs \cup {sequence + 1}
    BY <1>1, ActiveGrows
  <2>3. /\ live'[sequence + 1] = encoding
        /\ \A x \in 1..sequence : live'[x] = live[x]
    <3>1. \A x \in 1..sequence : x # sequence + 1 /\ x \in DOMAIN live
      BY <1>t
    <3> QED BY <2>1, <3>1 DEF With
  <2>4. /\ 1..sequence' = 1..sequence \cup {sequence + 1} /\ sequence + 1 \notin 1..sequence
        /\ encodings \subseteq 1..sequence
        /\ worker.job \in 0..sequence /\ sequence + 1 # worker.job
    BY <1>t, <2>1 DEF TypeInv, TypeOK
  <2>5. NothingLeftBehind'
    BY <2>1, <2>2, <2>4 DEF LeftInv, NothingLeftBehind
  <2>6. \A x \in 1..sequence' : live'[x] = "none" => x \notin encodings'
    BY <2>1, <2>3, <2>4 DEF LeftInv
  <2>7. worker' = worker /\ job' = job /\ job # sequence + 1
        /\ encodings' \subseteq encodings \cup {sequence + 1}
    BY <2>1, <2>4 DEF job
  <2> QED BY <2>1, <2>5, <2>6, <2>7 DEF LeftInv
<1>2. ASSUME Receive PROVE LeftInv'
  <2>1. /\ worker.at = "idle" /\ worker'.at = "received"
        /\ UNCHANGED <<jobs, sequence, live, segments, temps, encodings>>
    BY <1>2 DEF Receive
  <2>2. ActiveJobs' = ActiveJobs
    BY <2>1, ActiveStays
  <2>3. temps' = {}
    BY <2>1 DEF LeftInv
  <2> QED BY <2>1, <2>2, <2>3 DEF LeftInv, NothingLeftBehind
<1>3. ASSUME setRunning \/ Fallback \/ AwaitLive \/ LinkLive \/ Encode \/ Link \/ Cleanup
      PROVE  LeftInv'
  <2>1. /\ worker.at # "idle" /\ \E st \in Step \ {"idle"} : goto(st)
        /\ UNCHANGED <<sequence, live>>
        /\ segments' \subseteq segments /\ encodings' \subseteq encodings
        /\ temps' \subseteq temps \cup {job}
        /\ \/ jobs' = jobs
           \/ jobs' = [jobs EXCEPT ![job].state = "running"]
           \/ jobs' = [jobs EXCEPT ![job].live = FALSE]
    BY <1>3 DEF setRunning, Fallback, AwaitLive, LinkLive, Encode, Link, Cleanup, Step
  <2>2. job' = job /\ job \in ActiveJobs /\ job \in 1..sequence
    BY <2>1, Goto, WorkersJob, Holding DEF job
  <2>3. ActiveJobs' = ActiveJobs
    BY <2>1, <2>2, ActiveStays
  <2>4. NothingLeftBehind'
    BY <2>1, <2>2, <2>3 DEF LeftInv, NothingLeftBehind
  <2>5. \A x \in 1..sequence' : live'[x] = "none" => x \notin encodings'
    BY <2>1 DEF LeftInv
  <2>6. temps' \subseteq {job'}
    BY <2>1, <2>2 DEF LeftInv
  <2>7. ASSUME NEW st \in Step \ {"idle"}, goto(st) PROVE worker'.at = st
    BY <2>1, <2>7, Goto
  <2>8. worker'.at \in {"fallback", "encode", "link", "cleanup", "failedCleanup", "completed",
                        "failed"} => job \notin encodings'
    BY <1>3, <2>2, <2>7
    DEF setRunning, Fallback, AwaitLive, LinkLive, Encode, Link, Cleanup, Step, LeftInv
  <2>9. worker'.at \notin {"link", "cleanup", "failedCleanup"} => temps' = {}
    BY <1>3, <2>7
    DEF setRunning, Fallback, AwaitLive, LinkLive, Encode, Link, Cleanup, Step, LeftInv
  <2>10. worker'.at \in {"completed", "failed"} => job \notin segments'
    BY <1>3, <2>7
    DEF setRunning, Fallback, AwaitLive, LinkLive, Encode, Link, Cleanup, Step, LeftInv
  <2> QED BY <2>2, <2>4, <2>5, <2>6, <2>8, <2>9, <2>10 DEF LeftInv
<1>4. ASSUME finish PROVE LeftInv'
  <2>1. /\ worker.at \in {"completed", "failed"} /\ worker' = [at |-> "idle", job |-> 0]
        /\ UNCHANGED <<sequence, live, segments, temps, encodings>>
    BY <1>4 DEF finish
  <2>2. ActiveJobs' = ActiveJobs \ {job} /\ worker'.at = "idle"
    BY <1>4, <2>1, ActiveShrinks
  <2>3. job \notin segments /\ job \notin encodings /\ temps = {}
    BY <2>1 DEF LeftInv
  <2>4. NothingLeftBehind'
    BY <2>1, <2>2, <2>3 DEF LeftInv, NothingLeftBehind
  <2> QED BY <2>1, <2>2, <2>3, <2>4 DEF LeftInv
<1>5. ASSUME \/ Send \/ Close \/ RemoveSpool \/ UNCHANGED vars
             \/ \E t \in Target : ForeignFile(t)
      PROVE  LeftInv'
  <2>1. /\ UNCHANGED <<jobs, sequence, live, worker, temps, encodings>>
        /\ segments' \subseteq segments
    BY <1>5 DEF Send, Close, RemoveSpool, ForeignFile, vars
  <2>2. ActiveJobs' = ActiveJobs /\ job' = job
    BY <2>1, ActiveStays DEF job
  <2> QED BY <2>1, <2>2 DEF LeftInv, NothingLeftBehind
<1>6. ASSUME NEW id \in 1..sequence, LiveResult(id) PROVE LeftInv'
  <2>1. /\ live[id] = "pending"
        /\ \E r \in {"good", "bad"} : live' = [live EXCEPT ![id] = r]
        /\ UNCHANGED <<jobs, sequence, worker, segments, temps, encodings>>
    BY <1>6 DEF LiveResult
  <2>2. ActiveJobs' = ActiveJobs /\ job' = job
    BY <2>1, ActiveStays DEF job
  <2>3. \A x \in 1..sequence : live'[x] = "none" => live[x] = "none"
    BY <1>t, <2>1
  <2> QED BY <2>1, <2>2, <2>3 DEF LeftInv, NothingLeftBehind
<1> QED BY <1>1, <1>2, <1>3, <1>4, <1>5, <1>6 DEF Next, WorkerStep

\* A job that has ended leaves no spool, partial or live file behind (export.go:238,
\* 253-256, 293, 327).
THEOREM NothingStaysBehind == Spec => []NothingLeftBehind
<1>1. LeftInv => NothingLeftBehind
  BY DEF LeftInv
<1> QED BY <1>1, InitLeft, NextLeft, InitLine, NextLine, TypeInvHolds, PTL DEF Spec

----------------------------------------------------------------------------
\* What the jobs have published.

Unpublished(id) == \A t \in DOMAIN files : files[t].job # id
Published(id) ==
    target[id] \in DOMAIN files /\ files[target[id]] = [job |-> id, live |-> jobs[id].live]

\* Which files there are, and by which encoder the worker's job will be published.
FilesInv ==
    /\ \A t \in DOMAIN files : files[t].job \in 0..sequence
    /\ \A id \in ActiveJobs : id # worker.job => Unpublished(id)
    /\ worker.at \in {"cleanup", "completed"} => Published(job)
    /\ worker.at \notin {"idle", "cleanup", "completed"} => Unpublished(job)

EncoderInv ==
    /\ \A id \in ActiveJobs : id # worker.job => (jobs[id].live <=> live[id] # "none")
    /\ worker.at = "received" => (jobs[job].live <=> live[job] # "none")
    /\ worker.at \in {"awaitLive", "linkLive"} => jobs[job].live
    /\ worker.at \in {"encode", "link", "cleanup", "failedCleanup"} => ~jobs[job].live

\* What no step disturbs: files stay, and a job's record, target and files are its own.
LEMMA PublishedStays ==
  ASSUME NEW id, Published(id), target'[id] = target[id], jobs'[id].live = jobs[id].live,
         files' = files \/ \E t, made : link(t, made)
  PROVE  Published(id)'
<1>1. target[id] \in DOMAIN files' /\ files'[target[id]] = files[target[id]]
  BY LinkKeeps DEF Published
<1> QED BY <1>1 DEF Published

LEMMA UnpublishedStays ==
  ASSUME NEW id, Unpublished(id),
         files' = files \/ \E t, made : link(t, made) /\ made.job # id
  PROVE  Unpublished(id)'
  BY LinkKeeps DEF Unpublished

LEMMA NextEncoder == TypeInv /\ LineInv /\ EncoderInv /\ [Next]_vars => EncoderInv'
<1> SUFFICES ASSUME TypeInv, LineInv, EncoderInv, [Next]_vars PROVE EncoderInv'
  OBVIOUS
<1>t. /\ sequence \in Nat /\ ActiveJobs \subseteq 1..sequence /\ DOMAIN live = 1..sequence
      /\ ActiveJobs \subseteq DOMAIN jobs
      /\ \A x \in DOMAIN jobs : jobs[x] \in JobRecord
      /\ DOMAIN jobs \subseteq 1..sequence
  BY DEF TypeInv, TypeOK, ActiveJobs, JobRecord
<1>1. ASSUME NEW b \in Base, NEW size \in QueueSize, NEW encoding \in {"none", "pending"},
             Enqueue(b, size, encoding)
      PROVE  EncoderInv'
  <2>1. /\ live' = With(live, sequence + 1, encoding) /\ UNCHANGED worker
    BY <1>1 DEF Enqueue
  <2>2. ActiveJobs' = ActiveJobs \cup {sequence + 1}
    BY <1>1, ActiveGrows
  <2>3. /\ live'[sequence + 1] = encoding
        /\ \A x \in 1..sequence : live'[x] = live[x] /\ x # sequence + 1
    <3>1. \A x \in 1..sequence : x # sequence + 1 /\ x \in DOMAIN live
      BY <1>t
    <3> QED BY <2>1, <3>1 DEF With
  <2>4. /\ jobs'[sequence + 1].live = (encoding # "none")
        /\ \A x \in ActiveJobs : jobs'[x] = jobs[x]
    <3>1. /\ jobs'[sequence + 1] = [state |-> "queued", live |-> encoding # "none"]
          /\ \A x \in DOMAIN jobs' : x # sequence + 1 => jobs'[x] = jobs[x]
          /\ \A x \in DOMAIN jobs : Unfinished(x) => x \in DOMAIN jobs'
      BY <1>1, EnqueueFacts
    <3> QED BY <1>t, <2>3, <3>1 DEF ActiveJobs
  <2>5. worker' = worker /\ job' = job /\ (worker.at # "idle" => job \in ActiveJobs)
    BY <2>1, WorkersJob DEF job
  <2>6. \A id \in ActiveJobs' : id # worker'.job => (jobs'[id].live <=> live'[id] # "none")
    BY <1>t, <2>2, <2>3, <2>4, <2>5 DEF EncoderInv
  <2>7. worker.at # "idle" => jobs'[job'] = jobs[job] /\ live'[job'] = live[job]
    BY <1>t, <2>3, <2>4, <2>5
  <2> QED BY <2>5, <2>6, <2>7 DEF EncoderInv
<1>2. ASSUME Receive PROVE EncoderInv'
  <2>1. /\ worker.at = "idle" /\ worker.job = 0 /\ worker'.at = "received"
        /\ worker'.job = Head(queue) /\ queue # <<>>
        /\ UNCHANGED <<jobs, sequence, live>>
    BY <1>2 DEF Receive, TypeInv, TypeOK
  <2>2. ActiveJobs' = ActiveJobs
    BY <2>1, ActiveStays
  <2>3. Head(queue) \in ActiveJobs
    <3>1. queue \in Seq(1..sequence)
      BY DEF TypeInv, TypeOK
    <3>2. Head(queue) = queue[1] /\ Len(queue) \in Nat /\ Len(queue) > 0
          /\ Head(queue) \in 1..sequence
      BY <2>1, <3>1, HeadTail
    <3>3. 1 \in 1..Len(queue)
      BY <3>2
    <3> QED BY <3>2, <3>3 DEF LineInv, Queued
  <2>4. \A id \in ActiveJobs : jobs[id].live <=> live[id] # "none"
    BY <1>t, <2>1 DEF EncoderInv
  <2> QED BY <2>1, <2>2, <2>3, <2>4 DEF EncoderInv, job
<1>3. ASSUME setRunning \/ Fallback \/ AwaitLive \/ LinkLive \/ Encode \/ Link \/ Cleanup
      PROVE  EncoderInv'
  <2>1. /\ worker.at # "idle" /\ \E st \in Step \ {"idle"} : goto(st)
        /\ UNCHANGED <<sequence, live>>
        /\ \/ jobs' = jobs
           \/ jobs' = [jobs EXCEPT ![job].state = "running"]
           \/ jobs' = [jobs EXCEPT ![job].live = FALSE]
    BY <1>3 DEF setRunning, Fallback, AwaitLive, LinkLive, Encode, Link, Cleanup, Step
  <2>2. job' = job /\ worker'.job = worker.job /\ job \in ActiveJobs /\ job \in DOMAIN jobs
    BY <1>t, <2>1, Goto, WorkersJob DEF job
  <2>3. ActiveJobs' = ActiveJobs
    BY <2>1, <2>2, ActiveStays
  <2>4. ASSUME NEW st \in Step \ {"idle"}, goto(st) PROVE worker'.at = st
    BY <2>1, <2>4, Goto
  <2>5. CASE jobs' = jobs /\ ~setRunning /\ ~Fallback
    <3>1. worker'.at \in {"awaitLive", "linkLive"} => worker.at \in {"awaitLive", "linkLive"}
      BY <1>3, <2>4, <2>5 DEF AwaitLive, LinkLive, Encode, Link, Cleanup, Step
    <3>2. worker'.at \in {"encode", "link", "cleanup", "failedCleanup"} =>
            worker.at \in {"encode", "link", "cleanup", "failedCleanup"}
      BY <1>3, <2>4, <2>5 DEF AwaitLive, LinkLive, Encode, Link, Cleanup, Step
    <3>3. worker'.at # "received"
      BY <1>3, <2>4, <2>5 DEF AwaitLive, LinkLive, Encode, Link, Cleanup, Step
    <3> QED BY <2>1, <2>2, <2>3, <2>5, <3>1, <3>2, <3>3 DEF EncoderInv
  <2>6. CASE setRunning
    <3>1. /\ jobs' = [jobs EXCEPT ![job].state = "running"] /\ worker.at = "received"
          /\ goto(IF live[job] = "none" THEN "encode" ELSE "awaitLive")
      BY <2>6 DEF setRunning
    <3>2. worker'.at = IF live[job] = "none" THEN "encode" ELSE "awaitLive"
      BY <2>4, <3>1 DEF Step
    <3>3. \A x \in DOMAIN jobs : jobs'[x].live = jobs[x].live
      <4>1. "running" \in JobState
        BY DEF JobState
      <4>2. \A x \in DOMAIN jobs : jobs'[x] =
              IF x = job THEN [state |-> "running", live |-> jobs[x].live] ELSE jobs[x]
        BY <1>t, <3>1, <4>1, ExceptState
      <4>3. TAKE x \in DOMAIN jobs
      <4>4. CASE x = job
        <5>1. jobs'[x] = [state |-> "running", live |-> jobs[x].live]
          BY <4>2, <4>4
        <5> QED BY <5>1
      <4>5. CASE x # job
        BY <4>2, <4>5
      <4> QED BY <4>4, <4>5
    <3>4. jobs[job].live <=> live[job] # "none"
      BY <3>1 DEF EncoderInv
    <3>5. \A id \in ActiveJobs' : id # worker'.job => (jobs'[id].live <=> live'[id] # "none")
      BY <1>t, <2>1, <2>2, <2>3, <3>3 DEF EncoderInv
    <3>6. jobs'[job'].live = jobs[job].live
      BY <2>2, <3>3
    <3> QED BY <3>2, <3>4, <3>5, <3>6 DEF EncoderInv
  <2>7. CASE Fallback
    <3>1. jobs' = [jobs EXCEPT ![job].live = FALSE] /\ goto("encode")
      BY <2>7 DEF Fallback
    <3>2. worker'.at = "encode"
      BY <2>4, <3>1 DEF Step
    <3>3. \A x \in DOMAIN jobs : jobs'[x] =
              IF x = job THEN [state |-> jobs[x].state, live |-> FALSE] ELSE jobs[x]
      BY <1>t, <3>1, ExceptLive
    <3>4. \A id \in ActiveJobs' : id # worker'.job => (jobs'[id].live <=> live'[id] # "none")
      <4>1. \A id \in ActiveJobs : id # worker.job => jobs'[id] = jobs[id]
        BY <1>t, <3>3 DEF job
      <4> QED BY <2>1, <2>2, <2>3, <4>1 DEF EncoderInv
    <3>5. ~jobs'[job'].live
      <4>1. jobs'[job] = [state |-> jobs[job].state, live |-> FALSE]
        BY <2>2, <3>3
      <4> QED BY <2>2, <4>1
    <3> QED BY <3>2, <3>4, <3>5 DEF EncoderInv
  <2> QED BY <1>3, <2>5, <2>6, <2>7 DEF AwaitLive, LinkLive, Encode, Link, Cleanup
<1>4. ASSUME finish PROVE EncoderInv'
  <2>1. /\ jobs' = [jobs EXCEPT ![job].state = worker.at] /\ worker.at \in JobState
        /\ worker' = [at |-> "idle", job |-> 0] /\ UNCHANGED <<sequence, live>>
    BY <1>4 DEF finish, JobState
  <2>2. ActiveJobs' = ActiveJobs \ {job} /\ worker'.at = "idle"
    BY <1>4, <2>1, ActiveShrinks
  <2>3. \A x \in DOMAIN jobs : x # job => jobs'[x] = jobs[x]
    BY <1>t, <2>1, ExceptState
  <2> QED BY <1>t, <2>1, <2>2, <2>3 DEF EncoderInv, job
<1>5. ASSUME \/ Send \/ Close \/ RemoveSpool \/ UNCHANGED vars
             \/ \E t \in Target : ForeignFile(t)
      PROVE  EncoderInv'
  <2>1. UNCHANGED <<jobs, sequence, live, worker>>
    BY <1>5 DEF Send, Close, RemoveSpool, ForeignFile, vars
  <2>2. ActiveJobs' = ActiveJobs /\ job' = job
    BY <2>1, ActiveStays DEF job
  <2> QED BY <2>1, <2>2 DEF EncoderInv
<1>6. ASSUME NEW id \in 1..sequence, LiveResult(id) PROVE EncoderInv'
  <2>1. /\ live[id] = "pending"
        /\ \E r \in {"good", "bad"} : live' = [live EXCEPT ![id] = r]
        /\ UNCHANGED <<jobs, sequence, worker>>
    BY <1>6 DEF LiveResult
  <2>2. ActiveJobs' = ActiveJobs /\ job' = job
    BY <2>1, ActiveStays DEF job
  <2>3. \A x \in 1..sequence : live'[x] = "none" <=> live[x] = "none"
    BY <1>t, <2>1
  <2>4. worker.at # "idle" => job \in 1..sequence
    BY Holding
  <2> QED BY <1>t, <2>1, <2>2, <2>3, <2>4 DEF EncoderInv
<1> QED BY <1>1, <1>2, <1>3, <1>4, <1>5, <1>6 DEF Next, WorkerStep

TruthInv == FilesInv /\ StatusTellsTheTruth

\* A step of another actor than the worker, which links nothing of a job, keeps it.
LEMMA OthersKeepTruth ==
  ASSUME TypeInv, TruthInv, UNCHANGED <<jobs, target, sequence, worker>>,
         files' = files \/ \E t : link(t, Foreign)
  PROVE  TruthInv'
<1>1. ActiveJobs' = ActiveJobs /\ job' = job
  BY ActiveStays DEF job
<1>2. \A id : /\ Published(id) => Published(id)'
              /\ id # 0 /\ Unpublished(id) => Unpublished(id)'
  BY PublishedStays, UnpublishedStays DEF Foreign
<1>3. \A t \in DOMAIN files' : files'[t].job \in 0..sequence
  <2>1. \A t \in DOMAIN files : files[t].job \in 0..sequence
    BY DEF TruthInv, FilesInv
  <2>2. Foreign.job \in 0..sequence
    BY DEF Foreign, TypeInv, TypeOK
  <2> QED BY <2>1, <2>2, LinkKeeps
<1>4. ActiveJobs \subseteq 1..sequence /\ DOMAIN jobs \subseteq 1..sequence
      /\ (worker.at # "idle" => job # 0)
  BY Holding DEF ActiveJobs, TypeInv, TypeOK
<1>5. FilesInv'
  <2>1. \A id \in ActiveJobs : id # 0
    BY <1>4
  <2> QED BY <1>1, <1>2, <1>3, <1>4, <2>1 DEF TruthInv, FilesInv
<1>6. StatusTellsTheTruth'
  <2> SUFFICES ASSUME NEW id \in DOMAIN jobs
               PROVE  /\ jobs[id].state = "completed" => Published(id)'
                      /\ jobs[id].state = "failed" => Unpublished(id)'
    BY DEF StatusTellsTheTruth, Published, Unpublished
  <2>1. /\ jobs[id].state = "completed" => Published(id)
        /\ jobs[id].state = "failed" => Unpublished(id)
    BY DEF TruthInv, StatusTellsTheTruth, Published, Unpublished
  <2>2. id # 0
    BY <1>4
  <2> QED BY <1>2, <2>1, <2>2
<1> QED BY <1>5, <1>6 DEF TruthInv

\* A step of the worker keeps it, if it links only files of the worker's job, and knows
\* whether it has linked one.
LEMMA WorkerKeepsTruth ==
  ASSUME TypeInv, LineInv, TruthInv, worker.at # "idle", worker'.at # "idle",
         UNCHANGED <<target, sequence>>, job' = job, ActiveJobs' = ActiveJobs,
         DOMAIN jobs' = DOMAIN jobs, \A x \in DOMAIN jobs : x # job => jobs'[x] = jobs[x],
         files' = files \/ \E t, made : link(t, made) /\ made.job = job,
         worker'.at \in {"cleanup", "completed"} => Published(job)',
         worker'.at \notin {"cleanup", "completed"} => Unpublished(job)'
  PROVE  TruthInv'
<1>1. job \in ActiveJobs /\ job \in 0..sequence
  BY WorkersJob, Holding
<1>2. ASSUME NEW id \in DOMAIN jobs, id # job
      PROVE  (Published(id) => Published(id)') /\ (Unpublished(id) => Unpublished(id)')
  <2>1. jobs'[id] = jobs[id] /\ target'[id] = target[id]
    BY <1>2
  <2> QED BY <1>2, <2>1, PublishedStays, UnpublishedStays
<1>3. \A t \in DOMAIN files' : files'[t].job \in 0..sequence
  <2>1. \A t \in DOMAIN files : files[t].job \in 0..sequence
    BY DEF TruthInv, FilesInv
  <2>2. CASE files' = files
    BY <2>1, <2>2
  <2>3. ASSUME NEW t, NEW made, link(t, made), made.job = job
        PROVE  \A u \in DOMAIN files' : files'[u].job \in 0..sequence
    <3>1. DOMAIN files' = DOMAIN files \cup {t} /\ files'[t] = made
          /\ \A u \in DOMAIN files : files'[u] = files[u]
      BY <2>3, LinkKeeps
    <3> QED BY <1>1, <2>1, <2>3, <3>1
  <2> QED BY <2>2, <2>3
<1>4. FilesInv'
  <2>1. \A id \in ActiveJobs : id \in DOMAIN jobs
    BY DEF ActiveJobs
  <2>2. \A id \in ActiveJobs : id # job => Unpublished(id)'
    BY <1>2, <2>1 DEF TruthInv, FilesInv, job
  <2>3. worker'.job = job
    BY DEF job
  <2> QED BY <1>3, <2>2, <2>3 DEF FilesInv
<1>5. StatusTellsTheTruth'
  <2> SUFFICES ASSUME NEW id \in DOMAIN jobs
               PROVE  /\ jobs'[id].state = "completed" => Published(id)'
                      /\ jobs'[id].state = "failed" => Unpublished(id)'
    BY DEF StatusTellsTheTruth, Published, Unpublished
  <2>1. CASE id = job
    BY <1>1, <2>1 DEF ActiveJobs, Unfinished
  <2>2. CASE id # job
    <3>1. /\ jobs[id].state = "completed" => Published(id)
          /\ jobs[id].state = "failed" => Unpublished(id)
      BY DEF TruthInv, StatusTellsTheTruth, Published, Unpublished
    <3> QED BY <1>2, <2>2, <3>1
  <2> QED BY <2>1, <2>2
<1> QED BY <1>4, <1>5 DEF TruthInv

LEMMA InitTruth == Init => TruthInv
<1> SUFFICES ASSUME Init PROVE TruthInv
  OBVIOUS
<1>1. DOMAIN files = {} /\ DOMAIN jobs = {} /\ worker.at = "idle"
  BY DEF Init
<1> QED BY <1>1 DEF TruthInv, FilesInv, StatusTellsTheTruth, ActiveJobs, Unpublished

LEMMA NextTruth == TypeInv /\ LineInv /\ EncoderInv /\ TruthInv /\ [Next]_vars => TruthInv'
<1> SUFFICES ASSUME TypeInv, LineInv, EncoderInv, TruthInv, [Next]_vars PROVE TruthInv'
  OBVIOUS
<1>t. /\ sequence \in Nat /\ ActiveJobs \subseteq DOMAIN jobs /\ DOMAIN jobs \subseteq 1..sequence
      /\ DOMAIN target = 1..sequence /\ \A x \in DOMAIN jobs : jobs[x] \in JobRecord
  BY DEF TypeInv, TypeOK, ActiveJobs, JobRecord
<1>1. ASSUME NEW b \in Base, NEW size \in QueueSize, NEW encoding \in {"none", "pending"},
             Enqueue(b, size, encoding)
      PROVE  TruthInv'
  <2>1. UNCHANGED <<worker, files>> /\ sequence' = sequence + 1
    BY <1>1 DEF Enqueue
  <2>2. ActiveJobs' = ActiveJobs \cup {sequence + 1}
    BY <1>1, ActiveGrows
  <2>3. \A x \in 1..sequence : target'[x] = target[x] /\ x # sequence + 1
    <3>1. \E t \in Target : target' = With(target, sequence + 1, t)
      BY <1>1, EnqueueFacts
    <3>2. \A x \in 1..sequence : x \in DOMAIN target /\ x # sequence + 1
      BY <1>t
    <3> QED BY <3>1, <3>2 DEF With
  <2>4. /\ jobs'[sequence + 1].state = "queued"
        /\ \A x \in DOMAIN jobs' : x # sequence + 1 => x \in DOMAIN jobs /\ jobs'[x] = jobs[x]
        /\ \A x \in ActiveJobs : jobs'[x] = jobs[x]
    <3>1. /\ jobs'[sequence + 1] = [state |-> "queued", live |-> encoding # "none"]
          /\ DOMAIN jobs' \subseteq DOMAIN jobs \cup {sequence + 1}
          /\ \A x \in DOMAIN jobs' : x # sequence + 1 => jobs'[x] = jobs[x]
          /\ \A x \in DOMAIN jobs : Unfinished(x) => x \in DOMAIN jobs'
      BY <1>1, EnqueueFacts
    <3> QED BY <1>t, <2>3, <3>1 DEF ActiveJobs
  <2>5. \A id : Unpublished(id) => Unpublished(id)'
    BY <2>1 DEF Unpublished
  <2>6. ASSUME NEW n, n = sequence + 1 PROVE Unpublished(n)'
    <3>1. \A t \in DOMAIN files : files[t].job \in 0..sequence
      BY DEF TruthInv, FilesInv
    <3> QED BY <1>t, <2>1, <2>6, <3>1 DEF Unpublished
  <2>7. ASSUME NEW id \in 1..sequence, Published(id), jobs'[id] = jobs[id]
        PROVE  Published(id)'
    BY <2>1, <2>3, <2>7, PublishedStays
  <2>8. worker'.job = worker.job /\ job' = job /\ worker'.at = worker.at
        /\ (worker.at # "idle" => job \in ActiveJobs /\ job \in 1..sequence)
    BY <2>1, WorkersJob, Holding DEF job
  <2>9. FilesInv'
    <3>1. \A t \in DOMAIN files' : files'[t].job \in 0..sequence'
      BY <1>t, <2>1 DEF TruthInv, FilesInv
    <3>2. \A id \in ActiveJobs' : id # worker'.job => Unpublished(id)'
      <4>1. ASSUME NEW id \in ActiveJobs, id # worker'.job PROVE Unpublished(id)'
        <5>1. Unpublished(id)
          BY <2>8, <4>1 DEF TruthInv, FilesInv
        <5> QED BY <2>5, <5>1
      <4> QED BY <2>2, <2>6, <4>1
    <3>3. worker'.at \in {"cleanup", "completed"} => Published(job)'
      BY <2>4, <2>7, <2>8 DEF TruthInv, FilesInv
    <3>4. worker'.at \notin {"idle", "cleanup", "completed"} => Unpublished(job)'
      BY <2>5, <2>8 DEF TruthInv, FilesInv
    <3> QED BY <2>8, <3>1, <3>2, <3>3, <3>4 DEF FilesInv
  <2>10. StatusTellsTheTruth'
    <3> SUFFICES ASSUME NEW id \in DOMAIN jobs'
                 PROVE  /\ jobs'[id].state = "completed" => Published(id)'
                        /\ jobs'[id].state = "failed" => Unpublished(id)'
      BY DEF StatusTellsTheTruth, Published, Unpublished
    <3>1. CASE id = sequence + 1
      BY <2>4, <3>1
    <3>2. CASE id # sequence + 1
      <4>1. id \in DOMAIN jobs /\ jobs'[id] = jobs[id] /\ id \in 1..sequence
        BY <1>t, <2>4, <3>2
      <4>2. /\ jobs[id].state = "completed" => Published(id)
            /\ jobs[id].state = "failed" => Unpublished(id)
        BY <4>1 DEF TruthInv, StatusTellsTheTruth, Published, Unpublished
      <4> QED BY <2>5, <2>7, <4>1, <4>2
    <3> QED BY <3>1, <3>2
  <2> QED BY <2>9, <2>10 DEF TruthInv
<1>2. ASSUME Receive PROVE TruthInv'
  <2>1. /\ worker.at = "idle" /\ worker.job = 0 /\ worker'.at = "received"
        /\ worker'.job = Head(queue) /\ queue # <<>>
        /\ UNCHANGED <<jobs, target, sequence, files>>
    BY <1>2 DEF Receive, TypeInv, TypeOK
  <2>2. ActiveJobs' = ActiveJobs
    BY <2>1, ActiveStays
  <2>3. Head(queue) \in ActiveJobs
    <3>1. queue \in Seq(1..sequence)
      BY DEF TypeInv, TypeOK
    <3>2. Head(queue) = queue[1] /\ Len(queue) \in Nat /\ Len(queue) > 0
          /\ Head(queue) \in 1..sequence
      BY <2>1, <3>1, HeadTail
    <3>3. 1 \in 1..Len(queue)
      BY <3>2
    <3> QED BY <3>2, <3>3 DEF LineInv, Queued
  <2>4. \A id \in ActiveJobs : Unpublished(id)
    BY <1>t, <2>1 DEF TruthInv, FilesInv
  <2>5. \A id : Unpublished(id)' <=> Unpublished(id)
    BY <2>1 DEF Unpublished
  <2>6. FilesInv'
    BY <2>1, <2>2, <2>3, <2>4, <2>5 DEF TruthInv, FilesInv, job
  <2>7. StatusTellsTheTruth'
    BY <2>1 DEF TruthInv, StatusTellsTheTruth
  <2> QED BY <2>6, <2>7 DEF TruthInv
<1>3. ASSUME setRunning \/ Fallback \/ AwaitLive \/ LinkLive \/ Encode \/ Link \/ Cleanup
      PROVE  TruthInv'
  <2>1. /\ worker.at # "idle" /\ \E st \in Step \ {"idle"} : goto(st)
        /\ UNCHANGED <<sequence, target>>
        /\ \/ jobs' = jobs
           \/ jobs' = [jobs EXCEPT ![job].state = "running"]
           \/ jobs' = [jobs EXCEPT ![job].live = FALSE]
    BY <1>3 DEF setRunning, Fallback, AwaitLive, LinkLive, Encode, Link, Cleanup, Step
  <2>2. job' = job /\ worker'.at # "idle" /\ job \in ActiveJobs /\ job \in DOMAIN jobs
    BY <1>t, <2>1, Goto, WorkersJob DEF job
  <2>3. ActiveJobs' = ActiveJobs
    BY <2>1, <2>2, ActiveStays
  <2>4. ASSUME NEW st \in Step \ {"idle"}, goto(st) PROVE worker'.at = st
    BY <2>1, <2>4, Goto
  <2>5. DOMAIN jobs' = DOMAIN jobs /\ \A x \in DOMAIN jobs : x # job => jobs'[x] = jobs[x]
    BY <2>1
  <2>6. CASE files' = files /\ ~LinkLive /\ ~Link
    <3>1. Unpublished(job)' <=> Unpublished(job)
      BY <2>2, <2>6 DEF Unpublished
    <3>2. /\ worker'.at \in {"cleanup", "completed"} => worker.at = "cleanup" /\ jobs' = jobs
          /\ worker'.at \notin {"cleanup", "completed"} =>
               worker.at \notin {"cleanup", "completed"}
      BY <1>3, <2>4, <2>6 DEF setRunning, Fallback, AwaitLive, Encode, Cleanup, Step
    <3>3. worker'.at \in {"cleanup", "completed"} => Published(job)'
      <4>1. worker.at = "cleanup" => Published(job)
        BY DEF TruthInv, FilesInv
      <4> QED BY <2>1, <2>2, <2>6, <3>2, <4>1 DEF Published
    <3>4. worker'.at \notin {"cleanup", "completed"} => Unpublished(job)'
      BY <2>1, <3>1, <3>2 DEF TruthInv, FilesInv
    <3> QED BY <2>1, <2>2, <2>3, <2>5, <2>6, <3>3, <3>4, WorkerKeepsTruth
  <2>7. CASE LinkLive
    <3>1. jobs' = jobs /\ worker.at = "linkLive"
      BY <2>7 DEF LinkLive
    <3>2. Unpublished(job) /\ jobs[job].live = TRUE
      <4>1. jobs[job] \in JobRecord
        BY <1>t, <2>2
      <4> QED BY <3>1, <4>1 DEF TruthInv, FilesInv, EncoderInv, JobRecord
    <3>3. CASE link(target[job], [job |-> job, live |-> TRUE]) /\ goto("completed")
      <4>1. worker'.at = "completed"
        BY <2>4, <3>3 DEF Step
      <4>2. Published(job)'
        <5>1. target[job] \in DOMAIN files'
              /\ files'[target[job]] = [job |-> job, live |-> TRUE]
          BY <3>3 DEF link, With
        <5>2. target'[job] = target[job] /\ jobs'[job].live = TRUE /\ job' = job
          BY <2>1, <2>2, <3>1, <3>2
        <5> QED BY <5>1, <5>2 DEF Published
      <4>3. files' = files \/ \E t, made : link(t, made) /\ made.job = job
        BY <3>3
      <4> QED BY <2>1, <2>2, <2>3, <2>5, <4>1, <4>2, <4>3, WorkerKeepsTruth
    <3>4. CASE files' = files /\ goto("fallback")
      <4>1. worker'.at = "fallback"
        BY <2>4, <3>4 DEF Step
      <4>2. Unpublished(job)'
        BY <2>2, <3>2, <3>4 DEF Unpublished
      <4> QED BY <2>1, <2>2, <2>3, <2>5, <3>4, <4>1, <4>2, WorkerKeepsTruth
    <3> QED BY <2>7, <3>3, <3>4 DEF LinkLive
  <2>8. CASE Link
    <3>1. jobs' = jobs /\ worker.at = "link"
      BY <2>8 DEF Link
    <3>2. Unpublished(job) /\ jobs[job].live = FALSE
      <4>1. jobs[job] \in JobRecord
        BY <1>t, <2>2
      <4> QED BY <3>1, <4>1 DEF TruthInv, FilesInv, EncoderInv, JobRecord
    <3>3. CASE link(target[job], [job |-> job, live |-> FALSE]) /\ goto("cleanup")
      <4>1. worker'.at = "cleanup"
        BY <2>4, <3>3 DEF Step
      <4>2. Published(job)'
        <5>1. target[job] \in DOMAIN files'
              /\ files'[target[job]] = [job |-> job, live |-> FALSE]
          BY <3>3 DEF link, With
        <5>2. target'[job] = target[job] /\ jobs'[job].live = FALSE /\ job' = job
          BY <2>1, <2>2, <3>1, <3>2
        <5> QED BY <5>1, <5>2 DEF Published
      <4>3. files' = files \/ \E t, made : link(t, made) /\ made.job = job
        BY <3>3
      <4> QED BY <2>1, <2>2, <2>3, <2>5, <4>1, <4>2, <4>3, WorkerKeepsTruth
    <3>4. CASE files' = files /\ goto("failedCleanup")
      <4>1. worker'.at = "failedCleanup"
        BY <2>4, <3>4 DEF Step
      <4>2. Unpublished(job)'
        BY <2>2, <3>2, <3>4 DEF Unpublished
      <4> QED BY <2>1, <2>2, <2>3, <2>5, <3>4, <4>1, <4>2, WorkerKeepsTruth
    <3> QED BY <2>8, <3>3, <3>4 DEF Link
  <2> QED BY <1>3, <2>6, <2>7, <2>8 DEF setRunning, Fallback, AwaitLive, Encode, Cleanup
<1>4. ASSUME finish PROVE TruthInv'
  <2>1. /\ jobs' = [jobs EXCEPT ![job].state = worker.at]
        /\ worker.at \in {"completed", "failed"} /\ worker.at \in JobState
        /\ worker' = [at |-> "idle", job |-> 0] /\ UNCHANGED <<target, sequence, files>>
    BY <1>4 DEF finish, JobState
  <2>2. ActiveJobs' = ActiveJobs \ {job} /\ worker'.at = "idle"
    BY <1>4, <2>1, ActiveShrinks
  <2>3. DOMAIN jobs' = DOMAIN jobs
        /\ \A x \in DOMAIN jobs :
             jobs'[x] = IF x = job THEN [state |-> worker.at, live |-> jobs[x].live] ELSE jobs[x]
    BY <1>t, <2>1, ExceptState
  <2>4. \A id \in DOMAIN jobs : /\ Unpublished(id)' <=> Unpublished(id)
                                /\ Published(id)' <=> Published(id)
    <3>1. \A x \in DOMAIN jobs : jobs'[x].live = jobs[x].live
      <4>1. TAKE x \in DOMAIN jobs
      <4>2. CASE x = job
        <5>1. jobs'[x] = [state |-> worker.at, live |-> jobs[x].live]
          BY <2>3, <4>2
        <5> QED BY <5>1
      <4>3. CASE x # job
        BY <2>3, <4>3
      <4> QED BY <4>2, <4>3
    <3> QED BY <2>1, <3>1 DEF Unpublished, Published
  <2>5. FilesInv'
    BY <1>t, <2>1, <2>2, <2>4 DEF TruthInv, FilesInv, job
  <2>6. StatusTellsTheTruth'
    <3> SUFFICES ASSUME NEW id \in DOMAIN jobs
                 PROVE  /\ jobs'[id].state = "completed" => Published(id)
                        /\ jobs'[id].state = "failed" => Unpublished(id)
      BY <2>3, <2>4 DEF StatusTellsTheTruth, Published, Unpublished
    <3>1. CASE id = job
      <4>1. jobs'[id].state = worker.at
        <5>1. jobs'[id] = [state |-> worker.at, live |-> jobs[id].live]
          BY <2>3, <3>1
        <5> QED BY <5>1
      <4> QED BY <2>1, <3>1, <4>1 DEF TruthInv, FilesInv
    <3>2. CASE id # job
      BY <2>3, <3>2 DEF TruthInv, StatusTellsTheTruth, Published, Unpublished
    <3> QED BY <3>1, <3>2
  <2> QED BY <2>5, <2>6 DEF TruthInv
<1>5. ASSUME \/ Send \/ Close \/ RemoveSpool \/ UNCHANGED vars
             \/ \E id \in 1..sequence : LiveResult(id)
             \/ \E t \in Target : ForeignFile(t)
      PROVE  TruthInv'
  <2>1. UNCHANGED <<jobs, target, sequence, worker>>
    BY <1>5 DEF Send, Close, RemoveSpool, LiveResult, ForeignFile, vars
  <2>2. files' = files \/ \E t : link(t, Foreign)
    BY <1>5 DEF Send, Close, RemoveSpool, LiveResult, ForeignFile, vars
  <2> QED BY <2>1, <2>2, OthersKeepTruth
<1> QED BY <1>1, <1>2, <1>3, <1>4, <1>5 DEF Next, WorkerStep

\* A completed job has published the file its status names, made by the encoder its status
\* names; a failed one has published none (export.go:235-290, 374-387).
THEOREM StatusIsTrue == Spec => []StatusTellsTheTruth
<1>1. TruthInv => StatusTellsTheTruth
  BY DEF TruthInv
<1>2. Init => EncoderInv
  BY DEF Init, EncoderInv, ActiveJobs
<1> QED BY <1>1, <1>2, InitLine, NextLine, NextEncoder, InitTruth, NextTruth, TypeInvHolds, PTL
        DEF Spec

----------------------------------------------------------------------------
\* Names and numbers.

NameInv ==
    /\ activeNames = {Fold[target[id]] : id \in ActiveJobs}
    /\ \A i, j \in ActiveJobs : Fold[target[i]] = Fold[target[j]] => i = j

NumberInv ==
    /\ IsFiniteSet(ActiveJobs) /\ IsFiniteSet(activeNames) /\ IsFiniteSet(DOMAIN jobs)
    /\ Cardinality(ActiveJobs) = pending /\ Cardinality(activeNames) = pending
    /\ Cardinality(DOMAIN jobs) <= MaxKept

LEMMA InitBook == Init => NameInv /\ NumberInv
<1> SUFFICES ASSUME Init PROVE NameInv /\ NumberInv
  OBVIOUS
<1>1. /\ activeNames = {} /\ pending = 0 /\ DOMAIN jobs = {} /\ MaxKept \in Nat
  BY DEF Init
<1>2. ActiveJobs = {}
  BY <1>1 DEF ActiveJobs
<1>3. IsFiniteSet({}) /\ Cardinality({}) = 0
  BY FS_EmptySet
<1>4. NameInv
  BY <1>1, <1>2 DEF NameInv
<1>5. NumberInv
  BY <1>1, <1>2, <1>3 DEF NumberInv
<1> QED BY <1>4, <1>5

\* What an accepted job adds: a name that none of the others has, and itself.
LEMMA EnqueueBooks ==
  ASSUME TypeInv, LineInv, NameInv, NumberInv, NEW b \in Base, NEW size \in QueueSize,
         NEW encoding \in {"none", "pending"}, Enqueue(b, size, encoding)
  PROVE  NameInv' /\ NumberInv'
<1> DEFINE id == sequence + 1
<1>1. /\ pending' = pending + 1 /\ pending < size /\ size \in Nat /\ size <= MaxKept
      /\ pending \in Nat /\ MaxKept \in Nat
  BY DEF Enqueue, queueHasRoom, TypeInv, TypeOK
<1>2. ActiveJobs' = ActiveJobs \cup {id}
  BY ActiveGrows
<1>3. PICK t \in Target : /\ available(t) /\ target' = With(target, id, t)
                          /\ activeNames' = activeNames \cup {Fold[t]}
  BY EnqueueFacts
<1>4. Fold[t] \notin activeNames
  BY <1>3 DEF available
<1>5. /\ id \notin ActiveJobs /\ id \notin DOMAIN jobs
      /\ ActiveJobs \subseteq DOMAIN jobs /\ ActiveJobs \subseteq 1..sequence
      /\ sequence \in Nat /\ DOMAIN target = 1..sequence
  BY DEF TypeInv, TypeOK, ActiveJobs
<1>6. /\ \A x \in ActiveJobs : target'[x] = target[x]
      /\ target'[id] = t
  <2>1. \A x \in ActiveJobs : x \in DOMAIN target /\ x # id
    BY <1>5
  <2> QED BY <1>3, <2>1 DEF With
<1>7. /\ \/ /\ DOMAIN jobs' = DOMAIN jobs \cup {id}
            /\ \/ Cardinality(DOMAIN jobs') <= MaxKept
               \/ \A x \in DOMAIN jobs : Unfinished(x)
         \/ \E x \in DOMAIN jobs : DOMAIN jobs' = (DOMAIN jobs \cup {id}) \ {x}
  BY EnqueueFacts
<1> HIDE DEF id
<1>8. NameInv'
  <2>1. activeNames' = {Fold[target'[x]] : x \in ActiveJobs'}
    <3>1. \A x \in ActiveJobs : Fold[target'[x]] \in activeNames
      BY <1>6 DEF NameInv
    <3>2. \A n \in activeNames : \E x \in ActiveJobs : n = Fold[target'[x]]
      BY <1>6 DEF NameInv
    <3> QED BY <1>2, <1>3, <1>6, <3>1, <3>2
  <2>2. ASSUME NEW i \in ActiveJobs', NEW j \in ActiveJobs', Fold[target'[i]] = Fold[target'[j]]
        PROVE  i = j
    <3>1. \A x \in ActiveJobs : Fold[target[x]] \in activeNames
      BY DEF NameInv
    <3>2. \A x, y \in ActiveJobs : Fold[target[x]] = Fold[target[y]] => x = y
      BY DEF NameInv
    <3> QED BY <1>2, <1>4, <1>6, <2>2, <3>1, <3>2
  <2> QED BY <2>1, <2>2 DEF NameInv
<1>9. /\ IsFiniteSet(ActiveJobs') /\ Cardinality(ActiveJobs') = pending'
  <2>1. /\ IsFiniteSet(ActiveJobs \cup {id})
        /\ Cardinality(ActiveJobs \cup {id}) = Cardinality(ActiveJobs) + 1
    BY <1>5, FS_AddElement DEF NumberInv
  <2> QED BY <1>1, <1>2, <2>1 DEF NumberInv
<1>10. /\ IsFiniteSet(activeNames') /\ Cardinality(activeNames') = pending'
  <2>1. /\ IsFiniteSet(activeNames \cup {Fold[t]})
        /\ Cardinality(activeNames \cup {Fold[t]}) = Cardinality(activeNames) + 1
    BY <1>4, FS_AddElement DEF NumberInv
  <2> QED BY <1>1, <1>3, <2>1 DEF NumberInv
<1>11. /\ IsFiniteSet(DOMAIN jobs \cup {id}) /\ Cardinality(DOMAIN jobs) \in Nat
       /\ Cardinality(DOMAIN jobs \cup {id}) = Cardinality(DOMAIN jobs) + 1
       /\ Cardinality(DOMAIN jobs) <= MaxKept
  BY <1>5, FS_AddElement, FS_CardinalityType DEF NumberInv
<1>12. IsFiniteSet(DOMAIN jobs') /\ Cardinality(DOMAIN jobs') <= MaxKept
  <2>1. CASE DOMAIN jobs' = DOMAIN jobs \cup {id} /\ Cardinality(DOMAIN jobs') <= MaxKept
    BY <1>11, <2>1
  <2>2. CASE DOMAIN jobs' = DOMAIN jobs \cup {id} /\ \A x \in DOMAIN jobs : Unfinished(x)
    <3>1. DOMAIN jobs = ActiveJobs
      BY <2>2 DEF ActiveJobs, TypeInv, TypeOK
    <3>2. Cardinality(DOMAIN jobs) = pending
      BY <3>1 DEF NumberInv
    <3> QED BY <1>1, <1>11, <2>2, <3>2
  <2>3. CASE \E x \in DOMAIN jobs : DOMAIN jobs' = (DOMAIN jobs \cup {id}) \ {x}
    <3>1. PICK x \in DOMAIN jobs : DOMAIN jobs' = (DOMAIN jobs \cup {id}) \ {x}
      BY <2>3
    <3>2. /\ IsFiniteSet((DOMAIN jobs \cup {id}) \ {x})
          /\ Cardinality((DOMAIN jobs \cup {id}) \ {x}) = Cardinality(DOMAIN jobs \cup {id}) - 1
      BY <1>11, <3>1, FS_RemoveElement
    <3> QED BY <1>11, <3>1, <3>2
  <2> QED BY <1>7, <2>1, <2>2, <2>3
<1> QED BY <1>8, <1>9, <1>10, <1>12 DEF NumberInv

\* What a job that ends takes away.
LEMMA FinishBooks ==
  ASSUME TypeInv, LineInv, CountInv, NameInv, NumberInv, finish
  PROVE  NameInv' /\ NumberInv'
<1>1. /\ worker.at \in JobState /\ worker.at # "idle"
      /\ jobs' = [jobs EXCEPT ![job].state = worker.at]
      /\ activeNames' = activeNames \ {Fold[target[job]]}
      /\ pending' = IF pending > 0 THEN pending - 1 ELSE 0
      /\ target' = target
  BY DEF finish, JobState
<1>2. ActiveJobs' = ActiveJobs \ {job} /\ job \in ActiveJobs
  BY <1>1, ActiveShrinks, WorkersJob
<1>3. pending > 0 /\ pending \in Nat
  <2>1. pending \in Nat /\ Len(queue) \in Nat
    BY DEF TypeInv, TypeOK
  <2> QED BY <1>1, <2>1 DEF CountInv
<1>4. Fold[target[job]] \in activeNames
  BY <1>2 DEF NameInv
<1>5. DOMAIN jobs' = DOMAIN jobs
  BY <1>1
<1>6. NameInv'
  <2>1. \A x \in ActiveJobs : x # job => Fold[target[x]] # Fold[target[job]]
    BY <1>2 DEF NameInv
  <2>2. activeNames' = {Fold[target[x]] : x \in ActiveJobs \ {job}}
    BY <1>1, <1>2, <2>1 DEF NameInv
  <2> QED BY <1>1, <1>2, <2>2 DEF NameInv
<1>7. /\ IsFiniteSet(ActiveJobs \ {job})
      /\ Cardinality(ActiveJobs \ {job}) = Cardinality(ActiveJobs) - 1
  BY <1>2, FS_RemoveElement DEF NumberInv
<1>8. /\ IsFiniteSet(activeNames \ {Fold[target[job]]})
      /\ Cardinality(activeNames \ {Fold[target[job]]}) = Cardinality(activeNames) - 1
  BY <1>4, FS_RemoveElement DEF NumberInv
<1>9. pending' = pending - 1
  BY <1>1, <1>3
<1> QED BY <1>1, <1>2, <1>5, <1>6, <1>7, <1>8, <1>9 DEF NumberInv

LEMMA NextBook ==
  TypeInv /\ LineInv /\ CountInv /\ NameInv /\ NumberInv /\ [Next]_vars => NameInv' /\ NumberInv'
<1> SUFFICES ASSUME TypeInv, LineInv, CountInv, NameInv, NumberInv, [Next]_vars
             PROVE  NameInv' /\ NumberInv'
  OBVIOUS
<1>1. ASSUME \/ setRunning \/ Fallback \/ AwaitLive \/ LinkLive \/ Encode \/ Link \/ Cleanup
             \/ Receive \/ Send \/ Close \/ RemoveSpool \/ UNCHANGED vars
             \/ \E id \in 1..sequence : LiveResult(id)
             \/ \E t \in Target : ForeignFile(t)
      PROVE  NameInv' /\ NumberInv'
  <2>1. UNCHANGED <<sequence, target, activeNames, pending>>
    BY <1>1 DEF setRunning, Fallback, AwaitLive, LinkLive, Encode, Link, Cleanup, Receive, Send,
                Close, RemoveSpool, LiveResult, ForeignFile, vars
  <2>2. \/ jobs' = jobs
        \/ job \in ActiveJobs /\ jobs' = [jobs EXCEPT ![job].state = "running"]
        \/ jobs' = [jobs EXCEPT ![job].live = FALSE]
    <3>1. setRunning => job \in ActiveJobs /\ jobs' = [jobs EXCEPT ![job].state = "running"]
      BY WorkersJob DEF setRunning
    <3> QED BY <1>1, <3>1 DEF Fallback, AwaitLive, LinkLive, Encode, Link, Cleanup, Receive,
                              Send, Close, RemoveSpool, LiveResult, ForeignFile, vars
  <2>3. ActiveJobs' = ActiveJobs
    BY <2>1, <2>2, ActiveStays
  <2>4. DOMAIN jobs' = DOMAIN jobs
    BY <2>2
  <2>5. NameInv'
    BY <2>1, <2>3 DEF NameInv
  <2>6. NumberInv'
    BY <2>1, <2>3, <2>4 DEF NumberInv
  <2> QED BY <2>5, <2>6
<1> QED BY <1>1, EnqueueBooks, FinishBooks DEF Next, WorkerStep

\* The books of the exporter are right at every moment: reserved names, counter and known
\* jobs (export.go:115-160, 374-406).
THEOREM BooksAreRight == Spec => []JobsAreBooked
<1>1. TypeInv /\ LineInv /\ NameInv /\ NumberInv => JobsAreBooked
  <2> SUFFICES ASSUME TypeInv, LineInv, NameInv, NumberInv PROVE JobsAreBooked
    OBVIOUS
  <2>1. /\ queue \in Seq(1..sequence) /\ worker.job \in 0..sequence /\ sequence \in Nat
    BY DEF TypeInv, TypeOK
  <2>2. DOMAIN queue = 1..Len(queue) /\ \A k \in 1..Len(queue) : queue[k] \in 1..sequence
    BY <2>1
  <2>3. {queue[k] : k \in DOMAIN queue} \cup ({worker.job} \ {0}) \subseteq ActiveJobs
    <3>1. \A k \in 1..Len(queue) : queue[k] \in ActiveJobs
      BY <2>2 DEF LineInv, Queued
    <3>2. worker.job # 0 => worker.job \in ActiveJobs
      BY <2>1 DEF LineInv
    <3> QED BY <2>2, <3>1, <3>2
  <2> QED BY <2>3 DEF JobsAreBooked, NameInv, NumberInv
<1> QED BY <1>1, InitLine, NextLine, InitCount, NextCount, InitBook, NextBook, TypeInvHolds, PTL
        DEF Spec
=============================================================================
