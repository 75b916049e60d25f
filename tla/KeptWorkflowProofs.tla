------------------------- MODULE KeptWorkflowProofs -------------------------
(***************************************************************************)
(* Proofs about KeptWorkflow and the Preparation it drives, checked by     *)
(* TLAPS.  The workflow leaves Preparation to its own steps                *)
(* (WorkflowPrepares), so what is inductive of Preparation by itself       *)
(* (PrepInv) holds in the workflow too; the workflow's own invariant       *)
(* (FlowInv) relates the two to the Import, and is enough to follow        *)
(* KeptPromise step by step.                                               *)
(***************************************************************************)
EXTENDS KeptWorkflow, TLAPS

-----------------------------------------------------------------------------
(***************************************************************************)
(* What a task is, and what becomes of it                                  *)
(***************************************************************************)
\* Its results are those of the items it is through with, in the order of the queue.
InOrder(t) ==
    /\ Len(t.results) = t.index /\ t.index <= Len(t.services)
    /\ \A i \in 1..t.index : t.results[i].service = t.services[i]
    /\ t.phase = "running" => More(t)
    /\ t.phase = "completed" => ~More(t)

\* It owns the browser while it runs, and afterwards as long as it has a page out.
InHand(t) ==
    /\ t.phase = "running" => t.holds /\ ~t.revoke /\ t.grace = None
    /\ t.phase # "running" => t.holds = t.claimed

Sound(t) == t \in Task /\ InOrder(t) /\ InHand(t)

\* u is the same task as t, later: what was recorded stands, and an end is final.
Grows(t, u) ==
    /\ u.generation = t.generation /\ u.services = t.services
    /\ u.instance = t.instance /\ u.manual = t.manual
    /\ t.index <= u.index
    /\ \A i \in 1..t.index : u.results[i] = t.results[i]
    /\ t.phase # "running" => u.results = t.results /\ u.phase = t.phase
    /\ u.holds => t.holds

\* ... which got no command and no visit in between, and so nothing "Opened" without one.
Unaided(t, u) ==
    /\ u.phase = "running" =>
          IF u.index = t.index
          THEN u.claimed = t.claimed /\ u.command = t.command /\ u.visit = t.visit
          ELSE ~u.claimed /\ u.visit = None
    /\ \A i \in 1..u.index :
          i > t.index /\ u.results[i].outcome = "Opened" =>
              t.phase = "running" /\ i = t.index + 1 /\ t.visit # None

Later(t, u) == Grows(t, u) /\ Unaided(t, u)

\* A step that changes nothing of it.
LEMMA LaterIsReflexive ==
    ASSUME NEW t, Sound(t)
    PROVE  Later(t, t)
<1>1. t.index \in Nat
  BY DEF Sound, Task
<1>2. QED
  BY <1>1 DEF Later, Grows, Unaided

LEMMA LaterIsTransitive ==
    ASSUME NEW t, NEW u, NEW v, Sound(t), Sound(u), Sound(v), Later(t, u), Later(u, v)
    PROVE  Later(t, v)
<1>0. /\ t.index \in Nat /\ u.index \in Nat /\ v.index \in Nat
  BY DEF Sound, Task
<1>1. Grows(t, v)
  BY <1>0 DEF Later, Grows
<1>2. Unaided(t, v)
  <2>1. v.phase = "running" => u.phase = "running" /\ t.phase = "running"
    BY DEF Later, Grows
  <2>2. v.phase = "running" =>
          IF v.index = t.index
          THEN v.claimed = t.claimed /\ v.command = t.command /\ v.visit = t.visit
          ELSE ~v.claimed /\ v.visit = None
    BY <1>0, <2>1 DEF Later, Grows, Unaided
  <2>3. ASSUME NEW i \in 1..v.index, i > t.index, v.results[i].outcome = "Opened"
        PROVE  t.phase = "running" /\ i = t.index + 1 /\ t.visit # None
    <3>1. CASE i <= u.index
      BY <1>0, <2>3, <3>1 DEF Later, Grows, Unaided
    <3>2. CASE i > u.index
      <4>1. u.phase = "running" /\ i = u.index + 1 /\ u.visit # None
        BY <1>0, <2>3, <3>2 DEF Later, Unaided
      <4>2. t.phase = "running" /\ u.index = t.index /\ u.visit = t.visit
        BY <1>0, <4>1 DEF Later, Grows, Unaided
      <4>3. QED
        BY <4>1, <4>2
    <3>3. QED
      BY <1>0, <3>1, <3>2
  <2>4. QED
    BY <2>2, <2>3 DEF Unaided
<1>3. QED
  BY <1>1, <1>2 DEF Later

LEMMA JudgedEffect ==
    ASSUME NEW t, Sound(t), More(t), NEW outcome \in Outcome, NEW cause \in Cause
    PROVE  LET results == Judged(t, outcome, cause)
           IN /\ results \in Seq(Result) /\ Len(results) = t.index + 1
              /\ \A i \in 1..t.index : results[i] = t.results[i]
              /\ results[t.index + 1].outcome = outcome
              /\ results[t.index + 1].service = t.services[t.index + 1]
<1>1. /\ t.results \in Seq(Result) /\ t.index \in Nat /\ t.services \in Seq(Service)
      /\ Len(t.results) = t.index
  BY QueueAssumption DEF Sound, InOrder, Task
<1>2. t.index + 1 \in 1..Len(t.services)
  BY <1>1 DEF More
<1>3. Current(t) \in Service
  BY <1>1, <1>2 DEF Current
<1>4. [service |-> Current(t), outcome |-> outcome, cause |-> cause] \in Result
  BY <1>3 DEF Result
<1>5. QED
  BY <1>1, <1>4 DEF Judged, Current

\* Whatever else is done with t, one more item of it is judged.
LEMMA JudgedOnce ==
    ASSUME NEW t, Sound(t), t.phase = "running", NEW u \in Task,
           NEW outcome \in Outcome, NEW cause \in Cause,
           u.results = Judged(t, outcome, cause), u.index = t.index + 1,
           u.generation = t.generation, u.services = t.services,
           u.instance = t.instance, u.manual = t.manual, InHand(u),
           u.phase = "running" => More(u) /\ ~u.claimed /\ u.visit = None,
           u.phase = "completed" => ~More(u),
           outcome = "Opened" => t.visit # None
    PROVE  Sound(u) /\ Later(t, u)
<1>1. /\ t \in Task /\ More(t) /\ InOrder(t) /\ t.holds = TRUE
      /\ t.index \in Nat /\ Len(t.services) \in Nat
  BY QueueAssumption DEF Sound, InOrder, InHand, Task
<1>2. /\ Len(u.results) = t.index + 1
      /\ \A i \in 1..t.index : u.results[i] = t.results[i]
      /\ u.results[t.index + 1].outcome = outcome
      /\ u.results[t.index + 1].service = t.services[t.index + 1]
  BY <1>1, JudgedEffect
<1>3. \A i \in 1..u.index : i \in 1..t.index \/ i = t.index + 1
  BY <1>1
<1>4. InOrder(u)
  <2>1. \A i \in 1..u.index : u.results[i].service = u.services[i]
    BY <1>1, <1>2, <1>3 DEF InOrder
  <2>2. u.index <= Len(u.services)
    BY <1>1 DEF More
  <2>3. QED
    BY <1>2, <2>1, <2>2 DEF InOrder
<1>5. Grows(t, u)
  BY <1>1, <1>2 DEF Grows
<1>6. Unaided(t, u)
  <2>1. u.index # t.index /\ \A i \in 1..t.index : ~(i > t.index)
    BY <1>1
  <2>2. \A i \in 1..u.index :
          i > t.index /\ u.results[i].outcome = "Opened" =>
              t.phase = "running" /\ i = t.index + 1 /\ t.visit # None
    BY <1>2, <1>3, <2>1
  <2>3. QED
    BY <2>1, <2>2 DEF Unaided
<1>7. QED
  BY <1>4, <1>5, <1>6 DEF Sound, Later

\* What a judgement needs of a running task.
LEMMA Judgeable ==
    ASSUME NEW t, Sound(t), t.phase = "running"
    PROVE  /\ t \in Task /\ More(t) /\ InHand(t) /\ t.index + 1 \in Nat
           /\ t.claimed \in BOOLEAN /\ t.holds = TRUE
           /\ (IF t.claimed THEN Grace ELSE None) \in 0..Grace \cup {None}
           /\ \A outcome \in Outcome, cause \in Cause : Judged(t, outcome, cause) \in Seq(Result)
<1>1. t \in Task /\ More(t) /\ InHand(t) /\ t.holds = TRUE
  BY DEF Sound, InOrder, InHand, Task
<1>2. \A outcome \in Outcome, cause \in Cause : Judged(t, outcome, cause) \in Seq(Result)
  BY <1>1, JudgedEffect, Zenon
<1>3. QED
  BY <1>1, <1>2, TimeAssumption DEF Task

LEMMA StoppedEffect ==
    ASSUME NEW t, Sound(t), t.phase = "running"
    PROVE  Sound(Stopped(t)) /\ Later(t, Stopped(t))
<1> DEFINE u == Stopped(t)
           results == Judged(t, "Needs attention", "disconnected")
<1> HIDE DEF results
<1>1. /\ t \in Task /\ More(t) /\ t.index + 1 \in Nat /\ t.claimed \in BOOLEAN
      /\ (IF t.claimed THEN Grace ELSE None) \in 0..Grace \cup {None}
      /\ results \in Seq(Result) /\ "blocked" \in Phase
  BY Judgeable DEF results, Outcome, Cause, Phase
<1>2. u = [t EXCEPT !.revoke = TRUE, !.phase = "blocked", !.results = results,
                    !.index = t.index + 1, !.grace = IF t.claimed THEN Grace ELSE None,
                    !.holds = t.claimed]
  BY <1>1, Zenon DEF Stopped, results
<1> HIDE DEF u
<1>3. u \in Task
  BY <1>1, <1>2 DEF Task
<1>4. /\ u.generation = t.generation /\ u.services = t.services /\ u.instance = t.instance
      /\ u.manual = t.manual /\ u.phase = "blocked" /\ u.results = results
      /\ u.index = t.index + 1 /\ u.holds = t.claimed /\ u.claimed = t.claimed
  BY <1>1, <1>2 DEF Task
<1>5. InHand(u)
  BY <1>4 DEF InHand
<1>6. "Needs attention" \in Outcome /\ "disconnected" \in Cause /\ "Needs attention" # "Opened"
      /\ u.phase # "running" /\ u.phase # "completed"
  BY <1>4 DEF Outcome, Cause
<1>7. Sound(u) /\ Later(t, u)
  BY <1>3, <1>4, <1>5, <1>6, JudgedOnce, Zenon DEF results
<1>8. QED
  BY <1>7 DEF u

LEMMA CanceledEffect ==
    ASSUME NEW t, Sound(t), t.phase = "running"
    PROVE  Sound(Canceled(t)) /\ Later(t, Canceled(t)) /\ Canceled(t).phase = "stopped"
<1> DEFINE u == Canceled(t)
           results == Judged(t, "Needs attention", "canceled")
<1> HIDE DEF results
<1>1. /\ t \in Task /\ More(t) /\ t.index + 1 \in Nat /\ t.claimed \in BOOLEAN
      /\ Grace \in 0..Grace \cup {None} /\ results \in Seq(Result) /\ "stopped" \in Phase
  <2>1. "Needs attention" \in Outcome /\ "canceled" \in Cause /\ "stopped" \in Phase
    BY DEF Outcome, Cause, Phase
  <2>2. Grace \in 0..Grace
    BY TimeAssumption
  <2>3. QED
    BY Judgeable, <2>1, <2>2 DEF results
<1>2. CASE t.claimed
  <2>1. u = [t EXCEPT !.revoke = TRUE, !.phase = "stopped", !.results = results,
                      !.index = t.index + 1, !.grace = Grace, !.holds = t.claimed]
    BY <1>1, <1>2, Zenon DEF Canceled, results
  <2> HIDE DEF u
  <2>2. u \in Task
    BY <1>1, <2>1 DEF Task
  <2>3. /\ u.generation = t.generation /\ u.services = t.services /\ u.instance = t.instance
        /\ u.manual = t.manual /\ u.phase = "stopped" /\ u.results = results
        /\ u.index = t.index + 1 /\ u.holds = t.claimed /\ u.claimed = t.claimed
    BY <1>1, <2>1 DEF Task
  <2>4. InHand(u)
    BY <2>3 DEF InHand
  <2>5. "Needs attention" \in Outcome /\ "canceled" \in Cause /\ "Needs attention" # "Opened"
        /\ u.phase # "running" /\ u.phase # "completed"
    BY <2>3 DEF Outcome, Cause
  <2>6. Sound(u) /\ Later(t, u)
    BY <2>2, <2>3, <2>4, <2>5, JudgedOnce, Zenon DEF results
  <2>7. QED
    BY <2>3, <2>6 DEF u
<1>3. CASE ~t.claimed
  <2>1. u = [t EXCEPT !.revoke = TRUE, !.phase = "stopped", !.holds = t.claimed]
    BY <1>1, <1>3 DEF Canceled, Task
  <2> HIDE DEF u
  <2>2. u \in Task
    BY <1>1, <2>1 DEF Task
  <2>3. /\ u.generation = t.generation /\ u.services = t.services /\ u.instance = t.instance
        /\ u.manual = t.manual /\ u.phase = "stopped" /\ u.results = t.results
        /\ u.index = t.index /\ u.holds = t.claimed /\ u.claimed = t.claimed
    BY <1>1, <2>1 DEF Task
  <2>4. t.index \in Nat /\ t.holds = TRUE
    BY <1>1, Judgeable DEF Task
  <2>5. Sound(u)
    BY <2>2, <2>3 DEF Sound, InOrder, InHand, More
  <2>6. Later(t, u)
    BY <2>3, <2>4 DEF Later, Grows, Unaided
  <2>7. QED
    BY <2>3, <2>5, <2>6 DEF u
<1>4. QED
  BY <1>2, <1>3

LEMMA NextItemEffect ==
    ASSUME NEW t, Sound(t), t.phase = "running", NEW outcome \in Outcome, NEW cause \in Cause
    PROVE  LET u == NextItem(t, outcome, cause)
           IN /\ u \in Task /\ u.results = Judged(t, outcome, cause) /\ u.index = t.index + 1
              /\ u.generation = t.generation /\ u.services = t.services
              /\ u.instance = t.instance /\ u.manual = t.manual
              /\ u.phase = "running" /\ ~u.claimed /\ u.visit = None
              /\ u.holds = TRUE /\ u.revoke = FALSE /\ u.grace = None
<1> DEFINE u == NextItem(t, outcome, cause)
           results == Judged(t, outcome, cause)
<1> HIDE DEF results
<1>1. /\ t \in Task /\ t.index + 1 \in Nat /\ results \in Seq(Result)
      /\ t.holds = TRUE /\ t.revoke = FALSE /\ t.grace = None
  <2>1. t \in Task /\ InHand(t) /\ results \in Seq(Result) /\ t.index + 1 \in Nat /\ t.holds = TRUE
    BY Judgeable, Zenon DEF results
  <2>2. QED
    BY <2>1 DEF InHand, Task
<1>2. u = [t EXCEPT !.results = results, !.index = t.index + 1, !.command = FALSE,
                    !.claimed = FALSE, !.visit = None, !.waiting = FALSE, !.age = 0]
  BY <1>1, Zenon DEF NextItem, results
<1> HIDE DEF u
<1>3. 0 \in WaitTime
  BY TimeAssumption DEF WaitTime
<1>4. u \in Task
  BY <1>1, <1>2, <1>3 DEF Task
<1>5. /\ u.results = results /\ u.index = t.index + 1
      /\ u.generation = t.generation /\ u.services = t.services
      /\ u.instance = t.instance /\ u.manual = t.manual
      /\ u.phase = "running" /\ ~u.claimed /\ u.visit = None
      /\ u.holds = TRUE /\ u.revoke = FALSE /\ u.grace = None
  BY <1>1, <1>2 DEF Task
<1>6. QED
  BY <1>4, <1>5 DEF u, results

LEMMA AdvancedEffect ==
    ASSUME NEW t, Sound(t), t.phase = "running", NEW outcome \in Outcome, NEW cause \in Cause,
           outcome = "Opened" => t.visit # None
    PROVE  Sound(Advanced(t, outcome, cause)) /\ Later(t, Advanced(t, outcome, cause))
<1> DEFINE next == NextItem(t, outcome, cause)
           u == Advanced(t, outcome, cause)
<1>1. /\ next \in Task /\ next.results = Judged(t, outcome, cause) /\ next.index = t.index + 1
      /\ next.generation = t.generation /\ next.services = t.services
      /\ next.instance = t.instance /\ next.manual = t.manual
      /\ next.phase = "running" /\ ~next.claimed /\ next.visit = None
      /\ next.holds = TRUE /\ next.revoke = FALSE /\ next.grace = None
  BY NextItemEffect, Zenon
<1>2. u = IF More(next) THEN next ELSE [next EXCEPT !.phase = "completed", !.holds = FALSE]
  BY DEF Advanced
<1> HIDE DEF next, u
<1>3. CASE More(next)
  <2>1. u = next /\ InHand(u)
    BY <1>1, <1>2, <1>3 DEF InHand
  <2>2. Sound(u) /\ Later(t, u)
    BY <1>1, <1>3, <2>1, JudgedOnce
  <2>3. QED
    BY <2>2 DEF u
<1>4. CASE ~More(next)
  <2>1. u = [next EXCEPT !.phase = "completed", !.holds = FALSE]
    BY <1>2, <1>4
  <2>2. u \in Task
    BY <1>1, <2>1 DEF Task, Phase
  <2>3. /\ u.generation = t.generation /\ u.services = t.services /\ u.instance = t.instance
        /\ u.manual = t.manual /\ u.phase = "completed" /\ u.results = Judged(t, outcome, cause)
        /\ u.index = t.index + 1 /\ u.holds = FALSE /\ u.claimed = FALSE
        /\ u.index = next.index /\ u.services = next.services
    BY <1>1, <2>1 DEF Task
  <2>4. InHand(u) /\ ~More(u) /\ u.phase # "running"
    BY <1>4, <2>3 DEF InHand, More
  <2>5. Sound(u) /\ Later(t, u)
    BY <2>2, <2>3, <2>4, JudgedOnce, Zenon
  <2>6. QED
    BY <2>5 DEF u
<1>5. QED
  BY <1>3, <1>4

LEMMA RevokedEffect ==
    ASSUME NEW t, Sound(t), t.phase = "running"
    PROVE  Sound(Revoked(t)) /\ Later(t, Revoked(t))
<1> DEFINE next == NextItem(t, "Needs attention", "timeout")
           u == Revoked(t)
<1>0. "Needs attention" \in Outcome /\ "timeout" \in Cause /\ "Needs attention" # "Opened"
  BY DEF Outcome, Cause
<1>1. /\ next \in Task /\ next.results = Judged(t, "Needs attention", "timeout")
      /\ next.index = t.index + 1
      /\ next.generation = t.generation /\ next.services = t.services
      /\ next.instance = t.instance /\ next.manual = t.manual /\ next.holds = TRUE
  BY <1>0, NextItemEffect, Zenon
<1>2. u = [next EXCEPT !.revoke = TRUE, !.phase = "blocked", !.claimed = TRUE, !.grace = Grace]
  BY DEF Revoked
<1> HIDE DEF next, u
<1>3. u \in Task
  <2>1. Grace \in 0..Grace /\ "blocked" \in Phase
    BY TimeAssumption DEF Phase
  <2>2. QED
    BY <1>1, <1>2, <2>1 DEF Task
<1>4. /\ u.generation = t.generation /\ u.services = t.services /\ u.instance = t.instance
      /\ u.manual = t.manual /\ u.phase = "blocked"
      /\ u.results = Judged(t, "Needs attention", "timeout")
      /\ u.index = t.index + 1 /\ u.holds = TRUE /\ u.claimed = TRUE
  BY <1>1, <1>2 DEF Task
<1>5. InHand(u) /\ u.phase # "running" /\ u.phase # "completed"
  BY <1>4 DEF InHand
<1>6. Sound(u) /\ Later(t, u)
  BY <1>0, <1>3, <1>4, <1>5, JudgedOnce, Zenon
<1>7. QED
  BY <1>6 DEF u

LEMMA OlderEffect ==
    ASSUME NEW t, Sound(t)
    PROVE  Sound(Older(t)) /\ Later(t, Older(t)) /\ Older(t).holds = t.holds
<1> DEFINE u == Older(t)
           age == IF t.age + 1 \in WaitTime THEN t.age + 1 ELSE t.age
           grace == IF t.grace = None \/ t.grace = 0 THEN t.grace ELSE t.grace - 1
<1>1. t \in Task /\ InOrder(t) /\ InHand(t) /\ t.index \in Nat
  BY DEF Sound, Task
<1>2. age \in WaitTime
  BY <1>1 DEF Task
<1>3. grace \in 0..Grace \cup {None} /\ (t.grace = None => grace = None)
  BY <1>1, TimeAssumption DEF Task
<1>4. u = [t EXCEPT !.age = age, !.grace = grace]
  BY <1>1 DEF Older, Task
<1> HIDE DEF u, age, grace
<1>5. u \in Task
  BY <1>1, <1>2, <1>3, <1>4 DEF Task
<1>6. /\ u.generation = t.generation /\ u.services = t.services /\ u.instance = t.instance
      /\ u.manual = t.manual /\ u.phase = t.phase /\ u.results = t.results /\ u.index = t.index
      /\ u.holds = t.holds /\ u.claimed = t.claimed /\ u.command = t.command
      /\ u.visit = t.visit /\ u.revoke = t.revoke /\ u.grace = grace
  BY <1>1, <1>4 DEF Task
<1>7. Sound(u)
  BY <1>1, <1>3, <1>5, <1>6 DEF Sound, InOrder, InHand, More
<1>8. Later(t, u)
  BY <1>1, <1>6 DEF Later, Grows, Unaided
<1>9. QED
  BY <1>6, <1>7, <1>8 DEF u

LEMMA LiveEffect ==
    ASSUME task # None, Sound(task)
    PROVE  Sound(Live) /\ Later(task, Live)
<1>1. CASE task.grace = 0
  <2> DEFINE u == [task EXCEPT !.holds = FALSE, !.claimed = FALSE, !.command = FALSE, !.grace = None]
  <2>1. u \in Task
    BY DEF Sound, Task
  <2>2. /\ u.generation = task.generation /\ u.services = task.services
        /\ u.instance = task.instance /\ u.manual = task.manual /\ u.phase = task.phase
        /\ u.results = task.results /\ u.index = task.index
        /\ u.holds = FALSE /\ u.claimed = FALSE
    BY DEF Sound, Task
  <2>3. Live = u /\ task.phase # "running" /\ task.index \in Nat
    BY <1>1, NoneAssumption DEF Live, Sound, InHand, Task
  <2> HIDE DEF u
  <2>4. Sound(u)
    BY <2>1, <2>2, <2>3 DEF Sound, InOrder, InHand, More
  <2>5. Later(task, u)
    BY <2>2, <2>3 DEF Later, Grows, Unaided
  <2>6. QED
    BY <2>3, <2>4, <2>5
<1>2. CASE task.grace # 0 /\ task.phase # "running"
  BY <1>2, LaterIsReflexive DEF Live
<1>3. CASE task.grace # 0 /\ task.phase = "running"
  <2>1. "Needs attention" \in Outcome /\ "timeout" \in Cause /\ "Needs attention" # "Opened"
    BY DEF Outcome, Cause
  <2>2. Live \in {task, Stopped(task), Revoked(task), Advanced(task, "Needs attention", "timeout")}
    BY <1>3, Zenon DEF Live
  <2>3. QED
    BY <1>3, <2>1, <2>2, LaterIsReflexive, StoppedEffect, RevokedEffect, AdvancedEffect
<1>4. QED
  BY <1>1, <1>2, <1>3

-----------------------------------------------------------------------------
(***************************************************************************)
(* Preparation                                                             *)
(***************************************************************************)
TaskInv == task # None => Sound(task) /\ task.generation <= generation

\* A generation has the browser exactly as long as its task has not given it back.
Owned == \A g \in Generation : browser = g <=> task # None /\ task.generation = g /\ task.holds

\* The item a task is at is claimed once a command for it is out, and no
\* command is of an item to come, or of a task to come.
CommandInv ==
    \A c \in issued :
        /\ c.generation <= generation
        /\ Running(task) /\ c.generation = task.generation =>
              c.index <= task.index /\ (c.index = task.index => task.claimed)

VisitInv == Running(task) /\ task.visit # None => <<task.generation, task.index>> \in visits

PrepInv == PrepTypeOK /\ TaskInv /\ Owned /\ CommandInv /\ VisitInv /\ OpenedWasVisited

\* What a step may do to the task: carry it on, give it a command or a visit,
\* put a fresh one in its place, or leave none.
Onward ==
    /\ IF task = None THEN task' = None ELSE Sound(task') /\ Later(task, task')
    /\ UNCHANGED <<last, generation, issued, visits>>

Commanded ==
    /\ Running(task) /\ Running(task') /\ Grows(task, task') /\ task'.claimed
    /\ \E v : Sound(v) /\ Later(task, v) /\ v.phase = "running" /\ ~v.claimed
             /\ task'.index = v.index /\ task'.visit = v.visit /\ task'.results = v.results
    /\ \E i \in Instance :
          issued' = issued \cup {[generation |-> task'.generation, index |-> task'.index, instance |-> i]}
    /\ UNCHANGED <<last, generation, visits>>

Admitted ==
    /\ Running(task) /\ Running(task') /\ Grows(task, task')
    /\ task'.index = task.index /\ task'.claimed = task.claimed /\ task'.command = task.command
    /\ visits' = visits \cup {<<task'.generation, task'.index>>}
    /\ UNCHANGED <<last, generation, issued>>

Begun ==
    /\ generation' = generation + 1 /\ task' # None /\ task'.generation = generation'
    /\ task'.phase = "running" /\ task'.index = 0 /\ task'.results = <<>>
    /\ task'.visit = None /\ ~task'.claimed
    /\ UNCHANGED <<issued, visits>>

Gone == task' = None /\ UNCHANGED <<generation, issued, visits>>

\* Whoever else has the browser keeps it.
OtherStays == browser = Other => browser' = Other

TaskStep == Onward \/ Commanded \/ Admitted \/ Begun \/ Gone

\* What makes a step good for the types and the browser, whatever it is.
PrepBase == PrepTypeOK /\ TaskInv /\ Owned

LEMMA Becoming ==
    ASSUME PrepBase, NEW u, IF task = None THEN u = None ELSE Sound(u) /\ Grows(task, u),
           Becomes(u), UNCHANGED generation
    PROVE  /\ task' = u /\ task' \in Task \cup {None} /\ TaskInv' /\ Owned'
           /\ browser' \in Generation \cup {Other, None} /\ OtherStays
<1>1. /\ task' = u /\ browser' = BrowserUnder(u)
      /\ browser \in Generation \cup {Other, None}
  BY DEF Becomes, PrepBase, PrepTypeOK
<1>2. CASE task = None
  BY <1>1, <1>2 DEF PrepBase, TaskInv, Owned, BrowserUnder, OtherStays
<1>3. CASE task # None
  <2>1. /\ Sound(task) /\ Sound(u) /\ task.generation <= generation
        /\ u.generation = task.generation /\ (u.holds => task.holds)
        /\ u \in Task /\ u # None /\ u.generation \in Generation
    BY <1>3, NoneAssumption DEF PrepBase, TaskInv, Sound, Grows, Task
  <2>2. None \notin Generation /\ Other \notin Generation
    BY NoneAssumption, TimeAssumption DEF Generation
  <2>3. browser' = IF ~u.holds /\ browser = u.generation THEN None ELSE browser
    BY <1>1, <2>1 DEF BrowserUnder
  <2>4. u.holds \in BOOLEAN /\ task.holds \in BOOLEAN
    BY <2>1 DEF Sound, Task
  <2>5. Owned'
    <3>1. \A g \in Generation : browser = g <=> task.generation = g /\ task.holds
      BY <1>3 DEF PrepBase, Owned
    <3>2. \A g \in Generation : browser' = g <=> u.generation = g /\ u.holds
      BY <2>1, <2>2, <2>3, <2>4, <3>1
    <3>3. QED
      BY <1>1, <2>1, <3>2 DEF Owned
  <2>6. QED
    BY <1>1, <2>1, <2>2, <2>3, <2>5 DEF TaskInv, OtherStays
<1>4. QED
  BY <1>2, <1>3

\* Most methods act on the task after the expiries that are due.
LEMMA LiveFollows ==
    ASSUME PrepBase
    PROVE  IF task = None THEN Live = None
           ELSE Live # None /\ Sound(Live) /\ Later(task, Live)
<1>1. CASE task = None
  BY <1>1 DEF Live
<1>2. CASE task # None
  BY <1>2, LiveEffect, NoneAssumption DEF PrepBase, TaskInv, Sound
<1>3. QED
  BY <1>1, <1>2

LEMMA SnapshotEffect ==
    ASSUME PrepBase, Snapshot
    PROVE  PrepBase' /\ Onward /\ OtherStays
<1>1. IF task = None THEN Live = None ELSE Sound(Live) /\ Later(task, Live)
  BY LiveFollows
<1>2. /\ task' = Live /\ task' \in Task \cup {None} /\ TaskInv' /\ Owned'
      /\ browser' \in Generation \cup {Other, None} /\ OtherStays
  BY <1>1, Becoming DEF Snapshot, Later
<1>3. QED
  BY <1>1, <1>2 DEF Snapshot, Onward, PrepBase, PrepTypeOK

LEMMA HeartbeatEffect ==
    ASSUME PrepBase, NEW i \in Instance, NEW compatible \in BOOLEAN, Heartbeat(i, compatible)
    PROVE  PrepBase' /\ Onward /\ OtherStays
<1>1. PICK u : /\ u = task \/ (Running(task) /\ u = Stopped(task))
               /\ Becomes(u)
  BY DEF Heartbeat
<1>2. IF task = None THEN u = None ELSE Sound(u) /\ Later(task, u)
  BY <1>1, StoppedEffect, LaterIsReflexive DEF Running, PrepBase, TaskInv
<1>3. /\ task' = u /\ task' \in Task \cup {None} /\ TaskInv' /\ Owned'
      /\ browser' \in Generation \cup {Other, None} /\ OtherStays
  BY <1>1, <1>2, Becoming DEF Heartbeat, Later
<1>4. instance' \in Instance \cup {None} /\ beat' \in 0..StaleAfter /\ capable' \in BOOLEAN
  BY TimeAssumption DEF Heartbeat
<1>5. QED
  BY <1>2, <1>3, <1>4 DEF Heartbeat, Onward, PrepBase, PrepTypeOK

LEMMA ClaimEffect ==
    ASSUME PrepBase, NEW i \in Instance, Claim(i)
    PROVE  PrepBase' /\ Commanded /\ OtherStays
<1> DEFINE u == [Live EXCEPT !.command = TRUE, !.claimed = TRUE, !.age = 0]
<1>1. /\ Live # None /\ Live.phase = "running" /\ ~Live.claimed /\ task # None
      /\ Sound(Live) /\ Later(task, Live) /\ Becomes(u)
  BY LiveFollows DEF Claim, Running
<1>2. 0 \in WaitTime
  BY TimeAssumption DEF WaitTime
<1>3. u \in Task
  BY <1>1, <1>2 DEF Sound, Task
<1>4. /\ u.generation = Live.generation /\ u.services = Live.services
      /\ u.instance = Live.instance /\ u.manual = Live.manual /\ u.phase = Live.phase
      /\ u.results = Live.results /\ u.index = Live.index /\ u.holds = Live.holds
      /\ u.claimed = TRUE /\ u.visit = Live.visit /\ u.revoke = Live.revoke /\ u.grace = Live.grace
  BY <1>1 DEF Sound, Task
<1> HIDE DEF u
<1>5. Sound(u)
  BY <1>1, <1>3, <1>4 DEF Sound, InOrder, InHand, More
<1>6. Grows(task, u) /\ Running(task) /\ Running(u)
  BY <1>1, <1>3, <1>4, NoneAssumption DEF Later, Grows, Running
<1>7. /\ task' = u /\ task' \in Task \cup {None} /\ TaskInv' /\ Owned'
      /\ browser' \in Generation \cup {Other, None} /\ OtherStays
  BY <1>1, <1>5, <1>6, Becoming DEF Claim
<1>8. issued' = issued \cup {[generation |-> u.generation, index |-> u.index, instance |-> i]}
  BY <1>4 DEF Claim
<1>9. issued' \subseteq Identity
  BY <1>3, <1>8 DEF PrepBase, PrepTypeOK, Identity, Task
<1>10. PrepBase'
  BY <1>7, <1>9 DEF Claim, PrepBase, PrepTypeOK
<1>11. Commanded
  BY <1>1, <1>4, <1>6, <1>7, <1>8 DEF Claim, Commanded
<1>12. QED
  BY <1>7, <1>10, <1>11

\* What a command that may still act says of the task it is of.
LEMMA ActingEffect ==
    ASSUME PrepBase, NEW c, MayAct(Live, c)
    PROVE  /\ task # None /\ Running(task) /\ Sound(Live) /\ Live.phase = "running" /\ Later(task, Live)
           /\ Live.claimed /\ Live.index = task.index /\ Live.visit = task.visit
           /\ task.claimed = Live.claimed /\ task.command = Live.command
           /\ c.generation = Live.generation /\ c.index = Live.index
<1>1. Live # None /\ Live.phase = "running" /\ Live.claimed
  BY DEF MayAct, Running
<1>2. task # None /\ Sound(Live) /\ Later(task, Live)
  BY <1>1, LiveFollows
<1>3. QED
  BY <1>1, <1>2 DEF MayAct, Running, Later, Grows, Unaided

LEMMA ReportEffect ==
    ASSUME PrepBase, NEW c, NEW waiting \in BOOLEAN, ReportWaiting(c, waiting)
    PROVE  PrepBase' /\ Onward /\ OtherStays
<1> DEFINE age == IF Live.waiting = waiting THEN Live.age ELSE 0
           u == [Live EXCEPT !.waiting = waiting, !.age = age, !.reports = Live.reports + 1]
<1>1. /\ Sound(Live) /\ Later(task, Live) /\ Live.phase = "running" /\ task # None
  BY ActingEffect DEF ReportWaiting
<1>2. age \in WaitTime /\ Live.reports + 1 \in 0..MaxReports
  BY <1>1, TimeAssumption DEF WaitTime, Sound, Task, ReportWaiting
<1> HIDE DEF age
<1>3. u \in Task
  BY <1>1, <1>2 DEF Sound, Task
<1>4. /\ u.generation = Live.generation /\ u.services = Live.services
      /\ u.instance = Live.instance /\ u.manual = Live.manual /\ u.phase = Live.phase
      /\ u.results = Live.results /\ u.index = Live.index /\ u.holds = Live.holds
      /\ u.claimed = Live.claimed /\ u.command = Live.command
      /\ u.visit = Live.visit /\ u.revoke = Live.revoke /\ u.grace = Live.grace
  BY <1>1 DEF Sound, Task
<1>5. Becomes(u)
  BY <1>1 DEF ReportWaiting, Sound, Task, age
<1> HIDE DEF u
<1>6. Sound(u)
  BY <1>1, <1>3, <1>4 DEF Sound, InOrder, InHand, More
<1>7. Later(task, u)
  BY <1>1, <1>4 DEF Later, Grows, Unaided
<1>8. /\ task' = u /\ task' \in Task \cup {None} /\ TaskInv' /\ Owned'
      /\ browser' \in Generation \cup {Other, None} /\ OtherStays
  BY <1>1, <1>5, <1>6, <1>7, Becoming DEF ReportWaiting, Later
<1>9. QED
  BY <1>1, <1>6, <1>7, <1>8 DEF ReportWaiting, Onward, PrepBase, PrepTypeOK

LEMMA VisitEffect ==
    ASSUME PrepBase, NEW c, NEW tab \in Tab, AuthorizeVisit(c, tab)
    PROVE  PrepBase' /\ Admitted /\ OtherStays
<1> DEFINE u == [Live EXCEPT !.visit = tab]
<1>1. /\ task # None /\ Running(task) /\ Sound(Live) /\ Live.phase = "running" /\ Later(task, Live)
      /\ Live.index = task.index /\ task.claimed = Live.claimed /\ task.command = Live.command
      /\ c.generation = Live.generation /\ c.index = Live.index /\ Becomes(u)
  BY ActingEffect DEF AuthorizeVisit
<1>2. u \in Task
  BY <1>1 DEF Sound, Task
<1>3. /\ u.generation = Live.generation /\ u.services = Live.services
      /\ u.instance = Live.instance /\ u.manual = Live.manual /\ u.phase = Live.phase
      /\ u.results = Live.results /\ u.index = Live.index /\ u.holds = Live.holds
      /\ u.claimed = Live.claimed /\ u.command = Live.command
      /\ u.revoke = Live.revoke /\ u.grace = Live.grace
  BY <1>1 DEF Sound, Task
<1> HIDE DEF u
<1>4. Sound(u)
  BY <1>1, <1>2, <1>3 DEF Sound, InOrder, InHand, More
<1>5. Grows(task, u) /\ Running(u)
  BY <1>1, <1>2, <1>3, NoneAssumption DEF Later, Grows, Running
<1>6. /\ task' = u /\ task' \in Task \cup {None} /\ TaskInv' /\ Owned'
      /\ browser' \in Generation \cup {Other, None} /\ OtherStays
  BY <1>1, <1>4, <1>5, Becoming DEF AuthorizeVisit
<1>7. visits' = visits \cup {<<u.generation, u.index>>}
  BY <1>1, <1>3 DEF AuthorizeVisit
<1>8. visits' \subseteq Generation \X Nat
  BY <1>2, <1>7 DEF PrepBase, PrepTypeOK, Task
<1>9. QED
  BY <1>1, <1>3, <1>5, <1>6, <1>7, <1>8 DEF AuthorizeVisit, Admitted, PrepBase, PrepTypeOK

LEMMA ResultEffect ==
    ASSUME PrepBase, NEW c, NEW outcome \in Outcome, NEW evidence, ResultArrives(c, outcome, evidence)
    PROVE  PrepBase' /\ Onward /\ OtherStays
<1> DEFINE u == Advanced(Live, outcome, "connector")
<1>1. task # None /\ Sound(Live) /\ Live.phase = "running" /\ Later(task, Live)
  BY ActingEffect DEF ResultArrives
<1>2. outcome = "Opened" => Live.visit # None
  BY DEF ResultArrives, Evident
<1>3. Sound(u) /\ Later(Live, u)
  BY <1>1, <1>2, AdvancedEffect DEF Cause
<1>4. Becomes(u)
  BY DEF ResultArrives
<1> HIDE DEF u
<1>5. Later(task, u)
  BY <1>1, <1>3, LaterIsTransitive DEF PrepBase, TaskInv
<1>6. /\ task' = u /\ task' \in Task \cup {None} /\ TaskInv' /\ Owned'
      /\ browser' \in Generation \cup {Other, None} /\ OtherStays
  BY <1>1, <1>3, <1>4, <1>5, Becoming DEF ResultArrives, Later
<1>7. QED
  BY <1>1, <1>3, <1>5, <1>6 DEF ResultArrives, Onward, PrepBase, PrepTypeOK

LEMMA CancelEffect ==
    ASSUME PrepBase, NEW g, Cancel(g)
    PROVE  PrepBase' /\ Onward /\ task' # None /\ task'.phase = "stopped"
<1> DEFINE u == Canceled(Live)
<1>1. task # None /\ Sound(Live) /\ Live.phase = "running" /\ Later(task, Live)
  BY LiveFollows DEF Cancel, Running
<1>2. Sound(u) /\ Later(Live, u) /\ u.phase = "stopped"
  BY <1>1, CanceledEffect
<1>3. Becomes(u)
  BY DEF Cancel
<1> HIDE DEF u
<1>4. Later(task, u)
  BY <1>1, <1>2, LaterIsTransitive DEF PrepBase, TaskInv
<1>5. /\ task' = u /\ task' \in Task \cup {None} /\ TaskInv' /\ Owned'
      /\ browser' \in Generation \cup {Other, None} /\ OtherStays
  BY <1>1, <1>2, <1>3, <1>4, Becoming DEF Cancel, Later
<1>6. QED
  BY <1>1, <1>2, <1>4, <1>5, NoneAssumption DEF Cancel, Onward, PrepBase, PrepTypeOK, Sound

LEMMA StartEffect ==
    ASSUME PrepBase, NEW queue \in Queue, NEW manual \in BOOLEAN, Start(queue, manual)
    PROVE  PrepBase' /\ Begun /\ browser' = generation' /\ ~task'.waiting
<1> DEFINE u == [generation |-> Fresh, services |-> queue, instance |-> instance,
                 manual |-> manual, phase |-> "running", index |-> 0, results |-> <<>>,
                 claimed |-> FALSE, command |-> FALSE, age |-> 0, waiting |-> FALSE,
                 revoke |-> FALSE, grace |-> None, visit |-> None, holds |-> TRUE, reports |-> 0]
<1>1. /\ task' = u /\ generation' = Fresh /\ browser' = Fresh /\ queue # <<>>
      /\ instance \in Instance /\ Fresh = generation + 1 /\ Fresh \in Generation
  BY TimeAssumption DEF Start, Fresh, Ready, Generation, PrepBase, PrepTypeOK
<1>2. 0 \in WaitTime /\ 0 \in 0..MaxReports
  BY TimeAssumption DEF WaitTime
<1>3. u \in Task
  BY <1>1, <1>2 DEF Task, Phase
<1>4. Len(queue) > 0 /\ Len(queue) \in Nat
  BY <1>1, QueueAssumption
<1>5. Sound(u)
  BY <1>3, <1>4 DEF Sound, InOrder, InHand, More
<1>6. Owned'
  BY <1>1, <1>3, NoneAssumption DEF Owned
<1>7. TaskInv' /\ generation' \in 0..MaxTasks /\ task' \in Task
  BY <1>1, <1>3, <1>5, TimeAssumption DEF TaskInv, Generation
<1>8. PrepBase'
  BY <1>1, <1>6, <1>7 DEF Start, PrepBase, PrepTypeOK
<1>9. task' # None
  BY <1>1, <1>3, NoneAssumption
<1>10. Begun /\ ~task'.waiting
  BY <1>1, <1>9 DEF Start, Begun
<1>11. QED
  BY <1>1, <1>8, <1>10

LEMMA StartWithoutEffect ==
    ASSUME PrepBase, NEW queue \in Queue, NEW manual \in BOOLEAN,
           NEW phase \in {"completed", "blocked"}, StartWithout(queue, manual, phase)
    PROVE  PrepBase' /\ Gone /\ browser' \in {browser, None}
<1>1. /\ task' = None /\ browser' = BrowserUnder(Live) /\ ~Busy(Live)
      /\ browser \in Generation \cup {Other, None}
  BY DEF StartWithout, PrepBase, PrepTypeOK
<1>2. None \notin Generation
  BY NoneAssumption, TimeAssumption DEF Generation
<1>3. browser' \notin Generation
  <2>1. CASE task = None
    BY <1>1, <1>2, <2>1 DEF BrowserUnder, Owned, PrepBase
  <2>2. CASE task # None
    <3>1. /\ Live # None /\ Sound(Live) /\ Later(task, Live) /\ Live.phase # "running" /\ ~Live.claimed
      BY <1>1, <2>2, LiveFollows DEF Busy, Running
    <3>2. ~Live.holds /\ Live.generation = task.generation
      BY <3>1 DEF Sound, InHand, Task, Later, Grows
    <3>3. browser \in Generation => browser = task.generation
      BY DEF Owned, PrepBase
    <3>4. QED
      BY <1>1, <1>2, <3>1, <3>2, <3>3 DEF BrowserUnder
  <2>3. QED
    BY <2>1, <2>2
<1>4. Owned' /\ browser' \in {browser, None}
  BY <1>1, <1>3 DEF Owned, BrowserUnder
<1>5. last' \in [phase : {"idle", "completed", "blocked"}, manual : BOOLEAN]
  BY DEF StartWithout
<1>6. QED
  BY <1>1, <1>4, <1>5 DEF StartWithout, Gone, PrepBase, PrepTypeOK, TaskInv

LEMMA TickEffect ==
    ASSUME PrepBase, Tick
    PROVE  PrepBase' /\ Onward
<1>1. CASE task = None
  BY <1>1, TimeAssumption DEF Tick, Onward, PrepBase, PrepTypeOK, TaskInv, Owned
<1>2. CASE task # None
  <2>1. task' = Older(task) /\ Sound(task) /\ task.generation <= generation
    BY <1>2 DEF Tick, PrepBase, TaskInv
  <2>2. Sound(task') /\ Later(task, task') /\ task'.holds = task.holds
    BY <2>1, OlderEffect
  <2>3. task' \in Task /\ task' # None /\ task'.generation = task.generation
    BY <2>2, NoneAssumption DEF Sound, Later, Grows
  <2>4. beat' \in 0..StaleAfter
    BY TimeAssumption DEF Tick, PrepBase, PrepTypeOK
  <2>5. TaskInv' /\ Owned'
    BY <1>2, <2>1, <2>2, <2>3 DEF Tick, PrepBase, TaskInv, Owned
  <2>6. QED
    BY <1>2, <2>2, <2>3, <2>4, <2>5 DEF Tick, Onward, PrepBase, PrepTypeOK
<1>3. QED
  BY <1>1, <1>2

LEMMA RestartEffect ==
    ASSUME PrepBase, Restart
    PROVE  PrepBase' /\ Gone
<1>1. None \notin Generation
  BY NoneAssumption, TimeAssumption DEF Generation
<1>2. Owned' /\ TaskInv'
  BY <1>1 DEF Restart, Owned, TaskInv
<1>3. /\ last' \in [phase : {"idle", "completed", "blocked"}, manual : BOOLEAN]
      /\ beat' \in 0..StaleAfter
  BY TimeAssumption DEF Restart
<1>4. QED
  BY <1>2, <1>3 DEF Restart, Gone, PrepBase, PrepTypeOK

\* The rest of the process takes the browser only when it is free.
LEMMA OtherEffect ==
    ASSUME PrepBase, OtherTakesBrowser \/ OtherFreesBrowser
    PROVE  PrepBase' /\ Onward
<1>1. None \notin Generation /\ Other \notin Generation
  BY NoneAssumption, TimeAssumption DEF Generation
<1>2. Owned' /\ TaskInv'
  BY <1>1 DEF OtherTakesBrowser, OtherFreesBrowser, PrepBase, Owned, TaskInv
<1>3. Onward
  BY LaterIsReflexive DEF OtherTakesBrowser, OtherFreesBrowser, PrepBase, TaskInv, Onward
<1>4. QED
  BY <1>2, <1>3 DEF OtherTakesBrowser, OtherFreesBrowser, PrepBase, PrepTypeOK

LEMMA StutterEffect ==
    ASSUME PrepBase, UNCHANGED prepVars
    PROVE  PrepBase' /\ Onward
<1>1. Onward
  BY LaterIsReflexive DEF prepVars, PrepBase, TaskInv, Onward
<1>2. QED
  BY <1>1 DEF prepVars, PrepBase, PrepTypeOK, TaskInv, Owned

LEMMA ConnectorEffect ==
    ASSUME PrepBase, ConnectorNext
    PROVE  PrepBase' /\ (Onward \/ Commanded \/ Admitted) /\ OtherStays
<1>1. CASE \E i \in Instance, compatible \in BOOLEAN : Heartbeat(i, compatible)
  BY <1>1, HeartbeatEffect
<1>2. CASE \E i \in Instance : Claim(i)
  BY <1>2, ClaimEffect
<1>3. ASSUME NEW c \in issued
      PROVE  /\ \A waiting \in BOOLEAN : ReportWaiting(c, waiting) => PrepBase' /\ Onward /\ OtherStays
             /\ \A tab \in Tab : AuthorizeVisit(c, tab) => PrepBase' /\ Admitted /\ OtherStays
             /\ \A outcome \in Outcome : \A evidence :
                   ResultArrives(c, outcome, evidence) => PrepBase' /\ Onward /\ OtherStays
  BY ReportEffect, VisitEffect, ResultEffect
<1>4. QED
  BY <1>1, <1>2, <1>3 DEF ConnectorNext

LEMMA PrepEffect ==
    ASSUME PrepBase, [PrepNext]_prepVars
    PROVE  PrepBase' /\ TaskStep
<1>1. CASE UNCHANGED prepVars
  BY <1>1, StutterEffect DEF TaskStep
<1>2. CASE Snapshot
  BY <1>2, SnapshotEffect DEF TaskStep
<1>3. CASE ConnectorNext
  BY <1>3, ConnectorEffect DEF TaskStep
<1>4. CASE UserNext
  BY <1>4, StartEffect, StartWithoutEffect, CancelEffect DEF UserNext, TaskStep
<1>5. CASE OtherTakesBrowser \/ OtherFreesBrowser
  BY <1>5, OtherEffect DEF TaskStep
<1>6. CASE Tick
  BY <1>6, TickEffect DEF TaskStep
<1>7. CASE Restart
  BY <1>7, RestartEffect DEF TaskStep
<1>8. QED
  BY <1>1, <1>2, <1>3, <1>4, <1>5, <1>6, <1>7 DEF PrepNext

\* No command is out for an item the task has yet to claim.
LEMMA CommandKept ==
    ASSUME PrepInv, PrepBase', TaskStep
    PROVE  CommandInv' /\ \A c \in issued : ~MayAct(task, c) => ~MayAct(task', c)
<1>0. /\ issued \subseteq Identity /\ generation \in Nat
      /\ \A c \in issued : c.generation \in Nat /\ c.index \in Nat
      /\ task # None => task.index \in Nat /\ task.generation \in Nat /\ InHand(task)
      /\ task' # None => task'.index \in Nat /\ task'.generation \in Nat
  BY TimeAssumption DEF PrepInv, PrepBase, PrepTypeOK, TaskInv, Sound, Task, Identity, Generation
<1>1. CASE Onward
  <2>1. CASE task = None
    BY <1>1, <2>1 DEF Onward, PrepInv, CommandInv, MayAct, Running
  <2>2. CASE task # None
    <3>1. Later(task, task') /\ issued' = issued /\ generation' = generation
      BY <1>1, <2>2 DEF Onward
    <3>2. Running(task') => Running(task)
      BY <2>2, <3>1 DEF Later, Grows, Running
    <3>3. CommandInv'
      BY <1>0, <2>2, <3>1, <3>2 DEF PrepInv, CommandInv, Later, Grows, Unaided, Running
    <3>4. \A c \in issued : MayAct(task', c) => MayAct(task, c)
      BY <1>0, <2>2, <3>1, <3>2 DEF Later, Grows, Unaided, Running, MayAct, InHand
    <3>5. QED
      BY <3>3, <3>4
  <2>3. QED
    BY <2>1, <2>2
<1>2. CASE Commanded
  <2>1. PICK v : /\ Sound(v) /\ Later(task, v) /\ v.phase = "running" /\ ~v.claimed
                 /\ task'.index = v.index
    BY <1>2 DEF Commanded
  <2>2. /\ task # None /\ task' # None /\ Running(task) /\ task'.claimed
        /\ task'.generation = task.generation /\ task'.index >= task.index
        /\ (task'.index = task.index => ~task.claimed)
    BY <1>2, <2>1 DEF Commanded, Running, Grows, Later, Unaided
  <2>3. PICK i \in Instance : issued' = issued \cup
               {[generation |-> task'.generation, index |-> task'.index, instance |-> i]}
    BY <1>2 DEF Commanded
  <2>4. \A c \in issued :
          /\ c.generation <= generation
          /\ c.generation = task'.generation => c.index < task'.index
    BY <1>0, <2>2 DEF PrepInv, CommandInv
  <2>5. task'.generation <= generation /\ generation' = generation
    BY <1>2, <2>2 DEF Commanded, PrepInv, TaskInv
  <2> DEFINE new == [generation |-> task'.generation, index |-> task'.index, instance |-> i]
  <2>6. CommandInv'
    <3>1. \A c \in issued' : c \in issued \/ c = new
      BY <2>3
    <3>2. new.generation = task'.generation /\ new.index = task'.index
      OBVIOUS
    <3> HIDE DEF new
    <3>3. ASSUME NEW c \in issued'
          PROVE  /\ c.generation <= generation'
                 /\ Running(task)' /\ c.generation = task'.generation =>
                      c.index <= task'.index /\ (c.index = task'.index => task'.claimed)
      <4>1. CASE c \in issued
        BY <1>0, <2>2, <2>4, <2>5, <4>1
      <4>2. CASE c = new
        BY <1>0, <2>2, <2>5, <3>2, <4>2
      <4>3. QED
        BY <3>1, <3>3, <4>1, <4>2
    <3>4. QED
      BY <3>3 DEF CommandInv
  <2>7. ASSUME NEW c \in issued, MayAct(task', c)
        PROVE  FALSE
    <3>1. c.generation = task'.generation /\ c.index = task'.index
      BY <2>7 DEF MayAct
    <3>2. QED
      BY <1>0, <2>2, <2>4, <2>7, <3>1
  <2>8. QED
    BY <2>6, <2>7
<1>3. CASE Admitted
  <2>1. /\ task # None /\ task' # None /\ Running(task) /\ Running(task')
        /\ task'.generation = task.generation /\ task'.index = task.index
        /\ task'.claimed = task.claimed /\ task'.command = task.command
        /\ task'.instance = task.instance /\ issued' = issued /\ generation' = generation
    BY <1>3 DEF Admitted, Running, Grows
  <2>2. CommandInv'
    BY <2>1 DEF PrepInv, CommandInv
  <2>3. \A c \in issued : MayAct(task', c) => MayAct(task, c)
    BY <1>0, <2>1 DEF MayAct, Running, InHand
  <2>4. QED
    BY <2>2, <2>3
<1>4. CASE Begun
  <2>1. /\ issued' = issued /\ generation' = generation + 1 /\ task' # None
        /\ task'.generation = generation + 1
    BY <1>4 DEF Begun
  <2>2. \A c \in issued : c.generation <= generation
    BY DEF PrepInv, CommandInv
  <2>3. \A c \in issued : c.generation # task'.generation /\ c.generation <= generation'
    BY <1>0, <2>1, <2>2
  <2>4. CommandInv'
    BY <2>1, <2>3 DEF CommandInv
  <2>5. \A c \in issued : ~MayAct(task', c)
    BY <2>3 DEF MayAct
  <2>6. QED
    BY <2>4, <2>5
<1>5. CASE Gone
  BY <1>5 DEF Gone, PrepInv, CommandInv, MayAct, Running
<1>6. QED
  BY <1>1, <1>2, <1>3, <1>4, <1>5 DEF TaskStep

\* A nonce is out only for the item the task is at, and "Opened" only said with one.
LEMMA VisitKept ==
    ASSUME PrepInv, PrepBase', TaskStep
    PROVE  VisitInv' /\ OpenedWasVisited'
<1>0. /\ task # None => Sound(task) /\ task.index \in Nat /\ DOMAIN task.results = 1..task.index
      /\ task' # None => Sound(task') /\ task'.index \in Nat /\ DOMAIN task'.results = 1..task'.index
  BY DEF PrepInv, PrepBase, TaskInv, Sound, InOrder, Task
<1>1. ASSUME task # None, NEW v, Sound(v), Later(task, v)
      PROVE  /\ v.phase = "running" /\ v.visit # None => <<v.generation, v.index>> \in visits
             /\ \A i \in 1..v.index : v.results[i].outcome = "Opened" =>
                    <<v.generation, i - 1>> \in visits
  <2>1. v.generation = task.generation /\ v.index \in Nat /\ task.index <= v.index
    BY <1>1 DEF Later, Grows, Sound, Task
  <2>2. v.phase = "running" /\ v.visit # None => <<v.generation, v.index>> \in visits
    BY <1>1, <2>1 DEF Later, Grows, Unaided, PrepInv, VisitInv, Running
  <2>3. ASSUME NEW i \in 1..v.index, v.results[i].outcome = "Opened"
        PROVE  <<v.generation, i - 1>> \in visits
    <3>1. CASE i <= task.index
      <4>1. i \in DOMAIN task.results /\ task.results[i].outcome = "Opened"
        BY <1>0, <1>1, <2>3, <3>1 DEF Later, Grows
      <4>2. QED
        BY <1>1, <2>1, <4>1 DEF PrepInv, OpenedWasVisited
    <3>2. CASE i > task.index
      <4>1. task.phase = "running" /\ i = task.index + 1 /\ task.visit # None
        BY <1>1, <2>3, <3>2 DEF Later, Unaided
      <4>2. <<task.generation, task.index>> \in visits /\ i - 1 = task.index
        BY <1>0, <1>1, <4>1 DEF PrepInv, VisitInv, Running
      <4>3. QED
        BY <2>1, <4>2
    <3>3. QED
      BY <1>0, <1>1, <2>3, <3>1, <3>2
  <2>4. QED
    BY <2>2, <2>3
<1>2. CASE Onward
  <2>1. CASE task = None
    BY <1>2, <2>1 DEF Onward, VisitInv, OpenedWasVisited, Running
  <2>2. CASE task # None
    BY <1>0, <1>1, <1>2, <2>2 DEF Onward, VisitInv, OpenedWasVisited, Running
  <2>3. QED
    BY <2>1, <2>2
<1>3. CASE Commanded
  <2>1. PICK v : /\ Sound(v) /\ Later(task, v) /\ v.phase = "running"
                 /\ task'.index = v.index /\ task'.visit = v.visit /\ task'.results = v.results
    BY <1>3 DEF Commanded
  <2>2. task # None /\ task'.generation = v.generation /\ visits' = visits
    BY <1>3, <2>1 DEF Commanded, Running, Later, Grows
  <2>3. QED
    BY <1>0, <1>1, <2>1, <2>2 DEF VisitInv, OpenedWasVisited
<1>4. CASE Admitted
  <2>1. /\ task # None /\ task' # None /\ task'.index = task.index
        /\ task'.generation = task.generation
        /\ visits' = visits \cup {<<task'.generation, task'.index>>}
        /\ \A i \in 1..task.index : task'.results[i] = task.results[i]
    BY <1>4 DEF Admitted, Running, Grows
  <2>2. QED
    BY <1>0, <2>1 DEF PrepInv, VisitInv, OpenedWasVisited
<1>5. CASE Begun
  <2>1. DOMAIN task'.results = {}
    BY <1>5 DEF Begun
  <2>2. QED
    BY <1>5, <2>1 DEF Begun, VisitInv, OpenedWasVisited
<1>6. CASE Gone
  BY <1>6 DEF Gone, VisitInv, OpenedWasVisited, Running
<1>7. QED
  BY <1>2, <1>3, <1>4, <1>5, <1>6 DEF TaskStep

\* What is recorded of a task stands, and its end is final.
LEMMA ResultsKept ==
    ASSUME PrepBase, PrepBase', TaskStep, task # None, task' # None, task.generation = task'.generation
    PROVE  /\ Len(task.results) <= Len(task'.results)
           /\ \A i \in DOMAIN task.results : task'.results[i] = task.results[i]
           /\ task.phase # "running" => task'.results = task.results /\ task'.phase = task.phase
<1>1. /\ Len(task.results) = task.index /\ DOMAIN task.results = 1..task.index
      /\ Len(task'.results) = task'.index /\ task.generation <= generation /\ generation \in Nat
      /\ task.generation \in Nat
  BY TimeAssumption DEF PrepBase, PrepTypeOK, TaskInv, Sound, InOrder, Task, Generation
<1>2. ~Begun /\ ~Gone
  BY <1>1 DEF Begun, Gone
<1>3. Grows(task, task')
  BY <1>2 DEF TaskStep, Onward, Commanded, Admitted, Later
<1>4. QED
  BY <1>1, <1>3 DEF Grows

LEMMA PrepInvKept ==
    ASSUME PrepInv, [PrepNext]_prepVars
    PROVE  PrepInv'
<1>1. PrepBase
  BY DEF PrepInv, PrepBase
<1>2. PrepBase' /\ TaskStep
  BY <1>1, PrepEffect
<1>3. CommandInv' /\ VisitInv' /\ OpenedWasVisited'
  BY <1>2, CommandKept, VisitKept
<1>4. QED
  BY <1>2, <1>3 DEF PrepInv, PrepBase

LEMMA PrepInvInit == PrepInit => PrepInv
<1> SUFFICES ASSUME PrepInit PROVE PrepInv
  OBVIOUS
<1>1. None \notin Generation
  BY NoneAssumption, TimeAssumption DEF Generation
<1>2. last \in [phase : {"idle", "completed", "blocked"}, manual : BOOLEAN] /\ beat \in 0..StaleAfter
  BY TimeAssumption DEF PrepInit
<1>3. PrepTypeOK
  <2>1. 0 \in 0..MaxTasks
    BY TimeAssumption
  <2>2. QED
    BY <1>2, <2>1 DEF PrepInit, PrepTypeOK
<1>4. QED
  BY <1>1, <1>3 DEF PrepInit, PrepInv, TaskInv, Owned, CommandInv, VisitInv, OpenedWasVisited, Running

\* What it says of the browser and the results, in the words of the properties.
LEMMA PrepInvSays ==
    PrepInv => PrepTypeOK /\ BrowserFollowsTask /\ OneResultEach /\ OpenedWasVisited
<1> SUFFICES ASSUME PrepInv PROVE BrowserFollowsTask /\ OneResultEach
  BY DEF PrepInv
<1>1. task # None => task \in Task /\ InHand(task) /\ InOrder(task)
  BY DEF PrepInv, TaskInv, Sound
<1>2. task # None => (task.holds <=> Running(task) \/ task.claimed)
  BY <1>1 DEF InHand, Task, Running
<1>3. BrowserFollowsTask
  BY <1>2 DEF PrepInv, Owned, BrowserFollowsTask
<1>4. OneResultEach
  BY <1>1 DEF InOrder, OneResultEach, Running
<1>5. QED
  BY <1>3, <1>4

-----------------------------------------------------------------------------
(***************************************************************************)
(* The workflow                                                            *)
(***************************************************************************)
Waiting == {"preparing", "waiting_for_user", "transition"}

\* No Import is at work before the workflow started its own, and none without the browser.
BatchInv ==
    /\ batch.phase = "running" => batch.alive
    /\ batch.alive => browser = Other
    /\ flow.phase \in Waiting => ~batch.alive

\* A workflow that is past its Preparation has none running, and the one that
\* waits for the user knows whether it runs.
StageInv ==
    /\ Active(flow) => flow.id \in 1..MaxClicks
    /\ flow.phase \in Waiting => ~flow.started
    /\ flow.phase \in {"importing", "stopping"} => flow.started
    /\ flow.phase = "transition" => flow.id \in prepared
    /\ Running(task) =>
          /\ flow.prep = <<TRUE, task.generation>>
          /\ flow.phase = "preparing" \/ (flow.phase = "waiting_for_user" /\ flow.login)

FlowInv == FlowTypeOK /\ BatchInv /\ StageInv /\ UnreviewedImportIsSafe

\* The Import takes the browser, or nothing of Preparation changes.
LEMMA ImportTakesBrowser ==
    ASSUME NEW f, NEW grant, StartImport(f, grant),
           UNCHANGED <<task, last, instance, beat, capable, generation, issued, visits>>
    PROVE  OtherTakesBrowser \/ UNCHANGED prepVars
BY DEF StartImport, OtherTakesBrowser, prepVars

\* To Preparation every step of the workflow is one of its own.
LEMMA WorkflowStep ==
    ASSUME PrepInv, FlowInv, [KeptNext]_keptVars
    PROVE  [PrepNext]_prepVars
<1>0. PrepBase
  BY DEF PrepInv, PrepBase
<1>1. CASE UNCHANGED keptVars \/ ClickInVain \/ BatchEnds
  BY <1>1 DEF keptVars, ClickInVain, BatchEnds
<1>2. CASE ClickImportOnly
  BY <1>2, ImportTakesBrowser DEF ClickImportOnly, PrepNext
<1>3. CASE ClickPrepare
  BY <1>3 DEF ClickPrepare, PreparationStarts, PrepNext, UserNext
<1>4. ASSUME NEW id, ContinueImport(id)
      PROVE  [PrepNext]_prepVars
  BY <1>4, ImportTakesBrowser DEF ContinueImport, PrepNext
<1>5. ASSUME NEW id, CancelPreparing(id)
      PROVE  [PrepNext]_prepVars
  <2>1. CASE flow.prep[1] /\ Running(Live) /\ Live.generation = flow.prep[2]
    <3>1. Cancel(Live.generation)
      BY <1>5, <2>1 DEF CancelPreparing, CanceledWith, Cancel
    <3>2. Live.generation \in Generation
      BY <1>0, <2>1, LiveFollows DEF Running, Sound, Task
    <3>3. QED
      BY <3>1, <3>2 DEF PrepNext, UserNext
  <2>2. CASE flow.prep[1] /\ ~(Running(Live) /\ Live.generation = flow.prep[2])
    BY <1>5, <2>2 DEF CancelPreparing, CanceledWith, Snapshot, PrepNext
  <2>3. CASE ~flow.prep[1]
    <3>1. Becomes(task)
      BY <1>5, <2>3 DEF CancelPreparing
    <3>2. BrowserUnder(task) = browser
      BY <1>0 DEF BrowserUnder, PrepBase, TaskInv, Owned, Sound, Task
    <3>3. QED
      BY <1>5, <3>1, <3>2 DEF CancelPreparing, Becomes, prepVars
  <2>4. QED
    BY <2>1, <2>2, <2>3
<1>6. ASSUME NEW id, CancelImporting(id)
      PROVE  [PrepNext]_prepVars
  BY <1>6 DEF CancelImporting
<1>7. CASE WorkerTick
  BY <1>7, ImportTakesBrowser
     DEF WorkerTick, FollowImport, Transition, FollowPreparation, WorkerReturns, PrepNext
<1>8. CASE OthersAct
  BY <1>8 DEF OthersAct, PrepNext
<1>9. CASE BatchExits
  <2>1. browser = Other
    BY <1>9 DEF BatchExits, FlowInv, BatchInv
  <2>2. OtherFreesBrowser
    BY <1>9, <2>1 DEF BatchExits, OtherFreesBrowser
  <2>3. QED
    BY <2>2 DEF PrepNext
<1>10. CASE FlowTime \/ FlowRestart
  BY <1>10 DEF FlowTime, FlowRestart, PrepNext
<1>11. QED
  BY <1>1, <1>2, <1>3, <1>4, <1>5, <1>6, <1>7, <1>8, <1>9, <1>10 DEF KeptNext, UserActs

\* What an Import the user is not asked about has to follow.
NothingToReview ==
    IF task = None THEN ~last.manual
    ELSE /\ ~task.manual /\ Len(task.results) = Len(task.services)
         /\ \A i \in DOMAIN task.results : task.results[i].outcome = "Opened"

LEMMA ReviewIsStable ==
    ASSUME PrepInv, ~Running(task), Onward
    PROVE  ~Running(task') /\ (NothingToReview => NothingToReview')
<1>1. CASE task = None
  BY <1>1 DEF Onward, NothingToReview, Running
<1>2. CASE task # None
  <2>1. task.phase # "running" /\ Grows(task, task') /\ task' # None
    BY <1>2, NoneAssumption DEF Onward, Later, Running, Sound
  <2>2. QED
    BY <1>2, <2>1 DEF Grows, NothingToReview, Running
<1>3. QED
  BY <1>1, <1>2

\* What else happens beside the workflow, which leaves it alone.
LEMMA AsideKeeps ==
    ASSUME PrepInv, FlowInv, UNCHANGED flowVars, batch.alive => browser' = Other,
           Onward \/ Commanded \/ Admitted
    PROVE  FlowInv'
<1>1. UNCHANGED <<flow, authorization, worker, batch, consented, prepared>>
  BY DEF flowVars
<1>2. Running(task') => Running(task) /\ task'.generation = task.generation
  BY DEF Onward, Commanded, Admitted, Later, Grows, Running
<1>3. FlowTypeOK' /\ BatchInv' /\ StageInv'
  BY <1>1, <1>2 DEF FlowInv, FlowTypeOK, BatchInv, StageInv, Active
<1>4. UnreviewedImportIsSafe'
  <2> SUFFICES ASSUME Active(flow), flow.started \/ flow.phase = "transition", flow.id \notin consented
               PROVE  NothingToReview'
    BY <1>1 DEF UnreviewedImportIsSafe, NothingToReview
  <2>1. NothingToReview /\ ~Running(task)
    BY DEF FlowInv, UnreviewedImportIsSafe, NothingToReview, StageInv, Waiting
  <2>2. Onward
    BY <2>1 DEF Commanded, Admitted
  <2>3. QED
    BY <2>1, <2>2, ReviewIsStable
<1>5. QED
  BY <1>3, <1>4 DEF FlowInv

\* How a workflow f, which had the grant, comes out of its start of the Import.
Launched(f) ==
    /\ flow' \in Flow /\ flow'.id = f.id /\ flow'.started /\ authorization' = FALSE
    /\ batch' \in [phase : BatchPhase, alive : BOOLEAN]
    /\ IF batch'.phase = "running" THEN flow'.phase = "importing" /\ batch'.alive
       ELSE flow'.phase \in {"completed", "interrupted"}
    /\ batch'.alive => browser' = Other

LEMMA StartImportEffect ==
    ASSUME NEW f \in Flow, NEW grant \in BOOLEAN, StartImport(f, grant), ~f.started,
           FlowTypeOK, batch.phase = "running" => batch.alive, ~batch.alive
    PROVE  IF grant THEN Launched(f)
           ELSE flow' = f /\ authorization' = FALSE /\ UNCHANGED <<batch, browser>>
<1>1. CASE ~grant
  BY <1>1 DEF StartImport
<1>2. CASE grant
  <2> DEFINE g == [f EXCEPT !.started = TRUE, !.phase = "importing", !.due = None, !.login = FALSE]
  <2>1. /\ g \in Flow /\ g.id = f.id /\ g.started = TRUE /\ g.phase = "importing"
    BY DEF Flow, FlowPhase
  <2>2. /\ authorization' = FALSE
        /\ \/ flow' = Interrupted(g) /\ UNCHANGED <<batch, browser>>
           \/ /\ batch' = [phase |-> "blocked", alive |-> FALSE]
              /\ flow' = Interrupted(g) /\ UNCHANGED browser
           \/ /\ browser' = Other
              /\ \E p \in {"running", "completed", "blocked"} :
                   batch' = [phase |-> p, alive |-> TRUE] /\ flow' = Finished(g, p)
    BY <1>2 DEF StartImport
  <2> HIDE DEF g
  <2>3. /\ Interrupted(g) \in Flow /\ Interrupted(g).id = f.id /\ Interrupted(g).started
        /\ Interrupted(g).phase = "interrupted"
    BY <2>1 DEF Interrupted, Flow, FlowPhase
  <2>4. \A p \in {"running", "completed", "blocked"} :
           LET h == Finished(g, p)
           IN /\ h \in Flow /\ h.id = f.id /\ h.started
              /\ IF p = "running" THEN h.phase = "importing" ELSE h.phase \in {"completed", "interrupted"}
    <3>1. Finished(g, "running") = g /\ Finished(g, "blocked") = Interrupted(g)
          /\ Finished(g, "completed") = [g EXCEPT !.phase = "completed"]
      BY DEF Finished
    <3>2. LET h == [g EXCEPT !.phase = "completed"]
          IN h \in Flow /\ h.id = f.id /\ h.started /\ h.phase = "completed"
      BY <2>1 DEF Flow, FlowPhase
    <3>3. QED
      BY <2>1, <2>3, <3>1, <3>2
  <2>5. CASE flow' = Interrupted(g) /\ UNCHANGED <<batch, browser>>
    BY <1>2, <2>2, <2>3, <2>5 DEF Launched, FlowTypeOK
  <2>6. CASE /\ batch' = [phase |-> "blocked", alive |-> FALSE]
             /\ flow' = Interrupted(g)
    BY <1>2, <2>2, <2>3, <2>6 DEF Launched, BatchPhase
  <2>7. ASSUME browser' = Other, NEW p \in {"running", "completed", "blocked"},
               batch' = [phase |-> p, alive |-> TRUE], flow' = Finished(g, p)
        PROVE  Launched(f)
    <3>1. batch' \in [phase : BatchPhase, alive : BOOLEAN] /\ batch'.phase = p /\ batch'.alive
      BY <2>7 DEF BatchPhase
    <3>2. QED
      BY <2>2, <2>4, <2>7, <3>1 DEF Launched
  <2>8. QED
    BY <1>2, <2>2, <2>5, <2>6, <2>7
<1>3. QED
  BY <1>1, <1>2

\* The Import is the user's own choice, or follows what the user need not look at.
LEMMA LaunchKeeps ==
    ASSUME FlowInv, NEW f, Launched(f), f.id \in 1..MaxClicks, ~Running(task),
           UNCHANGED <<task, last>>, worker' \in BOOLEAN,
           f.id \in consented' \/ NothingToReview
    PROVE  FlowInv'
<1>1. ~Running(task')
  BY DEF Running
<1>2. FlowTypeOK' /\ BatchInv'
  BY DEF Launched, FlowTypeOK, BatchInv, Waiting
<1>3. StageInv'
  BY <1>1 DEF Launched, StageInv, Waiting, Active, ActivePhase
<1>4. UnreviewedImportIsSafe'
  BY DEF Launched, UnreviewedImportIsSafe, NothingToReview
<1>5. QED
  BY <1>2, <1>3, <1>4 DEF FlowInv

LEMMA ClickedEffect ==
    ASSUME FlowInv, Clickable, NEW auto \in BOOLEAN
    PROVE  /\ Clicked(auto) \in Flow /\ Clicked(auto).id = flow.id + 1
           /\ flow.id + 1 \in 1..MaxClicks /\ ~Clicked(auto).started
           /\ Clicked(auto).phase = "preparing" /\ ~Clicked(auto).login
           /\ ~Running(task) /\ ~batch.alive /\ batch.phase # "running"
<1>1. flow.id + 1 \in 1..MaxClicks
  BY FlowAssumption DEF FlowInv, FlowTypeOK, Flow, Clickable
<1>2. ~Running(task)
  BY DEF FlowInv, StageInv, Clickable, Active, ActivePhase
<1>3. Clicked(auto) \in Flow
  <2>1. /\ flow.id + 1 \in 0..MaxClicks /\ <<FALSE, 0>> \in BOOLEAN \X Nat
        /\ "preparing" \in FlowPhase /\ None \in 0..Delay \cup {None}
    <3>1. flow.id + 1 \in 0..MaxClicks
      BY <1>1, FlowAssumption
    <3>2. <<FALSE, 0>> \in BOOLEAN \X Nat
      OBVIOUS
    <3>3. QED
      BY <3>1, <3>2 DEF FlowPhase
  <2>2. QED
    BY <2>1 DEF Clicked, Flow
<1>4. QED
  BY <1>1, <1>2, <1>3 DEF Clicked, Clickable, FlowInv, BatchInv

LEMMA InterruptedEffect ==
    ASSUME NEW f \in Flow
    PROVE  /\ Interrupted(f) \in Flow /\ Interrupted(f).id = f.id
           /\ Interrupted(f).phase = "interrupted" /\ ~Active(Interrupted(f))
BY DEF Interrupted, Flow, FlowPhase, Active, ActivePhase

\* advance while a Preparation is awaited: it goes on waiting, or the
\* workflow is over; it goes to the Import only from a Preparation that is through.
LEMMA FollowedEffect ==
    ASSUME NEW f \in Flow, f.phase \in {"preparing", "waiting_for_user"},
           NEW t \in Task \cup {None},
           NEW l \in [phase : {"idle", "completed", "blocked"}, manual : BOOLEAN], NEW identity
    PROVE  LET g == Followed(f, t, l, identity)
           IN /\ g \in Flow /\ g.id = f.id /\ g.prep = f.prep /\ g.started = f.started
              /\ g.phase \in Waiting \cup {"interrupted"}
              /\ identity = f.prep /\ Running(t) =>
                    g.phase = "preparing" \/ (g.phase = "waiting_for_user" /\ g.login)
              /\ g.phase = "transition" => PrepPhase(t, l) = "completed" /\ Safe(t, l)
<1>1. \A h \in FlowPhase, login \in BOOLEAN :
        LET g == [f EXCEPT !.phase = h, !.login = login]
        IN /\ g \in Flow /\ g.id = f.id /\ g.prep = f.prep /\ g.started = f.started
           /\ g.phase = h /\ g.login = login
  BY DEF Flow
<1>2. LET g == [f EXCEPT !.phase = "transition", !.login = FALSE, !.due = Delay]
      IN /\ g \in Flow /\ g.id = f.id /\ g.prep = f.prep /\ g.started = f.started
         /\ g.phase = "transition"
  <2>1. Delay \in 0..Delay /\ "transition" \in FlowPhase
    BY FlowAssumption DEF FlowPhase
  <2>2. QED
    BY <2>1 DEF Flow
<1>3. /\ Interrupted(f) \in Flow /\ Interrupted(f).id = f.id /\ Interrupted(f).prep = f.prep
      /\ Interrupted(f).started = f.started /\ Interrupted(f).phase = "interrupted"
  BY DEF Interrupted, Flow, FlowPhase
<1>4. Running(t) => PrepPhase(t, l) = "running"
  BY DEF Running, PrepPhase
<1>5. PrepPhase(t, l) = "running" => t.waiting \in BOOLEAN
  BY DEF PrepPhase, Task
<1>6. CASE identity # f.prep \/ PrepPhase(t, l) \in {"blocked", "stopped"}
  <2>1. Followed(f, t, l, identity) = Interrupted(f)
    BY <1>6 DEF Followed
  <2>2. QED
    BY <1>3, <1>4, <1>6, <2>1
<1>7. CASE identity = f.prep /\ PrepPhase(t, l) = "running"
  <2>1. Followed(f, t, l, identity) =
          [f EXCEPT !.phase = IF t.waiting THEN "waiting_for_user" ELSE "preparing", !.login = t.waiting]
    BY <1>7, Zenon DEF Followed
  <2>2. "waiting_for_user" \in FlowPhase /\ "preparing" \in FlowPhase
    BY DEF FlowPhase
  <2>3. CASE t.waiting
    <3> DEFINE g == Followed(f, t, l, identity)
    <3>1. g = [f EXCEPT !.phase = "waiting_for_user", !.login = TRUE]
      BY <1>5, <1>7, <2>1, <2>3
    <3> HIDE DEF g
    <3>2. /\ g \in Flow /\ g.id = f.id /\ g.prep = f.prep /\ g.started = f.started
          /\ g.phase = "waiting_for_user" /\ g.login = TRUE
      BY <2>2, <3>1 DEF Flow
    <3>3. QED
      BY <3>2 DEF Waiting, g
  <2>4. CASE ~t.waiting
    <3> DEFINE g == Followed(f, t, l, identity)
    <3>1. g = [f EXCEPT !.phase = "preparing", !.login = FALSE]
      BY <1>5, <1>7, <2>1, <2>4
    <3> HIDE DEF g
    <3>2. /\ g \in Flow /\ g.id = f.id /\ g.prep = f.prep /\ g.started = f.started
          /\ g.phase = "preparing" /\ g.login = FALSE
      BY <2>2, <3>1 DEF Flow
    <3>3. QED
      BY <3>2 DEF Waiting, g
  <2>5. QED
    BY <2>3, <2>4
<1>8. CASE /\ identity = f.prep
           /\ PrepPhase(t, l) \notin {"blocked", "stopped", "running"}
  <2>1. CASE ~(PrepPhase(t, l) = "completed" /\ (f.phase = "preparing" \/ f.login))
    <3>1. Followed(f, t, l, identity) = f
      BY <1>8, <2>1 DEF Followed
    <3>2. QED
      BY <1>4, <1>8, <3>1 DEF Waiting
  <2>2. CASE /\ PrepPhase(t, l) = "completed" /\ (f.phase = "preparing" \/ f.login)
             /\ f.auto /\ Safe(t, l)
    <3>1. Followed(f, t, l, identity) = [f EXCEPT !.phase = "transition", !.login = FALSE, !.due = Delay]
      BY <1>8, <2>2, Zenon DEF Followed
    <3>2. QED
      BY <1>2, <1>4, <1>8, <2>2, <3>1 DEF Waiting
  <2>3. CASE /\ PrepPhase(t, l) = "completed" /\ (f.phase = "preparing" \/ f.login)
             /\ ~(f.auto /\ Safe(t, l))
    <3>1. Followed(f, t, l, identity) = [f EXCEPT !.phase = "waiting_for_user", !.login = FALSE]
      BY <1>8, <2>3, Zenon DEF Followed
    <3>2. "waiting_for_user" \in FlowPhase
      BY DEF FlowPhase
    <3>3. QED
      BY <1>1, <1>4, <1>8, <3>1, <3>2 DEF Waiting
  <2>4. QED
    BY <2>1, <2>2, <2>3
<1>9. QED
  BY <1>6, <1>7, <1>8

\* The clicks, one step each.
LEMMA ClickKeeps ==
    ASSUME PrepInv, FlowInv, PrepInv', TaskStep, ClickImportOnly \/ ClickInVain \/ ClickPrepare
    PROVE  FlowInv'
<1>0. PrepBase
  BY DEF PrepInv, PrepBase
<1>1. CASE ClickImportOnly
  <2>1. PICK auto \in BOOLEAN : StartImport(Clicked(auto), TRUE)
    BY <1>1 DEF ClickImportOnly
  <2>2. Launched(Clicked(auto)) /\ Clicked(auto).id = flow.id + 1
    BY <1>1, <2>1, ClickedEffect, StartImportEffect DEF ClickImportOnly, FlowInv, BatchInv
  <2>3. flow.id + 1 \in 1..MaxClicks /\ ~Running(task)
    BY <1>1, ClickedEffect DEF ClickImportOnly
  <2>4. QED
    BY <1>1, <2>2, <2>3, LaunchKeeps DEF ClickImportOnly, Active
<1>2. CASE ClickInVain
  <2>1. PICK auto \in BOOLEAN : flow' = Interrupted(Clicked(auto))
    BY <1>2 DEF ClickInVain
  <2>2. flow' \in Flow /\ flow'.phase = "interrupted" /\ ~Active(flow')
    BY <1>2, <2>1, ClickedEffect, InterruptedEffect DEF ClickInVain
  <2>3. ~Running(task') /\ ~batch.alive /\ batch.phase # "running"
    BY <1>2, ClickedEffect DEF ClickInVain, prepVars, Running
  <2>4. QED
    BY <1>2, <2>2, <2>3
       DEF ClickInVain, FlowInv, FlowTypeOK, BatchInv, StageInv, UnreviewedImportIsSafe, Waiting, Active
<1>3. CASE ClickPrepare
  <2> DEFINE identity == IF task' = None THEN <<FALSE, generation'>> ELSE <<TRUE, task'.generation>>
             asked(auto) == [Clicked(auto) EXCEPT !.prep = identity]
  <2>1. PICK auto \in BOOLEAN :
          flow' = IF Busy(Live) THEN Interrupted(asked(auto))
                  ELSE Followed(asked(auto), task', last', identity)
    BY <1>3 DEF ClickPrepare
  <2>2. /\ task' \in Task \cup {None} /\ generation' \in Nat
        /\ last' \in [phase : {"idle", "completed", "blocked"}, manual : BOOLEAN]
        /\ task' # None => Sound(task')
    BY TimeAssumption DEF PrepInv, PrepTypeOK, TaskInv
  <2>3. identity \in BOOLEAN \X Nat
    <3>1. task' # None => task'.generation \in Nat
      BY <2>2 DEF Task, Generation
    <3>2. QED
      BY <2>2, <3>1
  <2> HIDE DEF identity
  <2>4. /\ asked(auto) \in Flow /\ asked(auto).id = flow.id + 1 /\ ~asked(auto).started
        /\ asked(auto).phase = "preparing" /\ asked(auto).prep = identity
        /\ flow.id + 1 \in 1..MaxClicks /\ ~Running(task)
        /\ ~batch'.alive /\ batch'.phase # "running"
    BY <1>3, <2>3, ClickedEffect DEF ClickPrepare, Flow
  <2>5. CASE Busy(Live)
    <3>1. flow' \in Flow /\ flow'.phase = "interrupted" /\ ~Active(flow')
      BY <2>1, <2>4, <2>5, InterruptedEffect
    <3>2. Snapshot
      BY <1>3, <2>5 DEF ClickPrepare, PreparationStarts, Start, StartWithout
    <3>3. ~Running(task')
      BY <1>0, <2>4, <3>2, SnapshotEffect, ReviewIsStable DEF Snapshot
    <3>4. worker' \in BOOLEAN /\ authorization' \in BOOLEAN /\ batch' = batch
      BY <1>3 DEF ClickPrepare, Active
    <3>5. FlowTypeOK' /\ BatchInv'
      BY <2>4, <3>1, <3>4 DEF FlowInv, FlowTypeOK, BatchInv, Waiting
    <3>6. StageInv' /\ UnreviewedImportIsSafe'
      BY <3>1, <3>3 DEF StageInv, UnreviewedImportIsSafe, Waiting
    <3>7. QED
      BY <3>5, <3>6 DEF FlowInv
  <2>6. CASE ~Busy(Live)
    <3> DEFINE f == asked(auto)
    <3> HIDE DEF asked
    <3>1. flow' = Followed(f, task', last', identity)
      BY <2>1, <2>6
    <3> HIDE DEF f
    <3>2. /\ flow' \in Flow /\ flow'.id = f.id /\ flow'.prep = f.prep /\ flow'.started = f.started
          /\ flow'.phase \in Waiting \cup {"interrupted"}
          /\ Running(task') => flow'.phase = "preparing" \/ (flow'.phase = "waiting_for_user" /\ flow'.login)
          /\ flow'.phase = "transition" => PrepPhase(task', last') = "completed" /\ Safe(task', last')
      BY <2>2, <2>4, <3>1, FollowedEffect DEF f
    <3>3. f.id = flow.id + 1 /\ ~f.started /\ f.prep = identity
      BY <2>4 DEF f
    <3>4. Running(task') => identity = <<TRUE, task'.generation>>
      BY DEF identity, Running
    <3>5. FlowTypeOK' /\ BatchInv'
      <4>1. worker' \in BOOLEAN /\ authorization' \in BOOLEAN /\ batch' = batch
        BY <1>3 DEF ClickPrepare, Active
      <4>2. QED
        BY <2>4, <3>2, <4>1 DEF FlowInv, FlowTypeOK, BatchInv
    <3>6. StageInv'
      BY <1>3, <2>4, <3>2, <3>3, <3>4
         DEF ClickPrepare, StageInv, Waiting, Active, ActivePhase, PreparedBy, Running
    <3>7. flow'.phase = "transition" => NothingToReview'
      BY <2>2, <3>2 DEF PrepPhase, Safe, NothingToReview, Sound, InOrder, More, Task
    <3>8. UnreviewedImportIsSafe'
      BY <3>2, <3>3, <3>7 DEF UnreviewedImportIsSafe, NothingToReview
    <3>9. QED
      BY <3>5, <3>6, <3>8 DEF FlowInv
  <2>7. QED
    BY <2>5, <2>6
<1>4. QED
  BY <1>1, <1>2, <1>3

LEMMA FinishedEffect ==
    ASSUME NEW f \in Flow, NEW p
    PROVE  LET g == Finished(f, p)
           IN /\ g \in Flow /\ g.id = f.id /\ g.started = f.started
              /\ IF p = "running" THEN g = f ELSE g.phase \in {"completed", "interrupted"}
<1>1. LET g == [f EXCEPT !.phase = "completed"]
      IN g \in Flow /\ g.id = f.id /\ g.started = f.started /\ g.phase = "completed"
  BY DEF Flow, FlowPhase
<1>2. /\ Interrupted(f) \in Flow /\ Interrupted(f).id = f.id
      /\ Interrupted(f).started = f.started /\ Interrupted(f).phase = "interrupted"
  BY DEF Interrupted, Flow, FlowPhase
<1>3. Finished(f, p) = IF p = "running" THEN f
                       ELSE IF p = "completed" THEN [f EXCEPT !.phase = "completed"]
                       ELSE Interrupted(f)
  BY Zenon DEF Finished
<1>4. QED
  BY <1>1, <1>2, <1>3

\* A workflow that is over has nothing else to answer for.
LEMMA OverKeeps ==
    ASSUME FlowInv, flow' \in Flow, flow'.phase \in {"idle", "completed", "interrupted"}, ~Running(task'),
           worker' \in BOOLEAN, authorization' \in BOOLEAN,
           batch' \in [phase : BatchPhase, alive : BOOLEAN], batch'.phase = "running" => batch'.alive,
           batch'.alive => browser' = Other
    PROVE  FlowInv'
<1>1. ~Active(flow') /\ flow'.phase \notin Waiting
  BY DEF Active, ActivePhase, Waiting
<1>2. FlowTypeOK' /\ BatchInv'
  BY <1>1 DEF FlowTypeOK, BatchInv
<1>3. StageInv' /\ UnreviewedImportIsSafe'
  BY <1>1 DEF StageInv, UnreviewedImportIsSafe, Waiting
<1>4. QED
  BY <1>2, <1>3 DEF FlowInv

\* One round of the worker.
LEMMA WorkerKeeps ==
    ASSUME PrepInv, FlowInv, PrepInv', WorkerTick
    PROVE  FlowInv'
<1>0. /\ PrepBase /\ FlowTypeOK /\ BatchInv /\ StageInv /\ flow \in Flow
      /\ authorization \in BOOLEAN /\ worker \in BOOLEAN
      /\ batch \in [phase : BatchPhase, alive : BOOLEAN]
  BY DEF PrepInv, PrepBase, FlowInv, FlowTypeOK
<1>1. CASE FollowImport
  <2>1. /\ flow' = Finished(flow, batch.phase) /\ UNCHANGED <<prepVars, worker, batch, consented>>
        /\ authorization' \in BOOLEAN /\ flow.started
    BY <1>0, <1>1 DEF FollowImport, StageInv
  <2>2. CASE batch.phase = "running"
    <3>1. flow' = flow /\ authorization' = authorization
      BY <1>0, <1>1, <2>1, <2>2, FinishedEffect DEF FollowImport
    <3>2. UNCHANGED flowVars
      BY <1>1, <3>1 DEF FollowImport, flowVars
    <3>3. Onward
      BY <1>0, <2>1, StutterEffect
    <3>4. QED
      BY <1>0, <2>1, <3>2, <3>3, AsideKeeps DEF prepVars, BatchInv
  <2>3. CASE batch.phase # "running"
    <3>1. flow' \in Flow /\ flow'.phase \in {"completed", "interrupted"}
      BY <1>0, <2>1, <2>3, FinishedEffect
    <3>2. ~Running(task')
      BY <1>0, <1>1, <2>1 DEF FollowImport, StageInv, prepVars, Running
    <3>3. QED
      BY <1>0, <2>1, <3>1, <3>2, OverKeeps DEF prepVars, BatchInv
  <2>4. QED
    BY <2>2, <2>3
<1>2. CASE Transition
  <2>1. /\ StartImport(flow, authorization) /\ flow.phase = "transition" /\ Active(flow)
        /\ UNCHANGED <<task, last, worker, consented, prepared>>
    BY <1>2 DEF Transition, Active, ActivePhase
  <2>2. ~flow.started /\ ~batch.alive /\ ~Running(task) /\ flow.id \in 1..MaxClicks
    BY <1>0, <2>1 DEF StageInv, BatchInv, Waiting
  <2>3. flow.id \in consented' \/ NothingToReview
    BY <2>1 DEF FlowInv, UnreviewedImportIsSafe, NothingToReview
  <2>4. CASE authorization
    <3>1. Launched(flow)
      BY <1>0, <2>1, <2>2, <2>4, StartImportEffect DEF BatchInv
    <3>2. QED
      BY <1>0, <2>1, <2>2, <2>3, <3>1, LaunchKeeps
  <2>5. CASE ~authorization
    <3>1. flow' = flow /\ authorization' = FALSE /\ UNCHANGED <<batch, browser>>
      BY <1>0, <2>1, <2>2, <2>5, StartImportEffect DEF BatchInv
    <3>2. UNCHANGED <<flowVars, prepVars>>
      BY <1>0, <1>2, <2>1, <2>5, <3>1 DEF Transition, flowVars, prepVars
    <3>3. Onward
      BY <1>0, <3>2, StutterEffect
    <3>4. QED
      BY <1>0, <3>2, <3>3, AsideKeeps DEF prepVars, BatchInv
  <2>6. QED
    BY <2>4, <2>5
<1>3. CASE FollowPreparation
  <2>1. /\ flow.phase \in {"preparing", "waiting_for_user"} /\ Snapshot /\ last' = last
        /\ task' = Live /\ flow' = Followed(flow, task', last', PrepIdentity(task'))
        /\ UNCHANGED <<worker, batch, consented>> /\ generation' = generation
    BY <1>3 DEF FollowPreparation, Snapshot, Becomes
  <2>2. Onward /\ ~batch.alive /\ ~flow.started /\ flow.id \in 1..MaxClicks
    BY <1>0, <2>1, SnapshotEffect DEF BatchInv, StageInv, Waiting, Active, ActivePhase
  <2>3. /\ task' \in Task \cup {None} /\ (task' # None => Sound(task'))
        /\ last' \in [phase : {"idle", "completed", "blocked"}, manual : BOOLEAN]
    BY DEF PrepInv, PrepTypeOK, TaskInv
  <2>4. /\ flow' \in Flow /\ flow'.id = flow.id /\ flow'.prep = flow.prep /\ ~flow'.started
        /\ flow'.phase \in Waiting \cup {"interrupted"}
        /\ PrepIdentity(task') = flow.prep /\ Running(task') =>
              flow'.phase = "preparing" \/ (flow'.phase = "waiting_for_user" /\ flow'.login)
        /\ flow'.phase = "transition" => PrepPhase(task', last') = "completed" /\ Safe(task', last')
    BY <1>0, <2>1, <2>2, <2>3, FollowedEffect
  <2>5. Running(task') => flow.prep = <<TRUE, task'.generation>> /\ PrepIdentity(task') = flow.prep
    BY <1>0, <2>2 DEF Onward, Later, Grows, Running, StageInv, PrepIdentity
  <2>6. worker' \in BOOLEAN /\ authorization' \in BOOLEAN
    BY <1>0, <1>3 DEF FollowPreparation
  <2>7. FlowTypeOK' /\ BatchInv'
    BY <1>0, <2>1, <2>2, <2>4, <2>6 DEF FlowTypeOK, BatchInv
  <2>8. StageInv'
    <3>1. flow'.phase = "transition" => flow'.id \in prepared'
      BY <1>3, <2>4 DEF FollowPreparation, PreparedBy
    <3>2. QED
      BY <2>2, <2>4, <2>5, <3>1 DEF StageInv, Waiting, Active, ActivePhase
  <2>9. flow'.phase = "transition" => NothingToReview'
    BY <2>3, <2>4 DEF PrepPhase, Safe, NothingToReview, Sound, InOrder, More, Task
  <2>10. UnreviewedImportIsSafe'
    BY <2>4, <2>9 DEF UnreviewedImportIsSafe, NothingToReview
  <2>11. QED
    BY <2>7, <2>8, <2>10 DEF FlowInv
<1>4. CASE WorkerReturns
  <2>1. UNCHANGED <<prepVars, flow, authorization, batch, consented, prepared>> /\ worker' = FALSE
    BY <1>4 DEF WorkerReturns
  <2>2. FlowTypeOK' /\ BatchInv' /\ StageInv'
    BY <1>0, <2>1 DEF FlowTypeOK, BatchInv, StageInv, prepVars, Running
  <2>3. UnreviewedImportIsSafe'
    BY <2>1 DEF FlowInv, UnreviewedImportIsSafe, prepVars
  <2>4. QED
    BY <2>2, <2>3 DEF FlowInv
<1>5. QED
  BY <1>1, <1>2, <1>3, <1>4 DEF WorkerTick

\* Continue and Cancel.
LEMMA UserKeeps ==
    ASSUME PrepInv, FlowInv, PrepInv',
           NEW id, ContinueImport(id) \/ CancelPreparing(id) \/ CancelImporting(id)
    PROVE  FlowInv'
<1>0. /\ PrepBase /\ FlowTypeOK /\ BatchInv /\ StageInv /\ flow \in Flow
      /\ authorization \in BOOLEAN /\ worker \in BOOLEAN
      /\ batch \in [phase : BatchPhase, alive : BOOLEAN]
  BY DEF PrepInv, PrepBase, FlowInv, FlowTypeOK
<1>1. CASE ContinueImport(id)
  <2>1. /\ StartImport(flow, authorization) /\ flow.phase = "waiting_for_user" /\ ~flow.login
        /\ consented' = consented \cup {flow.id}
        /\ UNCHANGED <<task, last, instance, beat, capable, generation, issued, visits, worker, prepared>>
    BY <1>1 DEF ContinueImport, Continuable, CanContinue
  <2>2. ~flow.started /\ ~batch.alive /\ ~Running(task) /\ flow.id \in 1..MaxClicks
    BY <1>0, <2>1 DEF StageInv, BatchInv, Waiting, Active, ActivePhase
  <2>3. CASE authorization
    <3>1. Launched(flow)
      BY <1>0, <2>1, <2>2, <2>3, StartImportEffect DEF BatchInv
    <3>2. QED
      BY <1>0, <2>1, <2>2, <3>1, LaunchKeeps
  <2>4. CASE ~authorization
    <3>1. flow' = flow /\ authorization' = FALSE /\ UNCHANGED <<batch, browser>>
      BY <1>0, <2>1, <2>2, <2>4, StartImportEffect DEF BatchInv
    <3>2. FlowTypeOK' /\ BatchInv' /\ StageInv'
      BY <1>0, <2>1, <3>1 DEF FlowTypeOK, BatchInv, StageInv, Running
    <3>3. UnreviewedImportIsSafe'
      BY <2>1, <3>1 DEF UnreviewedImportIsSafe
    <3>4. QED
      BY <3>2, <3>3 DEF FlowInv
  <2>5. QED
    BY <2>3, <2>4
<1>2. CASE CancelPreparing(id)
  <2>1. /\ CanCancel(flow) /\ ~flow.started /\ flow' = Interrupted(flow)
        /\ authorization' = FALSE /\ worker' = FALSE /\ batch' = batch
        /\ task' = IF flow.prep[1] THEN CanceledWith(Live) ELSE task
    BY <1>2 DEF CancelPreparing, Becomes
  <2>2. flow' \in Flow /\ flow'.phase = "interrupted"
    BY <1>0, <2>1, InterruptedEffect
  <2>3. ~batch.alive
    BY <1>0, <2>1 DEF CanCancel, Active, ActivePhase, StageInv, BatchInv, Waiting
  <2>4. ~Running(task')
    <3>1. CASE Running(task)
      <4>1. flow.prep[1] = TRUE /\ flow.prep[2] = task.generation
        <5>1. flow.prep = <<TRUE, task.generation>>
          BY <1>0, <3>1 DEF StageInv
        <5>2. QED
          BY <5>1
      <4>2. Sound(Live) /\ Live.generation = task.generation
        BY <1>0, <3>1, LiveFollows DEF Running, Later, Grows
      <4>3. CASE Running(Live)
        BY <2>1, <4>1, <4>2, <4>3, CanceledEffect DEF CanceledWith, Running
      <4>4. CASE ~Running(Live)
        BY <2>1, <4>1, <4>4 DEF CanceledWith
      <4>5. QED
        BY <4>3, <4>4
    <3>2. CASE ~Running(task)
      <4>1. ~Running(Live)
        BY <1>0, <3>2, LiveFollows DEF Running, Later, Grows
      <4>2. QED
        BY <2>1, <3>2, <4>1 DEF CanceledWith
    <3>3. QED
      BY <3>1, <3>2
  <2>5. QED
    BY <1>0, <2>1, <2>2, <2>3, <2>4, OverKeeps DEF BatchInv
<1>3. CASE CancelImporting(id)
  <2>1. /\ flow' = [flow EXCEPT !.phase = "stopping", !.due = None] /\ flow.started /\ Active(flow)
        /\ UNCHANGED <<prepVars, authorization, worker, batch, consented, prepared>>
    BY <1>3 DEF CancelImporting, CanCancel
  <2>2. /\ flow' \in Flow /\ flow'.phase = "stopping" /\ flow'.started = TRUE /\ flow'.id = flow.id
    BY <1>0, <2>1 DEF Flow, FlowPhase
  <2>3. flow.phase \notin Waiting /\ flow.id \in 1..MaxClicks /\ ~Running(task)
    BY <1>0, <2>1 DEF StageInv, Waiting
  <2>4. FlowTypeOK' /\ BatchInv' /\ StageInv'
    BY <1>0, <2>1, <2>2, <2>3
       DEF FlowTypeOK, BatchInv, StageInv, Waiting, prepVars, Running, Active, ActivePhase
  <2>5. UnreviewedImportIsSafe'
    BY <2>1, <2>2 DEF FlowInv, UnreviewedImportIsSafe, prepVars
  <2>6. QED
    BY <2>4, <2>5 DEF FlowInv
<1>4. QED
  BY <1>1, <1>2, <1>3

LEMMA FlowInvKept ==
    ASSUME PrepInv, FlowInv, [KeptNext]_keptVars
    PROVE  PrepInv' /\ FlowInv'
<1>0. /\ PrepBase /\ FlowTypeOK /\ BatchInv /\ StageInv /\ flow \in Flow
      /\ authorization \in BOOLEAN /\ worker \in BOOLEAN
      /\ batch \in [phase : BatchPhase, alive : BOOLEAN]
  BY DEF PrepInv, PrepBase, FlowInv, FlowTypeOK
<1>1. PrepInv' /\ TaskStep
  BY <1>0, WorkflowStep, PrepEffect, PrepInvKept
<1>2. CASE UNCHANGED keptVars
  <2>1. UNCHANGED <<prepVars, flowVars>> /\ Onward
    BY <1>0, <1>2, StutterEffect DEF keptVars
  <2>2. QED
    BY <1>0, <1>1, <2>1, AsideKeeps DEF prepVars, BatchInv
<1>3. CASE UserActs
  BY <1>1, <1>3, ClickKeeps, UserKeeps DEF UserActs
<1>4. CASE WorkerTick
  BY <1>1, <1>4, WorkerKeeps
<1>5. CASE OthersAct
  <2>1. UNCHANGED flowVars
    BY <1>5 DEF OthersAct
  <2>2. (Onward \/ Commanded \/ Admitted) /\ (batch.alive => browser' = Other)
    <3>1. CASE Snapshot
      BY <1>0, <3>1, SnapshotEffect DEF BatchInv, OtherStays
    <3>2. CASE ConnectorNext
      BY <1>0, <3>2, ConnectorEffect DEF BatchInv, OtherStays
    <3>3. CASE OtherTakesBrowser
      BY <1>0, <3>3, OtherEffect DEF OtherTakesBrowser
    <3>4. CASE ~batch.alive /\ OtherFreesBrowser
      BY <1>0, <3>4, OtherEffect
    <3>5. QED
      BY <1>5, <3>1, <3>2, <3>3, <3>4 DEF OthersAct
  <2>3. QED
    BY <1>1, <2>1, <2>2, AsideKeeps
<1>6. CASE BatchEnds
  <2>1. PICK p \in BatchPhase : batch' = [batch EXCEPT !.phase = p]
    BY <1>6 DEF BatchEnds, BatchPhase
  <2>2. /\ batch' \in [phase : BatchPhase, alive : BOOLEAN] /\ batch'.alive = TRUE /\ batch.alive
    BY <1>0, <1>6, <2>1 DEF BatchEnds
  <2>3. UNCHANGED <<prepVars, flow, authorization, worker, consented, prepared>>
    BY <1>6 DEF BatchEnds
  <2>4. FlowTypeOK' /\ BatchInv' /\ StageInv'
    BY <1>0, <2>2, <2>3 DEF FlowTypeOK, BatchInv, StageInv, prepVars, Running, Active
  <2>5. UnreviewedImportIsSafe'
    BY <2>3 DEF FlowInv, UnreviewedImportIsSafe, prepVars
  <2>6. QED
    BY <1>1, <2>4, <2>5 DEF FlowInv
<1>7. CASE BatchExits
  <2>1. /\ batch' \in [phase : BatchPhase, alive : BOOLEAN] /\ batch'.alive = FALSE
        /\ batch'.phase # "running"
    BY <1>0, <1>7 DEF BatchExits
  <2>2. UNCHANGED <<task, last, flow, authorization, worker, consented, prepared>>
    BY <1>7 DEF BatchExits
  <2>3. FlowTypeOK' /\ BatchInv' /\ StageInv'
    BY <1>0, <2>1, <2>2 DEF FlowTypeOK, BatchInv, StageInv, Running, Active
  <2>4. UnreviewedImportIsSafe'
    BY <2>2 DEF FlowInv, UnreviewedImportIsSafe
  <2>5. QED
    BY <1>1, <2>3, <2>4 DEF FlowInv
<1>8. CASE FlowTime
  <2>1. /\ Onward /\ UNCHANGED <<last, browser, authorization, worker, batch, consented, prepared>>
        /\ flow' = IF flow.due \in 1..Delay THEN [flow EXCEPT !.due = flow.due - 1] ELSE flow
    BY <1>0, <1>8, TickEffect DEF FlowTime, Tick, Flow
  <2>2. /\ flow' \in Flow /\ flow'.id = flow.id /\ flow'.phase = flow.phase /\ flow'.prep = flow.prep
        /\ flow'.login = flow.login /\ flow'.started = flow.started
    <3>1. flow.due \in 1..Delay => flow.due - 1 \in 0..Delay
      BY FlowAssumption
    <3>2. QED
      BY <1>0, <2>1, <3>1 DEF Flow
  <2>3. Running(task') => Running(task) /\ task'.generation = task.generation
    BY <2>1 DEF Onward, Later, Grows, Running
  <2>4. FlowTypeOK' /\ BatchInv' /\ StageInv'
    <3>1. FlowTypeOK' /\ BatchInv'
      BY <1>0, <2>1, <2>2 DEF FlowTypeOK, BatchInv
    <3>2. UNCHANGED prepared /\ StageInv
      BY <1>0, <2>1
    <3>3. StageInv'
      BY <2>2, <2>3, <3>2 DEF StageInv, Active
    <3>4. QED
      BY <3>1, <3>3
  <2>5. UnreviewedImportIsSafe'
    <3> SUFFICES ASSUME Active(flow), flow.started \/ flow.phase = "transition", flow.id \notin consented
                 PROVE  NothingToReview'
      BY <2>1, <2>2 DEF UnreviewedImportIsSafe, NothingToReview, Active
    <3>1. NothingToReview /\ ~Running(task)
      BY <1>0 DEF FlowInv, UnreviewedImportIsSafe, NothingToReview, StageInv, Waiting
    <3>2. QED
      BY <2>1, <3>1, ReviewIsStable
  <2>6. QED
    BY <1>1, <2>4, <2>5 DEF FlowInv
<1>9. CASE FlowRestart
  <2>1. /\ flow' \in Flow /\ flow'.phase = "idle"
    <3>1. <<FALSE, 0>> \in BOOLEAN \X Nat
      OBVIOUS
    <3>2. QED
      BY <1>0, <1>9, <3>1 DEF FlowRestart, Flow, FlowPhase
  <2>2. /\ batch' = [phase |-> "idle", alive |-> FALSE] /\ ~Running(task')
        /\ worker' = FALSE /\ authorization' = FALSE
    BY <1>9 DEF FlowRestart, Restart, Running
  <2>3. QED
    BY <1>1, <2>1, <2>2, OverKeeps DEF BatchPhase
<1>10. QED
  BY <1>1, <1>2, <1>3, <1>4, <1>5, <1>6, <1>7, <1>8, <1>9 DEF KeptNext

LEMMA FlowInvInit == FlowInit => PrepInv /\ FlowInv
<1> SUFFICES ASSUME FlowInit PROVE PrepInv /\ FlowInv
  OBVIOUS
<1>1. PrepInv /\ ~Running(task)
  BY PrepInvInit DEF FlowInit, PrepInit, Running
<1>2. flow \in Flow
  <2>1. <<FALSE, 0>> \in BOOLEAN \X Nat
    OBVIOUS
  <2>2. 0 \in 0..MaxClicks
    BY FlowAssumption
  <2>3. QED
    BY <2>1, <2>2 DEF FlowInit, Flow, FlowPhase
<1>3. FlowTypeOK
  BY <1>2 DEF FlowInit, FlowTypeOK, BatchPhase
<1>4. BatchInv /\ StageInv /\ UnreviewedImportIsSafe
  BY <1>1 DEF FlowInit, BatchInv, StageInv, UnreviewedImportIsSafe, Active, ActivePhase, Waiting
<1>5. QED
  BY <1>1, <1>3, <1>4 DEF FlowInv

LEMMA KeptInvariant == KeptSpec => [](PrepInv /\ FlowInv)
<1>1. PrepInv /\ FlowInv /\ [KeptNext]_keptVars => (PrepInv /\ FlowInv)'
  BY FlowInvKept
<1>2. QED
  BY <1>1, FlowInvInit, PTL DEF KeptSpec

-----------------------------------------------------------------------------
(***************************************************************************)
(* What is proved of every history                                         *)
(***************************************************************************)
\* The workflow, its Import and the rest of the process leave Preparation to
\* its own methods: whatever is proved of Preparation alone holds in the workflow.
THEOREM WorkflowPrepares == KeptSpec => PrepSpec
<1>1. PrepInv /\ FlowInv /\ [KeptNext]_keptVars => [PrepNext]_prepVars
  BY WorkflowStep
<1>2. FlowInit => PrepInit
  BY DEF FlowInit
<1>3. QED
  BY <1>1, <1>2, KeptInvariant, PTL DEF KeptSpec, PrepSpec

\* Preparation by itself: the browser is a task's as long as it drives a page,
\* every Service has one result in the order of the queue, and "Opened" is
\* said only of a visit that was authorized.
THEOREM PreparationIsSound ==
    PrepSpec => [](PrepTypeOK /\ BrowserFollowsTask /\ OneResultEach /\ OpenedWasVisited)
<1>1. PrepInv /\ [PrepNext]_prepVars => PrepInv'
  BY PrepInvKept
<1>2. QED
  BY <1>1, PrepInvInit, PrepInvSays, PTL DEF PrepSpec

\* However many clicks, queues, Connectors and restarts: an Import the user was
\* not asked about follows a Preparation that left nothing to look at, none is
\* beside a Preparation, and none is left behind by its workflow.
THEOREM PreparationPrecedes == KeptSpec => []PreparationComesFirst
<1>1. PrepInv /\ FlowInv => PreparationComesFirst
  <2> SUFFICES ASSUME PrepInv, FlowInv
               PROVE  PreparationBesideNoImport /\ NoOrphanPreparation
    BY PrepInvSays DEF PreparationComesFirst, FlowInv
  <2>1. Running(task) => Active(flow) /\ flow.prep = <<TRUE, task.generation>>
    BY DEF FlowInv, StageInv, Active, ActivePhase
  <2>2. batch.alive => browser = Other /\ ~Running(task) /\ (task # None => ~task.claimed)
    <3>1. batch.alive => browser = Other /\ Other \notin Generation
      BY NoneAssumption, TimeAssumption DEF FlowInv, BatchInv, Generation
    <3>2. task # None => task.generation \in Generation
      BY DEF PrepInv, TaskInv, Sound, Task
    <3>3. QED
      BY <3>1, <3>2, PrepInvSays DEF BrowserFollowsTask, Running
  <2>3. QED
    BY <2>1, <2>2 DEF PreparationBesideNoImport, NoOrphanPreparation
<1>2. QED
  BY <1>1, KeptInvariant, PTL

\* Whatever comes late, a command that lost its authority never gets it back,
\* and what is recorded of a Preparation stands.
THEOREM LateChangesNothing == KeptSpec => NothingComesBack
<1>1. PrepInv /\ FlowInv /\ [KeptNext]_keptVars =>
        /\ [\A c \in issued : ~MayAct(task, c) => ~MayAct(task', c)]_prepVars
        /\ [\A t \in {task}, u \in {task'} :
              t # None /\ u # None /\ t.generation = u.generation =>
                  /\ Len(t.results) <= Len(u.results)
                  /\ \A i \in DOMAIN t.results : u.results[i] = t.results[i]
                  /\ t.phase # "running" => u.results = t.results /\ u.phase = t.phase]_prepVars
  <2> SUFFICES ASSUME PrepInv, FlowInv, [KeptNext]_keptVars
               PROVE  /\ \A c \in issued : ~MayAct(task, c) => ~MayAct(task', c)
                      /\ task # None /\ task' # None /\ task.generation = task'.generation =>
                            /\ Len(task.results) <= Len(task'.results)
                            /\ \A i \in DOMAIN task.results : task'.results[i] = task.results[i]
                            /\ task.phase # "running" =>
                                  task'.results = task.results /\ task'.phase = task.phase
    OBVIOUS
  <2>1. PrepBase /\ PrepBase' /\ TaskStep
    BY WorkflowStep, PrepEffect DEF PrepInv, PrepBase
  <2>2. QED
    BY <2>1, CommandKept, ResultsKept
<1>2. QED
  BY <1>1, KeptInvariant, PTL DEF KeptSpec, NothingComesBack, RevokedStaysRevoked, ResultsStand

-----------------------------------------------------------------------------
(***************************************************************************)
(* What a click promises                                                   *)
(***************************************************************************)
Stages == [i \in 1..MaxClicks |-> Stage(i)]
Permitted == consented \cup prepared
Working == batch.phase = "running"

\* How far the click is that the workflow f is for.
StageOf(f) == IF ~Active(f) THEN "over" ELSE IF f.started THEN "importing" ELSE "asked"

LEMMA StageMoves ==
    ASSUME FlowInv, flow' \in Flow, flow'.id \in 1..MaxClicks,
           flow'.id = flow.id \/ (flow'.id = flow.id + 1 /\ ~Active(flow))
    PROVE  Stages' = [Stages EXCEPT ![flow'.id] = StageOf(flow')]
<1>1. flow.id \in Nat /\ flow'.id \in Nat
  BY FlowAssumption DEF FlowInv, FlowTypeOK, Flow
<1>2. ASSUME NEW i \in 1..MaxClicks
      PROVE  Stage(i)' = IF i = flow'.id THEN StageOf(flow') ELSE Stage(i)
  BY <1>1, <1>2 DEF Stage, StageOf
<1>3. QED
  BY <1>2 DEF Stages

LEMMA StageStays ==
    ASSUME flow'.id = flow.id, Active(flow') <=> Active(flow), flow'.started <=> flow.started
    PROVE  UNCHANGED Stages
<1>1. \A i \in 1..MaxClicks : Stage(i)' = Stage(i)
  BY DEF Stage
<1>2. QED
  BY <1>1 DEF Stages

LEMMA StageNow ==
    ASSUME FlowInv
    PROVE  /\ Active(flow) => flow.id \in 1..MaxClicks /\ Stages[flow.id] = StageOf(flow)
           /\ ~Active(flow) /\ flow.id + 1 \in 1..MaxClicks =>
                 \A other \in 1..MaxClicks : Stages[other] = IF other < flow.id + 1 THEN "over" ELSE "none"
<1>1. flow.id \in Nat
  BY FlowAssumption DEF FlowInv, FlowTypeOK, Flow
<1>2. QED
  BY <1>1 DEF FlowInv, StageInv, Stages, Stage, StageOf

IsNext(click) == \A other \in 1..MaxClicks : Stages[other] = IF other < click THEN "over" ELSE "none"

\* One click moves on as the promise has it.
LEMMA PromiseMoves ==
    ASSUME NEW click \in 1..MaxClicks, NEW to, Stages' = [Stages EXCEPT ![click] = to],
           Stages[click] = "asked" \/ IsNext(click),
           Permitted' \in {Permitted, Permitted \cup {click}},
           \/ to = "over" /\ UNCHANGED Working
           \/ to = "asked" /\ IsNext(click) /\ ~Working /\ UNCHANGED Working
           \/ /\ click \in Permitted' /\ ~Working /\ Working' \in BOOLEAN
              /\ to = IF Working' THEN "importing" ELSE "over"
    PROVE  Promise!Next
<1>1. CASE to = "over" /\ UNCHANGED Working
  <2>1. Promise!GiveUp(click)
    BY <1>1 DEF Promise!GiveUp, Promise!NextClick, Promise!Click, Promise!MayPermit,
                IsNext, Stages, Permitted, Working
  <2>2. QED
    BY <2>1 DEF Promise!Next, Promise!Click
<1>2. CASE to = "asked" /\ IsNext(click) /\ ~Working /\ UNCHANGED Working
  <2>1. Promise!Ask(click)
    BY <1>2 DEF Promise!Ask, Promise!NextClick, Promise!Click, Promise!MayPermit,
                IsNext, Stages, Permitted, Working
  <2>2. QED
    BY <2>1 DEF Promise!Next, Promise!Click
<1>3. CASE /\ click \in Permitted' /\ ~Working /\ Working' \in BOOLEAN
           /\ to = IF Working' THEN "importing" ELSE "over"
  <2>1. Promise!Import(click)
    BY <1>3 DEF Promise!Import, Promise!NextClick, Promise!Click, Promise!MayPermit,
                IsNext, Stages, Permitted, Working
  <2>2. QED
    BY <2>1 DEF Promise!Next, Promise!Click
<1>4. QED
  BY <1>1, <1>2, <1>3

\* ... or is only permitted, or nothing moves.
LEMMA PromiseStays ==
    ASSUME UNCHANGED <<Stages, Working>>,
           \/ UNCHANGED Permitted
           \/ \E click \in 1..MaxClicks :
                Stages[click] = "asked" /\ Permitted' = Permitted \cup {click}
    PROVE  [Promise!Next]_<<[i \in 1..MaxClicks |-> Stage(i)], consented \cup prepared,
                            batch.phase = "running">>
<1>1. CASE UNCHANGED Permitted
  BY <1>1 DEF Stages, Permitted, Working
<1>2. ASSUME NEW click \in 1..MaxClicks, Stages[click] = "asked", Permitted' = Permitted \cup {click}
      PROVE  Promise!Permit(click)
  BY <1>2 DEF Promise!Permit, Promise!MayPermit, Stages, Permitted, Working
<1>3. QED
  BY <1>1, <1>2 DEF Promise!Next, Promise!Click

\* A launch is the promised Import of a click that may have one.
LEMMA PromiseLaunch ==
    ASSUME FlowInv, NEW f, Launched(f), f.id \in 1..MaxClicks, ~Working,
           \/ f.id = flow.id /\ Active(flow) /\ ~flow.started
           \/ f.id = flow.id + 1 /\ ~Active(flow),
           f.id \in Permitted', Permitted' \in {Permitted, Permitted \cup {f.id}}
    PROVE  Promise!Next
<1>1. /\ Stages' = [Stages EXCEPT ![f.id] = StageOf(flow')]
  BY StageMoves DEF Launched
<1>2. StageOf(flow') = IF Working' THEN "importing" ELSE "over"
  BY DEF StageOf, Launched, Working, Active, ActivePhase
<1>3. Stages[f.id] = "asked" \/ IsNext(f.id)
  BY StageNow DEF StageOf, IsNext
<1>4. Working' \in BOOLEAN
  BY DEF Working
<1>5. QED
  BY <1>1, <1>2, <1>3, <1>4, PromiseMoves

LEMMA PromiseStep ==
    ASSUME PrepInv, FlowInv, PrepInv', FlowInv', [KeptNext]_keptVars
    PROVE  [Promise!Next]_<<[i \in 1..MaxClicks |-> Stage(i)], consented \cup prepared,
                            batch.phase = "running">>
<1>0. /\ FlowTypeOK /\ BatchInv /\ StageInv /\ flow \in Flow /\ flow' \in Flow
      /\ authorization \in BOOLEAN /\ worker \in BOOLEAN
      /\ batch \in [phase : BatchPhase, alive : BOOLEAN]
  BY DEF FlowInv, FlowTypeOK
<1>1. CASE UNCHANGED <<flow, batch, consented, prepared>>
  <2>1. UNCHANGED <<Stages, Working, Permitted>>
    BY <1>1, StageStays DEF Working, Permitted
  <2>2. QED
    BY <2>1, PromiseStays
<1>2. CASE ClickImportOnly
  <2>1. PICK auto \in BOOLEAN : StartImport(Clicked(auto), TRUE)
    BY <1>2 DEF ClickImportOnly
  <2>2. Launched(Clicked(auto)) /\ Clicked(auto).id = flow.id + 1
    BY <1>0, <1>2, <2>1, ClickedEffect, StartImportEffect DEF ClickImportOnly, BatchInv
  <2>3. flow.id + 1 \in 1..MaxClicks /\ ~Working /\ ~Active(flow)
    BY <1>2, ClickedEffect DEF ClickImportOnly, Clickable, Working
  <2>4. Permitted' = Permitted \cup {flow.id + 1}
    BY <1>2 DEF ClickImportOnly, Permitted
  <2>5. QED
    BY <2>2, <2>3, <2>4, PromiseLaunch
<1>3. CASE ClickInVain \/ ClickPrepare
  <2> DEFINE click == flow.id + 1
  <2>1. /\ click \in 1..MaxClicks /\ ~Active(flow) /\ ~Working /\ batch' = batch
    BY <1>3, ClickedEffect DEF ClickInVain, ClickPrepare, Clickable, Working
  <2>2. flow'.id = click /\ ~flow'.started
    <3>1. CASE ClickInVain
      BY <3>1, ClickedEffect DEF ClickInVain, Interrupted, Flow
    <3>2. CASE ClickPrepare
      <4> DEFINE identity == IF task' = None THEN <<FALSE, generation'>> ELSE <<TRUE, task'.generation>>
                 asked(auto) == [Clicked(auto) EXCEPT !.prep = identity]
      <4>1. PICK auto \in BOOLEAN :
              flow' = IF Busy(Live) THEN Interrupted(asked(auto))
                      ELSE Followed(asked(auto), task', last', identity)
        BY <3>2 DEF ClickPrepare
      <4>2. /\ task' \in Task \cup {None} /\ generation' \in Nat
            /\ last' \in [phase : {"idle", "completed", "blocked"}, manual : BOOLEAN]
        BY TimeAssumption DEF PrepInv, PrepTypeOK
      <4>3. task' # None => task'.generation \in Nat
        BY <4>2 DEF Task, Generation
      <4>4. identity \in BOOLEAN \X Nat
        BY <4>2, <4>3
      <4> HIDE DEF identity
      <4>5. /\ asked(auto) \in Flow /\ asked(auto).id = click /\ ~asked(auto).started
            /\ asked(auto).phase = "preparing"
        BY <3>2, <4>4, ClickedEffect DEF ClickPrepare, Flow
      <4> HIDE DEF asked
      <4>6. CASE Busy(Live)
        BY <4>1, <4>5, <4>6 DEF Interrupted, Flow
      <4>7. CASE ~Busy(Live)
        BY <4>1, <4>2, <4>5, <4>7, FollowedEffect
      <4>8. QED
        BY <4>6, <4>7
    <3>3. QED
      BY <1>3, <3>1, <3>2
  <2> HIDE DEF click
  <2>3. Stages' = [Stages EXCEPT ![click] = StageOf(flow')]
    BY <1>0, <2>1, <2>2, StageMoves DEF click
  <2>4. StageOf(flow') \in {"over", "asked"} /\ IsNext(click)
    BY <2>1, <2>2, StageNow DEF StageOf, IsNext, click
  <2>5. Permitted' \in {Permitted, Permitted \cup {click}}
    BY <1>3, <2>2 DEF ClickInVain, ClickPrepare, PreparedBy, Permitted
  <2>6. UNCHANGED Working
    BY <2>1 DEF Working
  <2>7. QED
    BY <2>1, <2>3, <2>4, <2>5, <2>6, PromiseMoves
<1>4. ASSUME Transition \/ \E id : ContinueImport(id)
      PROVE  [Promise!Next]_<<[i \in 1..MaxClicks |-> Stage(i)], consented \cup prepared,
                              batch.phase = "running">>
  <2>1. /\ StartImport(flow, authorization) /\ prepared' = prepared
        /\ flow.phase \in Waiting /\ Active(flow)
        /\ \/ flow.phase = "transition" /\ consented' = consented
           \/ consented' = consented \cup {flow.id}
    BY <1>4 DEF Transition, ContinueImport, Continuable, CanContinue, Waiting, Active, ActivePhase
  <2>2. ~flow.started /\ ~batch.alive /\ ~Working /\ flow.id \in 1..MaxClicks
    BY <1>0, <2>1 DEF StageInv, BatchInv, Working
  <2>3. flow.id \in Permitted' /\ Permitted' \in {Permitted, Permitted \cup {flow.id}}
    BY <1>0, <2>1 DEF StageInv, Permitted
  <2>4. CASE authorization
    <3>1. Launched(flow)
      BY <1>0, <2>1, <2>2, <2>4, StartImportEffect DEF BatchInv
    <3>2. QED
      BY <2>1, <2>2, <2>3, <3>1, PromiseLaunch
  <2>5. CASE ~authorization
    <3>1. flow' = flow /\ UNCHANGED batch
      BY <1>0, <2>1, <2>2, <2>5, StartImportEffect DEF BatchInv
    <3>2. UNCHANGED <<Stages, Working>> /\ Stages[flow.id] = "asked"
      BY <2>1, <2>2, <3>1, StageStays, StageNow DEF Working, StageOf
    <3>3. QED
      BY <2>2, <2>3, <3>2, PromiseStays
  <2>6. QED
    BY <2>4, <2>5
<1>5. CASE FollowImport
  <2>1. flow' = Finished(flow, batch.phase) /\ UNCHANGED <<batch, consented, prepared>>
        /\ Active(flow) /\ flow.started
    BY <1>0, <1>5 DEF FollowImport, Active, ActivePhase, StageInv
  <2>2. CASE Working
    BY <1>0, <1>1, <2>1, <2>2, FinishedEffect DEF Working
  <2>3. CASE ~Working
    <3>1. flow'.id = flow.id /\ ~Active(flow') /\ flow.id \in 1..MaxClicks
      BY <1>0, <2>1, <2>3, FinishedEffect DEF Working, StageInv, Active, ActivePhase
    <3>2. Stages' = [Stages EXCEPT ![flow.id] = "over"] /\ Stages[flow.id] = "importing"
      BY <1>0, <2>1, <3>1, StageMoves, StageNow DEF StageOf
    <3>3. Promise!End(flow.id)
      BY <2>1, <2>3, <3>2 DEF Promise!End, Stages, Working
    <3>4. QED
      BY <3>1, <3>3 DEF Promise!Next, Promise!Click
  <2>4. QED
    BY <2>2, <2>3
<1>6. CASE FollowPreparation
  <2>1. /\ flow.phase \in {"preparing", "waiting_for_user"} /\ Active(flow)
        /\ flow' = Followed(flow, task', last', PrepIdentity(task')) /\ UNCHANGED <<batch, consented>>
        /\ prepared' = PreparedBy(flow')
    BY <1>6 DEF FollowPreparation, Snapshot, Becomes, Active, ActivePhase, PrepIdentity
  <2>2. flow'.id = flow.id /\ flow'.started = flow.started /\ flow.id \in 1..MaxClicks /\ ~flow.started
    <3>1. /\ task' \in Task \cup {None}
          /\ last' \in [phase : {"idle", "completed", "blocked"}, manual : BOOLEAN]
      BY DEF PrepInv, PrepTypeOK
    <3>2. QED
      BY <1>0, <2>1, <3>1, FollowedEffect DEF StageInv, Waiting
  <2>3. /\ UNCHANGED Working /\ Permitted' \in {Permitted, Permitted \cup {flow.id}}
    BY <2>1, <2>2 DEF PreparedBy, Permitted, Working
  <2>4. Stages[flow.id] = "asked"
    BY <2>1, <2>2, StageNow DEF StageOf
  <2>5. CASE Active(flow')
    BY <2>1, <2>2, <2>3, <2>4, <2>5, StageStays, PromiseStays
  <2>6. CASE ~Active(flow')
    <3>1. Stages' = [Stages EXCEPT ![flow.id] = "over"]
      BY <1>0, <2>2, <2>6, StageMoves DEF StageOf
    <3>2. QED
      BY <2>2, <2>3, <2>4, <3>1, PromiseMoves
  <2>7. QED
    BY <2>5, <2>6
<1>7. ASSUME NEW id, CancelPreparing(id)
      PROVE  Promise!Next
  <2>1. /\ Active(flow) /\ ~flow.started /\ flow' = Interrupted(flow) /\ flow.id \in 1..MaxClicks
        /\ UNCHANGED <<batch, consented, prepared>>
    BY <1>0, <1>7 DEF CancelPreparing, CanCancel, StageInv
  <2>2. flow'.id = flow.id /\ ~Active(flow')
    BY <1>0, <2>1, InterruptedEffect
  <2>3. Stages' = [Stages EXCEPT ![flow.id] = "over"] /\ Stages[flow.id] = "asked"
    BY <1>0, <2>1, <2>2, StageMoves, StageNow DEF StageOf
  <2>4. UNCHANGED <<Working, Permitted>>
    BY <2>1 DEF Working, Permitted
  <2>5. QED
    BY <2>1, <2>3, <2>4, PromiseMoves
<1>8. ASSUME UNCHANGED <<batch, consented, prepared>>, flow'.id = flow.id, flow'.started = flow.started,
             Active(flow') <=> Active(flow)
      PROVE  [Promise!Next]_<<[i \in 1..MaxClicks |-> Stage(i)], consented \cup prepared,
                              batch.phase = "running">>
  BY <1>8, StageStays, PromiseStays DEF Working, Permitted
<1>9. ASSUME NEW id, CancelImporting(id)
      PROVE  [Promise!Next]_<<[i \in 1..MaxClicks |-> Stage(i)], consented \cup prepared,
                              batch.phase = "running">>
  <2>1. /\ flow' = [flow EXCEPT !.phase = "stopping", !.due = None] /\ flow.started /\ Active(flow)
        /\ UNCHANGED <<batch, consented, prepared>>
    BY <1>9 DEF CancelImporting, CanCancel
  <2>2. flow'.id = flow.id /\ flow'.started = flow.started /\ Active(flow')
    BY <1>0, <2>1 DEF Flow, Active, ActivePhase
  <2>3. QED
    BY <1>8, <2>1, <2>2
<1>10. CASE FlowTime
  <2>1. flow'.id = flow.id /\ flow'.started = flow.started /\ flow'.phase = flow.phase
    BY <1>0, <1>10 DEF FlowTime, Flow
  <2>2. QED
    BY <1>8, <1>10, <2>1 DEF FlowTime, Active
<1>11. CASE BatchEnds
  <2>1. PICK p \in BatchPhase : batch' = [batch EXCEPT !.phase = p] /\ p # "running"
    BY <1>11 DEF BatchEnds, BatchPhase
  <2>2. UNCHANGED <<Stages, consented, prepared>> /\ Working /\ ~Working'
    BY <1>0, <1>11, <2>1, StageStays DEF BatchEnds, Working
  <2>3. Promise!WorkEnds
    BY <2>2 DEF Promise!WorkEnds, Stages, Working
  <2>4. QED
    BY <2>3 DEF Promise!Next
<1>12. CASE BatchExits
  <2>1. UNCHANGED <<flow, consented, prepared>> /\ batch'.phase = batch.phase
    BY <1>0, <1>12 DEF BatchExits
  <2>2. UNCHANGED <<Stages, Working, Permitted>>
    BY <2>1, StageStays DEF Working, Permitted
  <2>3. QED
    BY <2>2, PromiseStays
<1>13. CASE FlowRestart
  <2>1. /\ flow'.id = flow.id /\ flow'.phase = "idle" /\ UNCHANGED <<consented, prepared>>
        /\ batch' = [phase |-> "idle", alive |-> FALSE]
    BY <1>0, <1>13 DEF FlowRestart, Flow
  <2>2. \A i \in 1..MaxClicks : Stage(i)' = IF Stage(i) = "none" THEN "none" ELSE "over"
    BY <2>1 DEF Stage, Active, ActivePhase
  <2>3. Promise!Crash
    BY <2>1, <2>2 DEF Promise!Crash, Promise!Click
  <2>4. QED
    BY <2>3 DEF Promise!Next
<1>14. CASE WorkerTick
  <2>1. CASE WorkerReturns
    BY <1>1, <2>1 DEF WorkerReturns
  <2>2. QED
    BY <1>4, <1>5, <1>6, <1>14, <2>1 DEF WorkerTick
<1>15. CASE OthersAct \/ UNCHANGED keptVars
  BY <1>1, <1>15 DEF OthersAct, flowVars, keptVars
<1>16. QED
  BY <1>2, <1>3, <1>4, <1>7, <1>9, <1>10, <1>11, <1>12, <1>13, <1>14, <1>15 DEF KeptNext, UserActs

\* The workflow keeps what a click promises: at most one Import, never without
\* permission, never beside another, and none once the click was ended.
THEOREM ClickIsKept == KeptSpec => ImplementsPromise
<1>1. FlowInit => Promise!Init
  <2> SUFFICES ASSUME FlowInit PROVE Promise!Init
    OBVIOUS
  <2>1. \A i \in 1..MaxClicks : Stage(i) = "none"
    BY FlowAssumption DEF FlowInit, Stage
  <2>2. QED
    BY <2>1 DEF FlowInit, Promise!Init, Promise!Click
<1>2. PrepInv /\ FlowInv /\ (PrepInv /\ FlowInv)' /\ [KeptNext]_keptVars =>
        [Promise!Next]_<<[i \in 1..MaxClicks |-> Stage(i)], consented \cup prepared,
                         batch.phase = "running">>
  BY PromiseStep
<1>3. QED
  BY <1>1, <1>2, KeptInvariant, PTL DEF KeptSpec, ImplementsPromise, Promise!Spec
=============================================================================
