----------------------------- MODULE FanoutProofs -----------------------------
(* Theorems about Fanout for any names, versions, manifests, roots and bounds. *)
EXTENDS Fanout, FiniteSetTheorems, TLAPS

LEMMA FirstSlot == 1 \in Slots /\ Slots \subseteq Nat
BY KeepAssumption DEF Slots

LEMMA NoRunType == NoRun \in Run
BY DEF NoRun, Run, NotDone, Done, Actions, NOOP_ACTIONS, LINKING, COPYING, REMOVING,
       Contents, Content, Nowhere, Entry

LEMMA NoJobType == NoJob \in Job
BY FirstSlot DEF NoJob, Job, Phases, Actions, Contents, Content

\* The planner gives every entry one of the actions.
LEMMA PlanType ==
    ASSUME TypeOK, NEW n \in Names
    PROVE  PlanOf(n) \in Actions /\ ItemHash(n) \in Content
<1>1. tool[n] \in Entry /\ canonical[n] \in Content
  BY DEF TypeOK, Contents
<1>2. tool[n].kind \in LinkKinds \cup {"none", "dir"} /\ tool[n].hash \in Content
  BY <1>1 DEF Entry
<1>3. PlanDirectory(n) \in Actions
  BY DEF PlanDirectory, Actions, NOOP_ACTIONS, LINKING, COPYING
<1>4. ASSUME tool[n].kind \in LinkKinds PROVE PlanLink(n) \in Actions
  BY <1>4 DEF PlanLink, LinkKinds, Actions, NOOP_ACTIONS, LINKING, COPYING
<1>5. PlanEntry(n) \in Actions
  BY <1>2, <1>3, <1>4 DEF PlanEntry, Actions, LINKING, COPYING
<1>6. Removal(n) \in Actions
  BY DEF Removal, Actions, REMOVING, NOOP_ACTIONS
<1> QED
  BY <1>1, <1>2, <1>5, <1>6 DEF PlanOf, ItemHash

\* Pruning takes backups away and nothing else.
LEMMA PrunedKeeps ==
    ASSUME NEW runs \in [Slots -> Run]
    PROVE  /\ Pruned(runs) \in [Slots -> Run]
           /\ \A i \in Slots :
                 /\ Pruned(runs)[i].done = runs[i].done
                 /\ Pruned(runs)[i].before = runs[i].before
                 /\ Pruned(runs)[i].backup \in {runs[i].backup, NoRun.backup}
<1>1. ASSUME NEW run \in Run
      PROVE  LET less == [run EXCEPT !.stored = FALSE, !.backup = NoRun.backup] IN
             /\ less \in Run /\ less.done = run.done /\ less.before = run.before
             /\ less.backup = NoRun.backup
  <2>1. NoRun.backup \in [Names -> Entry]
    BY NoRunType DEF Run
  <2> QED
    BY <2>1 DEF Run
<1>2. ASSUME NEW i \in Slots
      PROVE  Pruned(runs)[i] \in {runs[i], [runs[i] EXCEPT !.stored = FALSE,
                                                         !.backup = NoRun.backup]}
  BY <1>2 DEF Pruned
<1> QED
  BY <1>1, <1>2 DEF Pruned

\* What finishing an item does to the job and to the record of the run.
LEMMA Finished ==
    ASSUME TypeOK, NEW n \in Names, NEW held \in Content, NEW backup \in BOOLEAN,
           NEW link \in LinkKinds \cup {"none"}, NEW was \in Entry,
           Finish(n, held, backup, link, was)
    PROVE  /\ job' \in Job /\ log' \in [Slots -> Run]
           /\ job'.phase = "running" /\ job'.todo = job.todo \ {n}
           /\ job'.plan = job.plan /\ job'.hash = job.hash
           /\ job'.held = [job.held EXCEPT ![n] = held]
           /\ log'[1].before = log[1].before
           /\ log'[1].done = [log[1].done EXCEPT ![n] =
                 [action |-> job.plan[n], hash |-> job.hash[n],
                  backup |-> backup, link |-> link, was |-> was]]
           /\ log'[1].backup = [log[1].backup EXCEPT ![n] = IF backup THEN was ELSE @]
<1> DEFINE done == [action |-> job.plan[n], hash |-> job.hash[n],
                    backup |-> backup, link |-> link, was |-> was]
           run == [log[1] EXCEPT !.done[n] = done,
                                 !.backup[n] = IF backup THEN was ELSE @,
                                 !.stored = @ \/ backup]
<1>1. job \in Job /\ log \in [Slots -> Run] /\ log[1] \in Run /\ 1 \in Slots
  BY FirstSlot DEF TypeOK
<1>2. done \in Done
  BY <1>1 DEF Job, Done, Contents
<1>3. log' = [log EXCEPT ![1] = run]
  BY <1>1 DEF Finish
<1>4. /\ run \in Run /\ run.before = log[1].before
      /\ run.done = [log[1].done EXCEPT ![n] = done]
      /\ run.backup = [log[1].backup EXCEPT ![n] = IF backup THEN was ELSE @]
  BY <1>1, <1>2 DEF Run
<1>5. log' \in [Slots -> Run] /\ log'[1] = run
  BY <1>1, <1>3, <1>4
<1>6. /\ job' \in Job
      /\ job'.phase = "running" /\ job'.todo = job.todo \ {n}
      /\ job'.plan = job.plan /\ job'.hash = job.hash
      /\ job'.held = [job.held EXCEPT ![n] = held]
  BY <1>1 DEF Finish, Job, Phases, Contents, Content
<1> QED
  BY <1>4, <1>5, <1>6

\* An item that fails only leaves the list.
LEMMA Refused ==
    ASSUME TypeOK, NEW n \in Names, Refuse(n)
    PROVE  /\ job' \in Job /\ UNCHANGED <<tool, log>>
           /\ job'.todo = job.todo \ {n} /\ job'.phase = job.phase
           /\ job'.plan = job.plan /\ job'.hash = job.hash /\ job'.held = job.held
           /\ job'.item = job.item /\ job'.copied = job.copied
BY DEF Refuse, TypeOK, Job

\* What the step of an item other than a replacement leaves behind.
LEMMA ItemType ==
    ASSUME TypeInv, NEW n \in Names, job.phase = "running",
           UNCHANGED Unrecorded,
           \/ Refuse(n)
           \/ \E held \in Content, backup \in BOOLEAN, link \in LinkKinds \cup {"none"},
                 entry \in Entry :
                 Finish(n, held, backup, link, tool[n]) /\ Set(n, entry)
    PROVE  TypeInv'
<1> USE DEF TypeInv, Unrecorded
<1>1. CASE Refuse(n)
  BY <1>1, Refused DEF TypeOK, PlacingOne
<1>2. ASSUME NEW held \in Content, NEW backup \in BOOLEAN,
             NEW link \in LinkKinds \cup {"none"}, NEW entry \in Entry,
             Finish(n, held, backup, link, tool[n]), Set(n, entry)
      PROVE  TypeInv'
  <2>1. tool[n] \in Entry /\ tool' \in [Names -> Entry]
    BY <1>2 DEF Set, TypeOK
  <2>2. job' \in Job /\ log' \in [Slots -> Run] /\ job'.phase = "running"
    BY <1>2, <2>1, Finished
  <2> QED
    BY <2>1, <2>2 DEF TypeOK, PlacingOne
<1> QED
  BY <1>1, <1>2

LEMMA EntryTypes ==
    /\ Nowhere \in Entry
    /\ \A kind \in LinkKinds : Link(kind) \in Entry
    /\ \A version \in Content, own \in BOOLEAN : Dir(version, own) \in Entry
BY DEF Nowhere, Link, Dir, Entry, Content

LEMMA TypeInvInit == Init => TypeInv
<1> SUFFICES ASSUME Init PROVE TypeInv
  OBVIOUS
<1>1. job = NoJob /\ NoJob \in Job /\ job.phase = "idle"
  BY NoJobType DEF Init, NoJob
<1>2. log \in [Slots -> Run]
  BY NoRunType DEF Init
<1>3. sched \in Scheduler
  BY DEF Init, NewScheduler, Scheduler, Contents, Content
<1>4. ledger \in Contents
  BY DEF Init, Contents, Content
<1>5. /\ mode \in {"link", "copy"} /\ tool \in [Names -> Entry]
      /\ counts \in [Counted -> Nat] /\ touched \subseteq Names /\ removed \subseteq Names
  BY ToolAssumption DEF Init
<1> QED
  BY <1>1, <1>2, <1>3, <1>4, <1>5 DEF Init, TypeInv, TypeOK, PlacingOne

\* The steps of items that are done in one.
LEMMA ItemTypes ==
    ASSUME TypeInv, NEW n \in Names, Item(n), ~ TakeAway(n)
    PROVE  TypeInv'
<1> USE DEF TypeInv
<1>0. /\ tool[n] \in Entry /\ tool[n].kind \in LinkKinds \cup {"none", "dir"}
      /\ job.held[n] \in Content /\ job.hash[n] \in Content /\ canonical[n] \in Content
      /\ Absent \in Content /\ Link("ours") \in Entry /\ Nowhere \in Entry
      /\ tool = [tool EXCEPT ![n] = tool[n]]
  BY EntryTypes DEF TypeOK, Entry, Job, Contents, Content, LinkKinds
<1>1. CASE ExecuteLink(n)
  BY <1>0, <1>1, ItemType DEF ExecuteLink, Todo
<1>2. CASE ExecuteRelink(n)
  BY <1>0, <1>2, ItemType DEF ExecuteRelink, Todo
<1>3. CASE ExecuteRemoveLink(n)
  BY <1>0, <1>3, ItemType DEF ExecuteRemoveLink, Todo
<1>4. CASE ExecuteCopy(n)
  <2>1. Dir(canonical[n], TRUE) \in Entry
    BY <1>0, EntryTypes
  <2> QED
    BY <1>0, <1>4, <2>1, ItemType DEF ExecuteCopy, Todo
<1>5. CASE ExecuteAdopt(n)
  <2>1. Set(n, tool[n])
    BY <1>0, <1>5 DEF ExecuteAdopt, Set
  <2> QED
    BY <1>0, <1>5, <2>1, ItemType DEF ExecuteAdopt, Todo
<1>6. CASE ExecuteRemoveCopy(n)
  BY <1>0, <1>6, ItemType DEF ExecuteRemoveCopy, Todo
<1> QED
  BY <1>1, <1>2, <1>3, <1>4, <1>5, <1>6 DEF Item

\* What taking an entry away does to the job and to the record of the run.
LEMMA TakenAway ==
    ASSUME TypeOK, NEW n \in Names, Take(n)
    PROVE  /\ job' \in Job /\ log' \in [Slots -> Run]
           /\ job'.phase = "placing" /\ job'.item = n /\ job'.copied = canonical[n]
           /\ job'.todo = job.todo /\ job'.plan = job.plan /\ job'.hash = job.hash
           /\ job'.held = job.held
           /\ log'[1].before = log[1].before
           /\ log'[1].done = [log[1].done EXCEPT ![n] = [@ EXCEPT !.was = tool[n]]]
           /\ log'[1].backup \in {log[1].backup, [log[1].backup EXCEPT ![n] = tool[n]]}
<1> DEFINE unlinked == [log[1] EXCEPT !.done[n].was = tool[n]]
           moved == [log[1] EXCEPT !.done[n].was = tool[n],
                                   !.backup[n] = tool[n], !.stored = TRUE]
<1>1. /\ job \in Job /\ log \in [Slots -> Run] /\ log[1] \in Run /\ 1 \in Slots
      /\ tool[n] \in Entry /\ canonical[n] \in Content
  BY FirstSlot DEF TypeOK, Contents
<1>2. log' = [log EXCEPT ![1] = unlinked] \/ log' = [log EXCEPT ![1] = moved]
  <2>1. log' = [log EXCEPT ![1] = IF job.plan[n] = "replace_link_with_copy"
                                  THEN unlinked ELSE moved]
    BY DEF Take
  <2> HIDE DEF unlinked, moved
  <2> QED
    BY <2>1
<1>3. [log[1].done[n] EXCEPT !.was = tool[n]] \in Done
  <2>1. log[1].done[n] \in Done /\ tool[n] \in Entry
    BY <1>1 DEF Run
  <2> QED
    BY <2>1 DEF Done
<1>4. /\ unlinked \in Run /\ unlinked.before = log[1].before
      /\ unlinked.done = [log[1].done EXCEPT ![n] = [@ EXCEPT !.was = tool[n]]]
      /\ unlinked.backup = log[1].backup
  BY <1>1, <1>3 DEF Run
<1>5. /\ moved \in Run /\ moved.before = log[1].before
      /\ moved.done = [log[1].done EXCEPT ![n] = [@ EXCEPT !.was = tool[n]]]
      /\ moved.backup = [log[1].backup EXCEPT ![n] = tool[n]]
  BY <1>1, <1>3 DEF Run
<1>6. log' \in [Slots -> Run] /\ log'[1] \in {unlinked, moved}
  BY <1>1, <1>2, <1>4, <1>5
<1>7. /\ job' \in Job
      /\ job'.phase = "placing" /\ job'.item = n /\ job'.copied = canonical[n]
      /\ job'.todo = job.todo /\ job'.plan = job.plan /\ job'.hash = job.hash
      /\ job'.held = job.held
  BY <1>1 DEF Take, Job, Phases
<1> QED
  BY <1>4, <1>5, <1>6, <1>7

\* A replaced entry is known to the record until the second step.
LEMMA TakeAwayType ==
    ASSUME TypeInv, NEW n \in Names, TakeAway(n)
    PROVE  TypeInv'
<1> USE DEF TypeInv, Unrecorded
<1>1. CASE Refuse(n)
  BY <1>1, Refused DEF TakeAway, TypeOK, PlacingOne
<1>2. CASE Replaceable(n) /\ Take(n) /\ Set(n, Nowhere)
  <2>1. tool' \in [Names -> Entry]
    BY <1>2, EntryTypes DEF Set, TypeOK
  <2>2. /\ job' \in Job /\ log' \in [Slots -> Run]
        /\ job'.item = n /\ job'.todo = job.todo /\ job'.plan = job.plan
        /\ log'[1].done = [log[1].done EXCEPT ![n] = [@ EXCEPT !.was = tool[n]]]
    BY <1>2, TakenAway
  <2>3. log'[1].done[n].was = tool[n]
    <3>1. log[1].done \in [Names -> Done]
      BY FirstSlot DEF TypeOK, Run
    <3> QED
      BY <2>2, <3>1 DEF Done
  <2>4. PlacingOne'
    BY <1>2, <2>2, <2>3 DEF PlacingOne, Taken, TakeAway, Replaceable
  <2> QED
    BY <2>1, <2>2, <2>4 DEF TakeAway, TypeOK
<1> QED
  BY <1>1, <1>2 DEF TakeAway

LEMMA PlacedType ==
    ASSUME TypeInv, PutInPlace
    PROVE  /\ TypeInv'
           /\ LET n == job.item
                  linked == job.plan[n] = "replace_link_with_copy" IN
              /\ n \in Names /\ Taken \in Entry
              /\ Recorded(n) \in Content
              /\ (IF linked THEN Taken.kind ELSE "none") \in LinkKinds \cup {"none"}
<1> USE DEF TypeInv, Unrecorded
<1> DEFINE n == job.item
           linked == job.plan[n] = "replace_link_with_copy"
           link == IF linked THEN Taken.kind ELSE "none"
           entry == IF job.plan[n] \in COPYING THEN Dir(job.copied, TRUE) ELSE Link("ours")
<1>1. n \in Names /\ n \in job.todo
  BY DEF PutInPlace, PlacingOne, TypeOK, Job
<1>2. Taken \in Entry
  BY <1>1, FirstSlot DEF Taken, TypeOK, Run, Done
<1>3. Recorded(n) \in Content /\ job.copied \in Content
  BY <1>1 DEF Recorded, TypeOK, Job, Contents
<1>4. link \in LinkKinds \cup {"none"}
  BY DEF PutInPlace, PlacingOne
<1>5. entry \in Entry
  BY <1>3, EntryTypes DEF LinkKinds
<1>6. Finish(n, Recorded(n), ~ linked, link, Taken) /\ Set(n, entry)
  BY DEF PutInPlace
<1>7. job' \in Job /\ log' \in [Slots -> Run] /\ job'.phase = "running"
  <2>1. (~ linked) \in BOOLEAN
    OBVIOUS
  <2> HIDE DEF link, linked, n
  <2> QED
    BY <1>1, <1>2, <1>3, <1>4, <1>6, <2>1, Finished
<1>8. tool' \in [Names -> Entry]
  BY <1>5, <1>6 DEF Set, TypeOK
<1>9. TypeInv'
  BY <1>7, <1>8 DEF PutInPlace, TypeOK, PlacingOne
<1> QED
  BY <1>1, <1>2, <1>3, <1>4, <1>9

\* What is left of the bounds.
LEMMA CountType ==
    ASSUME TypeOK, NEW c \in Counted, Count(c)
    PROVE  /\ counts' \in [Counted -> Nat] /\ counts[c] > 0
           /\ \A k \in Counted \ {c} : counts'[k] = counts[k]
<1>1. counts \in [Counted -> Nat] /\ counts[c] \in Nat /\ counts[c] > 0
  BY DEF TypeOK, Count
<1>2. counts[c] - 1 \in Nat
  BY <1>1
<1>3. counts' = [counts EXCEPT ![c] = counts[c] - 1]
  BY DEF Count
<1> QED
  BY <1>1, <1>2, <1>3

\* What putting an entry back leaves of the record of the run.
LEMMA PuttingBack ==
    ASSUME TypeInv, PutBack
    PROVE  /\ TypeInv' /\ job.item \in Names /\ Taken \in Entry
           /\ job'.phase = "running" /\ job'.todo = job.todo \ {job.item}
           /\ job'.plan = job.plan /\ job'.hash = job.hash /\ job'.held = job.held
           /\ log'[1].before = log[1].before
           /\ log'[1].done = [log[1].done EXCEPT ![job.item] = NotDone]
           /\ log'[1].backup = [log[1].backup EXCEPT ![job.item] = Nowhere]
<1> USE DEF TypeInv
<1> DEFINE n == job.item
           run == [log[1] EXCEPT !.done[n] = NotDone, !.backup[n] = Nowhere]
<1>1. n \in Names /\ job \in Job /\ log \in [Slots -> Run] /\ 1 \in Slots /\ log[1] \in Run
  BY FirstSlot DEF PutBack, PlacingOne, TypeOK, Job
<1>2. Taken \in Entry
  BY <1>1 DEF Taken, Run, Done
<1>3. log' = [log EXCEPT ![1] = run]
  BY <1>1 DEF PutBack
<1>4. NotDone \in Done /\ Nowhere \in Entry
  BY EntryTypes DEF NotDone, Done, Actions, Content
<1>5. /\ run \in Run /\ run.before = log[1].before
      /\ run.done = [log[1].done EXCEPT ![n] = NotDone]
      /\ run.backup = [log[1].backup EXCEPT ![n] = Nowhere]
  BY <1>1, <1>4 DEF Run
<1>6. log' \in [Slots -> Run] /\ log'[1] = run
  BY <1>1, <1>3, <1>5
<1>7. /\ job' \in Job /\ job'.phase = "running" /\ job'.todo = job.todo \ {n}
      /\ job'.plan = job.plan /\ job'.hash = job.hash /\ job'.held = job.held
  <2>1. job' = [job EXCEPT !.phase = "running", !.todo = @ \ {n}, !.item = NoName,
                           !.copied = Absent, !.failed = TRUE]
    BY DEF PutBack
  <2>2. "running" \in Phases /\ Absent \in Content
    BY DEF Phases, Content
  <2> HIDE DEF n
  <2> QED
    BY <1>1, <2>1, <2>2 DEF Job
<1>8. tool' \in [Names -> Entry] /\ counts' \in [Counted -> Nat]
  BY <1>2, CountType DEF PutBack, Set, TypeOK, Counted
<1> QED
  BY <1>1, <1>2, <1>5, <1>6, <1>7, <1>8 DEF PutBack, TypeOK, PlacingOne

\* What a run starts with.
LEMMA Begun ==
    ASSUME TypeInv, NEW by \in {"daemon", "operator"}, Begin(by)
    PROVE  /\ job' \in Job /\ log' \in [Slots -> Run]
           /\ job'.phase = "running" /\ job'.held = ledger
           /\ job'.plan = [n \in Names |-> PlanOf(n)]
           /\ job'.hash = [n \in Names |-> ItemHash(n)]
           /\ log'[1] = [NoRun EXCEPT !.before = ledger]
           /\ log'[1].before = ledger
           /\ log'[1].backup = NoRun.backup /\ log'[1].done = NoRun.done
<1> USE DEF TypeInv
<1> DEFINE run == [NoRun EXCEPT !.before = ledger]
<1>1. /\ run \in Run /\ run.before = ledger
      /\ run.backup = NoRun.backup /\ run.done = NoRun.done
  BY NoRunType DEF TypeOK, Run
<1>2. /\ [n \in Names |-> PlanOf(n)] \in [Names -> Actions]
      /\ [n \in Names |-> ItemHash(n)] \in Contents
  BY PlanType DEF Contents
<1>3. /\ job' \in Job /\ job'.phase = "running" /\ job'.held = ledger
      /\ job'.plan = [n \in Names |-> PlanOf(n)]
      /\ job'.hash = [n \in Names |-> ItemHash(n)]
  BY <1>2, NoJobType DEF Begin, TypeOK, Job, Phases
<1>4. log' = [i \in Slots |-> IF i = 1 THEN run ELSE log[i - 1]]
  BY DEF Begin, Shifted
<1>5. ASSUME NEW i \in Slots, i # 1 PROVE i - 1 \in Slots
  BY <1>5, KeepAssumption DEF Slots
<1>6. log' \in [Slots -> Run] /\ log'[1] = run
  BY <1>1, <1>4, <1>5, FirstSlot DEF TypeOK
<1> QED
  BY <1>1, <1>3, <1>6

\* Undoing an item touches the skipped entry's line, or the backup it used.
LEMMA Undone ==
    ASSUME TypeInv, NEW n \in Names, Undo(n)
    PROVE  /\ TypeInv'
           /\ job'.todo = job.todo \ {n} /\ job'.phase = "rolling"
           /\ job'.slot = job.slot
           /\ \A i \in Slots :
                 /\ log'[i].before = log[i].before /\ log'[i].done = log[i].done
                 /\ log'[i].backup \in {log[i].backup,
                                        [log[i].backup EXCEPT ![n] = Nowhere]}
<1> USE DEF TypeInv, Unrecorded
<1> DEFINE slot == job.slot
           done == log[slot].done[n]
           kept == log[slot].backup[n]
           left == IF done.action \in LINKING \cup COPYING THEN Nowhere ELSE tool[n]
           run == [log[slot] EXCEPT !.backup[n] = Nowhere]
<1>1. /\ job \in Job /\ slot \in Slots /\ log \in [Slots -> Run] /\ log[slot] \in Run
      /\ done \in Done /\ kept \in Entry /\ tool[n] \in Entry
  BY DEF TypeOK, Job, Run
<1>2. run \in Run /\ run.before = log[slot].before /\ run.done = log[slot].done
      /\ run.backup = [log[slot].backup EXCEPT ![n] = Nowhere]
  BY <1>1, EntryTypes DEF Run
<1>3. log' = log \/ log' = [log EXCEPT ![slot] = run]
  BY <1>1 DEF Undo
<1>4. log' \in [Slots -> Run]
  BY <1>1, <1>2, <1>3
<1>5. ASSUME NEW i \in Slots
      PROVE  /\ log'[i].before = log[i].before /\ log'[i].done = log[i].done
             /\ log'[i].backup \in {log[i].backup, [log[i].backup EXCEPT ![n] = Nowhere]}
  BY <1>1, <1>2, <1>3
<1>6. /\ job' \in Job /\ job'.todo = job.todo \ {n}
      /\ job'.phase = job.phase /\ job'.slot = job.slot
  <2>1. \/ job' = [job EXCEPT !.todo = @ \ {n}, !.undone = @ \cup {n}]
        \/ job' = [job EXCEPT !.todo = @ \ {n}]
    BY DEF Undo
  <2>2. CASE job' = [job EXCEPT !.todo = @ \ {n}, !.undone = @ \cup {n}]
    BY <1>1, <2>2 DEF Job
  <2>3. CASE job' = [job EXCEPT !.todo = @ \ {n}]
    BY <1>1, <2>3 DEF Job
  <2> QED
    BY <2>1, <2>2, <2>3
<1>7. tool' \in [Names -> Entry]
  <2>1. done.link # "none" => Link(done.link) \in Entry
    BY <1>1, EntryTypes DEF Done
  <2>2. left \in Entry
    BY <1>1, EntryTypes
  <2>3. tool' = tool \/ \E entry \in Entry : tool' = [tool EXCEPT ![n] = entry]
    BY <1>1, <2>1, <2>2 DEF Undo, Set
  <2> QED
    BY <2>3 DEF TypeOK
<1>8. job.phase = "rolling"
  BY DEF Undo
<1> QED
  BY <1>4, <1>5, <1>6, <1>7, <1>8 DEF Undo, TypeOK, PlacingOne

LEMMA TypeInvNext == TypeInv /\ [Next]_vars => TypeInv'
<1> SUFFICES ASSUME TypeInv, [Next]_vars PROVE TypeInv'
  OBVIOUS
<1> USE DEF TypeInv
<1>1. ASSUME NEW n \in Names, Item(n) PROVE TypeInv'
  BY <1>1, ItemTypes, TakeAwayType
<1>2. ASSUME NEW n \in Names, Undo(n) PROVE TypeInv'
  BY <1>2, Undone
<1>3. CASE PutInPlace
  BY <1>3, PlacedType
<1>4. CASE SaveLedger
  <2>1. job' \in Job /\ job'.phase = "saved"
    BY <1>4 DEF SaveLedger, TypeOK, Job, Phases
  <2>2. ledger' \in Contents
    BY <1>4 DEF SaveLedger, TypeOK, Job
  <2> QED
    BY <1>4, <2>1, <2>2 DEF SaveLedger, TypeOK, PlacingOne
<1>5. CASE Close
  <2>1. [log EXCEPT ![1].written = TRUE] \in [Slots -> Run]
    BY FirstSlot DEF TypeOK, Run
  <2>2. log' \in [Slots -> Run]
    BY <1>5, <2>1, PrunedKeeps DEF Close
  <2>3. sched' \in Scheduler
    BY <1>5 DEF Close, TypeOK, Scheduler, Job
  <2> QED
    BY <1>5, <2>2, <2>3, NoJobType DEF Close, TypeOK, PlacingOne, NoJob
<1>6. CASE RollBackEnds
  <2>1. ledger' \in Contents
    BY <1>6 DEF RollBackEnds, LedgerAfterRollback, TypeOK, Job, Run
  <2> QED
    BY <1>6, <2>1, NoJobType DEF RollBackEnds, TypeOK, PlacingOne, NoJob
<1>7. CASE MaybeRun
  <2>1. sched' \in Scheduler
    BY <1>7 DEF MaybeRun, TypeOK, Scheduler
  <2> QED
    BY <1>7, <2>1 DEF MaybeRun, TypeOK, PlacingOne, Taken
<1>8. CASE LockTimesOut
  <2>1. sched' \in Scheduler
    BY <1>8 DEF LockTimesOut, TypeOK, Scheduler
  <2>2. /\ log' \in [Slots -> Run]
        /\ log'[1].done = log[1].done
    BY <1>8, PrunedKeeps, FirstSlot DEF LockTimesOut, TypeOK
  <2> QED
    BY <1>8, <2>1, <2>2 DEF LockTimesOut, TypeOK, PlacingOne, Taken
<1>9. CASE DaemonRun
  <2>1. sched' \in Scheduler
    BY <1>9 DEF DaemonRun, TypeOK, Scheduler
  <2>2. job' \in Job /\ log' \in [Slots -> Run] /\ job'.phase = "running"
    BY <1>9, Begun DEF DaemonRun
  <2> QED
    BY <1>9, <2>1, <2>2 DEF DaemonRun, Begin, TypeOK, PlacingOne
<1>10. CASE OperatorRun
  <2>1. job' \in Job /\ log' \in [Slots -> Run] /\ job'.phase = "running"
    BY <1>10, Begun DEF OperatorRun
  <2> QED
    BY <1>10, <2>1, CountType DEF OperatorRun, Begin, TypeOK, PlacingOne, Counted
<1>11. CASE IntervalPasses
  <2>1. sched' \in Scheduler
    BY <1>11 DEF IntervalPasses, TypeOK, Scheduler
  <2> QED
    BY <1>11, <2>1 DEF IntervalPasses, TypeOK, PlacingOne, Taken
<1>12. ASSUME NEW i \in RollbackSlots, RollBack(i) PROVE TypeInv'
  <2>1. i \in Slots
    BY KeepAssumption DEF Slots
  <2>2. job' \in Job /\ job'.phase = "rolling"
    BY <1>12, <2>1, NoJobType DEF RollBack, Job, Phases
  <2> QED
    BY <1>12, <2>2, CountType DEF RollBack, TypeOK, PlacingOne, Counted
<1>13. CASE PutBack
  BY <1>13, PuttingBack
<1>14. CASE Crash
  <2>1. sched' \in Scheduler
    BY <1>14 DEF Crash, TypeOK, NewScheduler, Scheduler, Contents, Content
  <2>2. removed' \subseteq Names
    BY <1>14 DEF Crash, TypeOK, PlacingOne, Job
  <2>3. job' \in Job /\ job'.phase = "idle"
    BY <1>14, NoJobType DEF Crash, NoJob
  <2> QED
    BY <1>14, <2>1, <2>2, <2>3, CountType DEF Crash, TypeOK, PlacingOne, Counted
<1>15. ASSUME NEW n \in Names, NEW entry \in Entry, EditTool(n, entry) PROVE TypeInv'
  <2>1. tool' \in [Names -> Entry] /\ touched' \subseteq Names /\ removed' \subseteq Names
    BY <1>15 DEF EditTool, Set, TypeOK
  <2> QED
    BY <1>15, <2>1, CountType DEF EditTool, TypeOK, PlacingOne, Taken, Counted
<1>16. ASSUME NEW n \in Names, NEW c \in Content, EditCanonical(n, c) PROVE TypeInv'
  <2>1. canonical' \in Contents /\ removed' \subseteq Names
    BY <1>16 DEF EditCanonical, TypeOK, Contents
  <2> QED
    BY <1>16, <2>1, CountType DEF EditCanonical, TypeOK, PlacingOne, Taken, Counted
<1>17. CASE UNCHANGED vars
  BY <1>17 DEF vars, TypeOK, PlacingOne, Taken
<1>18. /\ \A v \in Versions : Dir(v, FALSE) \in Entry
       /\ Nowhere \in Entry /\ Link("foreign") \in Entry
  BY EntryTypes DEF Content, LinkKinds
<1> QED
  BY <1>1, <1>2, <1>3, <1>4, <1>5, <1>6, <1>7, <1>8, <1>9, <1>10, <1>11, <1>12,
     <1>13, <1>14, <1>15, <1>16, <1>17, <1>18
  DEF Next, Working, Scheduling, Environment

LEMMA TypeInvariance == Spec => []TypeInv
BY TypeInvInit, TypeInvNext, PTL DEF Spec

\* The ledger, the records, the scheduler and the tool's root keep their types
\* whatever is edited, rolled back, refused or cut short, and at any moment.
THEOREM FanoutTypeCorrect == Spec => []TypeOK
<1>1. TypeInv => TypeOK
  BY DEF TypeInv
<1> QED
  BY <1>1, TypeInvariance, PTL

-----------------------------------------------------------------------------
(* OwnCopiesRecorded *)

\* A copy is planned only for a tool that gets copies, and with the hash of the
\* canonical version; what the ledger knows is not adopted.
LEMMA CopiesPlanned ==
    ASSUME TypeOK, NEW n \in Names
    PROVE  /\ PlanOf(n) \in COPYING => mode = "copy" /\ ItemHash(n) = canonical[n]
           /\ PlanOf(n) = "adopt" => tool[n].kind = "dir" /\ ledger[n] # tool[n].hash
<1>1. mode \in {"link", "copy"} /\ tool[n].kind \in LinkKinds \cup {"none", "dir"}
  BY DEF TypeOK, Entry
<1>2. /\ PlanDirectory(n) \in COPYING => mode = "copy"
      /\ PlanDirectory(n) = "adopt" => ledger[n] # tool[n].hash
  BY <1>1 DEF PlanDirectory, COPYING
<1>3. ASSUME tool[n].kind \in LinkKinds
      PROVE  (PlanLink(n) \in COPYING => mode = "copy") /\ PlanLink(n) # "adopt"
  BY <1>1, <1>3 DEF PlanLink, COPYING, LinkKinds
<1>4. /\ PlanEntry(n) \in COPYING => mode = "copy"
      /\ PlanEntry(n) = "adopt" => tool[n].kind = "dir" /\ ledger[n] # tool[n].hash
  BY <1>1, <1>2, <1>3 DEF PlanEntry, COPYING
<1>5. Removal(n) \notin COPYING /\ Removal(n) # "adopt"
  BY DEF Removal, COPYING
<1>6. "adopt" \notin COPYING
  BY DEF COPYING
<1> QED
  BY <1>4, <1>5, <1>6 DEF PlanOf, ItemHash

LEMMA OwnInvInit ==
    ASSUME Undisturbed, Init
    PROVE  OwnInv
<1>1. TypeInv
  BY TypeInvInit
<1>2. mode = "copy" => counts["crashes"] = 0
  BY DEF Init, Undisturbed
<1>3. \A n \in Names : ~ tool[n].own
  BY ToolAssumption DEF Init
<1>4. log[1] = NoRun
  BY FirstSlot DEF Init
<1>5. \A n \in Names : ~ log[1].backup[n].own /\ ~ log[1].done[n].was.own
  BY <1>4 DEF NoRun, Nowhere, NotDone
<1>6. job.phase = "idle"
  BY DEF Init, NoJob
<1> QED
  BY <1>1, <1>2, <1>3, <1>5, <1>6 DEF OwnInv, LastRunFacts, PlacingFacts

\* The end of an item keeps the invariant when a copy it leaves is recorded.
LEMMA OwnFinish ==
    ASSUME OwnInv, TypeInv', NEW n \in Names, n \in job.todo,
           job.phase \in {"running", "placing"}, UNCHANGED Unrecorded,
           NEW held \in Content, NEW backup \in BOOLEAN,
           NEW link \in LinkKinds \cup {"none"}, NEW was \in Entry, NEW entry \in Entry,
           Finish(n, held, backup, link, was), Set(n, entry),
           was.own => was.kind = "dir" /\ was.hash = log[1].before[n],
           mode = "link" => ~ was.own,
           entry.own => /\ entry.kind = "dir" /\ entry.hash = held
                        /\ job.plan[n] \in COPYING /\ held = job.hash[n]
    PROVE  OwnInv'
<1>0. TypeOK
  BY DEF OwnInv, TypeInv
<1>1. /\ mode' = mode /\ canonical' = canonical /\ counts' = counts
  BY DEF Unrecorded
<1>2. /\ job'.phase = "running" /\ job'.todo = job.todo \ {n}
      /\ job'.plan = job.plan /\ job'.hash = job.hash
      /\ job'.held = [job.held EXCEPT ![n] = held]
      /\ log'[1].before = log[1].before
      /\ log'[1].done = [log[1].done EXCEPT ![n] =
            [action |-> job.plan[n], hash |-> job.hash[n],
             backup |-> backup, link |-> link, was |-> was]]
      /\ log'[1].backup = [log[1].backup EXCEPT ![n] = IF backup THEN was ELSE @]
  BY <1>0, Finished
<1>3. /\ tool' = [tool EXCEPT ![n] = entry] /\ tool \in [Names -> Entry]
      /\ job.held \in Contents /\ log[1].done \in [Names -> Done]
      /\ log[1].backup \in [Names -> Entry]
  BY <1>0, FirstSlot DEF Set, TypeOK, Job, Run
<1>4. /\ tool'[n] = entry /\ job'.held[n] = held
      /\ log'[1].done[n].action = job.plan[n] /\ log'[1].done[n].hash = job.hash[n]
      /\ log'[1].done[n].was = was
      /\ log'[1].backup[n] \in {was, log[1].backup[n]}
  BY <1>2, <1>3 DEF Contents
<1>5. ASSUME NEW k \in Names, k # n
      PROVE  /\ tool'[k] = tool[k] /\ job'.held[k] = job.held[k]
             /\ log'[1].done[k] = log[1].done[k] /\ log'[1].backup[k] = log[1].backup[k]
  BY <1>2, <1>3, <1>5 DEF Contents
<1>6. ASSUME job.plan[n] \in COPYING PROVE mode = "copy"
  BY <1>6 DEF OwnInv, RunFacts
<1>7. mode' = "link" => \A k \in Names :
          ~ tool'[k].own /\ ~ log'[1].backup[k].own /\ ~ log'[1].done[k].was.own
  <2> SUFFICES ASSUME mode = "link", NEW k \in Names
               PROVE  ~ tool'[k].own /\ ~ log'[1].backup[k].own /\ ~ log'[1].done[k].was.own
    BY <1>1
  <2>1. ~ tool[k].own /\ ~ log[1].backup[k].own /\ ~ log[1].done[k].was.own
    BY DEF OwnInv
  <2> QED
    BY <1>4, <1>5, <1>6, <2>1
<1>8. ASSUME NEW k \in Names PROVE LastRunFacts(k)' /\ RunFacts(k)'
  <2>1. LastRunFacts(k) /\ RunFacts(k)
    BY DEF OwnInv
  <2>2. CASE k = n
    BY <1>1, <1>2, <1>4, <2>1, <2>2 DEF LastRunFacts, RunFacts
  <2>3. CASE k # n
    BY <1>1, <1>2, <1>5, <2>1, <2>3 DEF LastRunFacts, RunFacts
  <2> QED
    BY <2>2, <2>3
<1> QED
  BY <1>1, <1>2, <1>7, <1>8 DEF OwnInv, PlacingFacts

\* A step that leaves the records, the plan and the roots alone, or removes
\* backups and items to do, keeps what is known of the run under way.
LEMMA OwnStutter ==
    ASSUME OwnInv, TypeInv',
           mode' = mode, canonical' = canonical, tool' = tool, ledger' = ledger,
           counts'["crashes"] = counts["crashes"],
           log'[1].before = log[1].before, log'[1].done = log[1].done,
           \A n \in Names : log'[1].backup[n] \in {log[1].backup[n], Nowhere},
           job'.phase = job.phase, job.phase # "rolling",
           job'.item = job.item, job'.copied = job.copied,
           job'.todo \subseteq job.todo,
           job'.plan = job.plan, job'.hash = job.hash, job'.held = job.held
    PROVE  OwnInv'
<1>1. ASSUME NEW n \in Names PROVE LastRunFacts(n)'
  <2>1. LastRunFacts(n) /\ ~ Nowhere.own
    BY DEF OwnInv, Nowhere
  <2>2. log'[1].backup[n] \in {log[1].backup[n], Nowhere}
    OBVIOUS
  <2> QED
    BY <2>1, <2>2 DEF LastRunFacts
<1>2. ASSUME job.phase \in {"running", "placing"}, NEW n \in Names
      PROVE  RunFacts(n)'
  BY <1>2 DEF OwnInv, RunFacts
<1>3. PlacingFacts'
  BY DEF OwnInv, PlacingFacts, Taken
<1>4. mode = "link" => \A n \in Names :
          ~ tool'[n].own /\ ~ log'[1].backup[n].own /\ ~ log'[1].done[n].was.own
  <2>1. ~ Nowhere.own
    BY DEF Nowhere
  <2> QED
    BY <2>1 DEF OwnInv
<1> QED
  BY <1>1, <1>2, <1>3, <1>4 DEF OwnInv

LEMMA OwnRefused ==
    ASSUME OwnInv, TypeInv', NEW n \in Names, job.phase = "running",
           Refuse(n), UNCHANGED Unrecorded
    PROVE  OwnInv'
<1>0. TypeOK
  BY DEF OwnInv, TypeInv
<1>1. \A k \in Names : log'[1].backup[k] = log[1].backup[k]
  BY <1>0, Refused
<1> QED
  BY <1>0, <1>1, Refused, OwnStutter DEF Unrecorded

\* The steps of items that are done in one.
LEMMA OwnItem ==
    ASSUME OwnInv, TypeInv', NEW n \in Names, Item(n), ~ TakeAway(n)
    PROVE  OwnInv'
<1>0. TypeOK
  BY DEF OwnInv, TypeInv
<1>1. /\ tool[n] \in Entry /\ tool[n].kind \in LinkKinds \cup {"none", "dir"}
      /\ job.held[n] \in Content /\ job.hash[n] \in Content /\ canonical[n] \in Content
      /\ Absent \in Content /\ Link("ours") \in Entry /\ Nowhere \in Entry
      /\ tool = [tool EXCEPT ![n] = tool[n]]
  BY <1>0, EntryTypes DEF TypeOK, Entry, Job, Contents, Content, LinkKinds
<1>2. ASSUME job.phase = "running", n \in job.todo
      PROVE  /\ tool[n].own => tool[n].kind = "dir" /\ tool[n].hash = log[1].before[n]
             /\ mode = "link" => ~ tool[n].own
             /\ job.plan[n] = "adopt" => ~ tool[n].own
  BY <1>2 DEF OwnInv, RunFacts, LastRunFacts
<1>3. ~ Link("ours").own /\ ~ Nowhere.own
  BY DEF Link, Nowhere
<1>4. CASE ExecuteLink(n)
  BY <1>1, <1>2, <1>3, <1>4, OwnFinish, OwnRefused DEF ExecuteLink, Todo
<1>5. CASE ExecuteRelink(n)
  BY <1>1, <1>2, <1>3, <1>5, OwnFinish, OwnRefused DEF ExecuteRelink, Todo
<1>6. CASE ExecuteRemoveLink(n)
  BY <1>1, <1>2, <1>3, <1>6, OwnFinish, OwnRefused DEF ExecuteRemoveLink, Todo
<1>7. CASE ExecuteCopy(n)
  <2>1. CASE Refuse(n)
    BY <1>7, <2>1, OwnRefused DEF ExecuteCopy, Todo
  <2>2. CASE Set(n, Dir(canonical[n], TRUE)) /\ Finish(n, job.hash[n], FALSE, "none", tool[n])
    <3>1. /\ Dir(canonical[n], TRUE) \in Entry
          /\ Dir(canonical[n], TRUE).kind = "dir"
          /\ Dir(canonical[n], TRUE).hash = canonical[n]
      BY <1>1, EntryTypes DEF Dir
    <3>2. job.phase = "running" /\ n \in job.todo /\ job.plan[n] \in COPYING
      BY <1>7 DEF ExecuteCopy, Todo, COPYING
    <3>3. job.hash[n] = canonical[n]
      BY <3>2 DEF OwnInv, RunFacts
    <3> QED
      BY <1>1, <1>2, <1>7, <2>2, <3>1, <3>2, <3>3, OwnFinish DEF ExecuteCopy
  <2> QED
    BY <1>7, <2>1, <2>2 DEF ExecuteCopy
<1>8. CASE ExecuteAdopt(n)
  <2>1. Set(n, tool[n])
    BY <1>1, <1>8 DEF ExecuteAdopt, Set
  <2> QED
    BY <1>1, <1>2, <1>8, <2>1, OwnFinish DEF ExecuteAdopt, Todo
<1>9. CASE ExecuteRemoveCopy(n)
  BY <1>1, <1>2, <1>3, <1>9, OwnFinish, OwnRefused DEF ExecuteRemoveCopy, Todo
<1> QED
  BY <1>4, <1>5, <1>6, <1>7, <1>8, <1>9 DEF Item

LEMMA OwnTakeAway ==
    ASSUME OwnInv, TypeInv', NEW n \in Names, TakeAway(n)
    PROVE  OwnInv'
<1>0. TypeOK
  BY DEF OwnInv, TypeInv
<1>1. job.phase = "running" /\ n \in job.todo /\ UNCHANGED Unrecorded
  BY DEF TakeAway
<1>2. CASE Refuse(n)
  BY <1>1, <1>2, OwnRefused
<1>3. CASE Take(n) /\ Set(n, Nowhere)
  <2>1. /\ job'.phase = "placing" /\ job'.item = n /\ job'.copied = canonical[n]
        /\ job'.todo = job.todo /\ job'.plan = job.plan /\ job'.hash = job.hash
        /\ job'.held = job.held
        /\ log'[1].before = log[1].before
        /\ log'[1].done = [log[1].done EXCEPT ![n] = [@ EXCEPT !.was = tool[n]]]
        /\ log'[1].backup \in {log[1].backup, [log[1].backup EXCEPT ![n] = tool[n]]}
    BY <1>0, <1>3, TakenAway
  <2>2. /\ log[1].done \in [Names -> Done] /\ log[1].backup \in [Names -> Entry]
        /\ tool \in [Names -> Entry]
    BY <1>0, FirstSlot DEF TypeOK, Run
  <2>3. /\ log'[1].done[n].was = tool[n] /\ log'[1].done[n].action = log[1].done[n].action
        /\ log'[1].done[n].hash = log[1].done[n].hash
        /\ log'[1].backup[n] \in {tool[n], log[1].backup[n]}
    BY <2>1, <2>2 DEF Done
  <2>4. tool'[n] = Nowhere /\ ~ tool'[n].own
    BY <1>3, <2>2 DEF Set, Nowhere
  <2>5. ASSUME NEW k \in Names, k # n
        PROVE  /\ tool'[k] = tool[k] /\ log'[1].done[k] = log[1].done[k]
               /\ log'[1].backup[k] = log[1].backup[k]
    BY <1>3, <2>1, <2>2, <2>5 DEF Set
  <2>6. tool[n].own => tool[n].kind = "dir" /\ tool[n].hash = log[1].before[n]
    BY <1>1 DEF OwnInv, RunFacts, LastRunFacts
  <2>7. mode' = mode /\ canonical' = canonical /\ counts' = counts
    BY <1>1 DEF Unrecorded
  <2>8. ASSUME NEW k \in Names PROVE LastRunFacts(k)' /\ RunFacts(k)'
    <3>1. LastRunFacts(k) /\ RunFacts(k)
      BY <1>1 DEF OwnInv
    <3>2. CASE k = n
      BY <2>1, <2>3, <2>4, <2>6, <2>7, <3>1, <3>2 DEF LastRunFacts, RunFacts
    <3>3. CASE k # n
      BY <1>1, <2>1, <2>5, <2>7, <3>1, <3>3 DEF LastRunFacts, RunFacts
    <3> QED
      BY <3>2, <3>3
  <2>9. PlacingFacts'
    BY <2>1, <2>3, <2>6, <2>7 DEF PlacingFacts, Taken
  <2>10. mode' = "link" => \A k \in Names :
            ~ tool'[k].own /\ ~ log'[1].backup[k].own /\ ~ log'[1].done[k].was.own
    <3> SUFFICES ASSUME mode = "link", NEW k \in Names
                 PROVE  ~ tool'[k].own /\ ~ log'[1].backup[k].own /\ ~ log'[1].done[k].was.own
      BY <2>7
    <3>1. ~ tool[k].own /\ ~ log[1].backup[k].own /\ ~ log[1].done[k].was.own
      BY DEF OwnInv
    <3> QED
      BY <2>3, <2>4, <2>5, <3>1
  <2> QED
    BY <2>1, <2>7, <2>8, <2>9, <2>10 DEF OwnInv
<1> QED
  BY <1>2, <1>3 DEF TakeAway

LEMMA OwnPlaced ==
    ASSUME OwnInv, PutInPlace
    PROVE  OwnInv'
<1> DEFINE n == job.item
           linked == job.plan[n] = "replace_link_with_copy"
           link == IF linked THEN Taken.kind ELSE "none"
           entry == IF job.plan[n] \in COPYING THEN Dir(job.copied, TRUE) ELSE Link("ours")
<1>0. TypeInv /\ TypeOK
  BY DEF OwnInv, TypeInv
<1>1. /\ TypeInv' /\ n \in Names /\ Taken \in Entry
      /\ Recorded(n) \in Content /\ link \in LinkKinds \cup {"none"}
  BY <1>0, PlacedType
<1>2. job.phase = "placing" /\ n \in job.todo /\ UNCHANGED Unrecorded
  BY <1>0 DEF PutInPlace, TypeInv, PlacingOne
<1>3. Finish(n, Recorded(n), ~ linked, link, Taken) /\ Set(n, entry)
  BY DEF PutInPlace
<1>4. /\ Taken.own => Taken.kind = "dir" /\ Taken.hash = log[1].before[n]
      /\ job.plan[n] \in COPYING => job.copied = canonical[n]
  BY <1>2 DEF OwnInv, PlacingFacts
<1>5. mode = "link" => ~ Taken.own
  BY <1>1 DEF OwnInv, Taken
<1>6. job.plan[n] \in COPYING => job.hash[n] = canonical[n]
  BY <1>1, <1>2 DEF OwnInv, RunFacts
<1>7. entry \in Entry
  <2>1. job.copied \in Content
    BY <1>0 DEF TypeOK, Job
  <2> QED
    BY <2>1, EntryTypes DEF LinkKinds
<1>8. entry.own => /\ entry.kind = "dir" /\ entry.hash = Recorded(n)
                   /\ job.plan[n] \in COPYING /\ Recorded(n) = job.hash[n]
  BY <1>4, <1>6 DEF Dir, Link, Recorded
<1>9. (~ linked) \in BOOLEAN
  OBVIOUS
<1> HIDE DEF n, linked, link, entry
<1> QED
  BY <1>1, <1>2, <1>3, <1>4, <1>5, <1>7, <1>8, <1>9, OwnFinish

LEMMA OwnPutBack ==
    ASSUME OwnInv, PutBack
    PROVE  OwnInv'
<1> DEFINE n == job.item
<1>0. TypeInv /\ TypeOK
  BY DEF OwnInv, TypeInv
<1>1. /\ TypeInv' /\ n \in Names /\ Taken \in Entry
      /\ job'.phase = "running" /\ job'.todo = job.todo \ {n}
      /\ job'.plan = job.plan /\ job'.hash = job.hash /\ job'.held = job.held
      /\ log'[1].before = log[1].before
      /\ log'[1].done = [log[1].done EXCEPT ![n] = NotDone]
      /\ log'[1].backup = [log[1].backup EXCEPT ![n] = Nowhere]
  BY <1>0, PuttingBack
<1>2. job.phase = "placing" /\ n \in job.todo
  BY <1>0 DEF PutBack, TypeInv, PlacingOne
<1>3. /\ mode' = mode /\ canonical' = canonical
      /\ counts'["crashes"] = counts["crashes"]
  BY <1>0, CountType DEF PutBack, Counted
<1>4. /\ log[1].done \in [Names -> Done] /\ log[1].backup \in [Names -> Entry]
      /\ tool' = [tool EXCEPT ![n] = Taken] /\ tool \in [Names -> Entry]
  BY <1>0, FirstSlot DEF TypeOK, Run, PutBack, Set
<1>5. /\ tool'[n] = Taken /\ ~ log'[1].backup[n].own /\ ~ log'[1].done[n].was.own
  BY <1>1, <1>4 DEF Nowhere, NotDone
<1>6. ASSUME NEW k \in Names, k # n
      PROVE  /\ tool'[k] = tool[k] /\ log'[1].done[k] = log[1].done[k]
             /\ log'[1].backup[k] = log[1].backup[k]
  BY <1>1, <1>4, <1>6
<1>7. /\ Taken.own => Taken.kind = "dir" /\ Taken.hash = log[1].before[n]
      /\ mode = "link" => ~ Taken.own
      /\ job.held[n] = log[1].before[n]
  BY <1>1, <1>2 DEF OwnInv, PlacingFacts, Taken, RunFacts
<1>8. ASSUME NEW k \in Names PROVE LastRunFacts(k)' /\ RunFacts(k)'
  <2>1. LastRunFacts(k) /\ RunFacts(k)
    BY <1>2 DEF OwnInv
  <2>2. CASE k = n
    BY <1>1, <1>3, <1>5, <1>7, <2>1, <2>2 DEF LastRunFacts, RunFacts
  <2>3. CASE k # n
    BY <1>1, <1>2, <1>3, <1>6, <2>1, <2>3 DEF LastRunFacts, RunFacts
  <2> QED
    BY <2>2, <2>3
<1>9. mode' = "link" => \A k \in Names :
          ~ tool'[k].own /\ ~ log'[1].backup[k].own /\ ~ log'[1].done[k].was.own
  <2> SUFFICES ASSUME mode = "link", NEW k \in Names
               PROVE  ~ tool'[k].own /\ ~ log'[1].backup[k].own /\ ~ log'[1].done[k].was.own
    BY <1>3
  <2>1. ~ tool[k].own /\ ~ log[1].backup[k].own /\ ~ log[1].done[k].was.own
    BY DEF OwnInv
  <2> QED
    BY <1>5, <1>6, <1>7, <2>1
<1> QED
  BY <1>1, <1>3, <1>8, <1>9 DEF OwnInv, PlacingFacts

LEMMA OwnBegin ==
    ASSUME OwnInv, TypeInv', NEW by \in {"daemon", "operator"}, Begin(by),
           counts'["crashes"] = counts["crashes"]
    PROVE  OwnInv'
<1>0. TypeInv /\ TypeOK
  BY DEF OwnInv, TypeInv
<1>1. /\ job'.phase = "running" /\ job'.held = ledger
      /\ job'.plan = [n \in Names |-> PlanOf(n)]
      /\ job'.hash = [n \in Names |-> ItemHash(n)]
      /\ log'[1].before = ledger
      /\ log'[1].backup = NoRun.backup /\ log'[1].done = NoRun.done
  BY <1>0, Begun
<1>2. /\ job.phase = "idle" /\ mode' = mode /\ canonical' = canonical /\ tool' = tool
  BY DEF Begin
<1>3. ASSUME NEW n \in Names
      PROVE  ~ log'[1].backup[n].own /\ ~ log'[1].done[n].was.own
  BY <1>1 DEF NoRun, Nowhere, NotDone
<1>4. ASSUME NEW n \in Names, tool[n].own
      PROVE  tool[n].kind = "dir" /\ tool[n].hash = ledger[n]
  BY <1>2, <1>4 DEF OwnInv, LastRunFacts
<1>5. ASSUME NEW n \in Names PROVE LastRunFacts(n)' /\ RunFacts(n)'
  <2>1. /\ PlanOf(n) \in COPYING => mode = "copy" /\ ItemHash(n) = canonical[n]
        /\ PlanOf(n) = "adopt" => ~ tool[n].own
    BY <1>0, <1>4, CopiesPlanned
  <2>2. LastRunFacts(n)'
    BY <1>1, <1>2, <1>3, <1>4 DEF LastRunFacts
  <2>3. RunFacts(n)'
    BY <1>1, <1>2, <1>4, <2>1 DEF RunFacts
  <2> QED
    BY <2>2, <2>3
<1>6. mode' = "link" => \A n \in Names :
          ~ tool'[n].own /\ ~ log'[1].backup[n].own /\ ~ log'[1].done[n].was.own
  BY <1>2, <1>3 DEF OwnInv
<1>7. mode' = "copy" => counts'["crashes"] = 0
  BY <1>2 DEF OwnInv
<1> QED
  BY <1>1, <1>5, <1>6, <1>7 DEF OwnInv, PlacingFacts

LEMMA OwnUndo ==
    ASSUME OwnInv, NEW n \in Names, Undo(n)
    PROVE  OwnInv'
<1> DEFINE done == log[1].done[n]
           kept == log[1].backup[n]
           left == IF done.action \in LINKING \cup COPYING THEN Nowhere ELSE tool[n]
<1>0. TypeInv /\ TypeOK
  BY DEF OwnInv, TypeInv
<1>11. job.phase = "rolling" /\ job.slot = 1 /\ 1 \in Slots
  BY FirstSlot DEF Undo, OwnInv
<1>1. /\ TypeInv' /\ job.phase = "rolling" /\ job.slot = 1
      /\ job'.todo = job.todo \ {n} /\ job'.phase = "rolling" /\ job'.slot = 1
      /\ log'[1].before = log[1].before /\ log'[1].done = log[1].done
      /\ log'[1].backup \in {log[1].backup, [log[1].backup EXCEPT ![n] = Nowhere]}
  <2>1. TypeInv' /\ job'.todo = job.todo \ {n} /\ job'.phase = "rolling" /\ job'.slot = 1
    BY <1>0, <1>11, Undone
  <2>2. \A i \in Slots :
           /\ log'[i].before = log[i].before /\ log'[i].done = log[i].done
           /\ log'[i].backup \in {log[i].backup, [log[i].backup EXCEPT ![n] = Nowhere]}
    BY <1>0, Undone
  <2> QED
    BY <1>11, <2>1, <2>2
<1>2. /\ mode' = mode /\ counts' = counts
  BY DEF Undo, Unrecorded
<1>3. tool \in [Names -> Entry] /\ log[1].backup \in [Names -> Entry]
  BY <1>0, FirstSlot DEF TypeOK, Run
<1>4. \/ tool' = tool /\ ~ StillOurs(n, done)
      \/ /\ StillOurs(n, done)
         /\ \E entry \in {kept, Link(done.link), left} : tool' = [tool EXCEPT ![n] = entry]
  BY <1>1 DEF Undo, Set
<1>5. ASSUME NEW k \in Names, k # n
      PROVE  tool'[k] = tool[k] /\ log'[1].backup[k] = log[1].backup[k]
  BY <1>1, <1>3, <1>4, <1>5
<1>6. log'[1].backup[n] \in {log[1].backup[n], Nowhere} /\ ~ Nowhere.own
  BY <1>1, <1>3 DEF Nowhere
<1>7. LastRunFacts(n)
  BY DEF OwnInv
<1>8. tool'[n].own => tool'[n].kind = "dir" /\ tool'[n].hash = log[1].before[n]
  <2>1. CASE tool' = tool /\ ~ StillOurs(n, done)
    <3>1. tool[n].own =>
             /\ tool[n].kind = "dir"
             /\ \/ tool[n].hash = log[1].before[n]
                \/ done.action \in COPYING /\ tool[n].hash = done.hash
      BY <1>7 DEF LastRunFacts
    <3>2. ASSUME done.action \in COPYING
          PROVE  ~ (tool[n].kind = "dir" /\ tool[n].hash = done.hash)
      <4>1. done.action \notin LINKING /\ done.action \notin REMOVING
        BY <3>2 DEF COPYING, LINKING, REMOVING
      <4> HIDE DEF done
      <4> QED
        BY <2>1, <3>2, <4>1 DEF StillOurs
    <3> QED
      BY <2>1, <3>1, <3>2
  <2>2. ASSUME tool'[n] = kept PROVE kept.own => kept.kind = "dir" /\ kept.hash = log[1].before[n]
    BY <1>7 DEF LastRunFacts
  <2>3. ~ Link(done.link).own
    BY DEF Link
  <2>4. left.own => left.kind = "dir" /\ left.hash = log[1].before[n]
    BY <1>6, <1>7 DEF LastRunFacts
  <2>5. CASE \E entry \in {kept, Link(done.link), left} : tool' = [tool EXCEPT ![n] = entry]
    <3> HIDE DEF kept, done, left
    <3>1. tool'[n] \in {kept, Link(done.link), left}
      BY <1>3, <2>5
    <3> QED
      BY <2>2, <2>3, <2>4, <3>1
  <2> QED
    BY <1>4, <2>1, <2>5
<1>9. ASSUME NEW k \in Names PROVE LastRunFacts(k)'
  <2>1. LastRunFacts(k)
    BY DEF OwnInv
  <2>2. CASE k = n
    BY <1>1, <1>6, <1>8, <2>1, <2>2 DEF LastRunFacts
  <2>3. CASE k # n
    BY <1>1, <1>5, <2>1, <2>3 DEF LastRunFacts
  <2> QED
    BY <2>2, <2>3
<1>10. mode' = "link" => \A k \in Names :
          ~ tool'[k].own /\ ~ log'[1].backup[k].own /\ ~ log'[1].done[k].was.own
  <2> SUFFICES ASSUME mode = "link", NEW k \in Names
               PROVE  ~ tool'[k].own /\ ~ log'[1].backup[k].own /\ ~ log'[1].done[k].was.own
    BY <1>2
  <2>1. \A j \in Names : ~ tool[j].own /\ ~ log[1].backup[j].own /\ ~ log[1].done[j].was.own
    BY DEF OwnInv
  <2>2. ~ tool'[n].own
    <3>1. ~ kept.own /\ ~ Link(done.link).own /\ ~ left.own /\ ~ tool[n].own
      BY <1>6, <2>1 DEF Link
    <3> HIDE DEF kept, done, left
    <3> QED
      BY <1>3, <1>4, <3>1
  <2> QED
    BY <1>1, <1>5, <1>6, <2>1, <2>2
<1> QED
  BY <1>1, <1>2, <1>9, <1>10 DEF OwnInv, PlacingFacts

\* The rollback's end restores the ledger every copy still there is in.
LEMMA OwnRollBackEnds ==
    ASSUME OwnInv, TypeInv', RollBackEnds
    PROVE  OwnInv'
<1>0. TypeOK
  BY DEF OwnInv, TypeInv
<1>1. /\ job.phase = "rolling" /\ job.slot = 1 /\ job.todo = {}
      /\ job'.phase = "idle" /\ tool' = tool /\ log' = log /\ mode' = mode
      /\ counts' = counts
      /\ ledger' = IF mode = "copy" THEN log[1].before ELSE ledger
  BY DEF RollBackEnds, LedgerAfterRollback, OwnInv, NoJob
<1>2. ASSUME NEW n \in Names PROVE LastRunFacts(n)'
  <2>1. LastRunFacts(n)
    BY DEF OwnInv
  <2> QED
    BY <1>1, <2>1 DEF LastRunFacts
<1>3. ASSUME NEW n \in Names, tool[n].own PROVE ledger'[n] = tool[n].hash
  <2>1. mode = "copy"
    BY <1>0, <1>3 DEF OwnInv, TypeOK
  <2>2. tool[n].hash = log[1].before[n]
    BY <1>1, <1>3 DEF OwnInv, LastRunFacts
  <2> QED
    BY <1>1, <2>1, <2>2
<1> QED
  BY <1>1, <1>2, <1>3 DEF OwnInv, PlacingFacts

LEMMA OwnSaveLedger ==
    ASSUME OwnInv, TypeInv', SaveLedger
    PROVE  OwnInv'
<1>0. TypeOK
  BY DEF OwnInv, TypeInv
<1>1. /\ job.phase = "running" /\ job'.phase = "saved"
      /\ tool' = tool /\ log' = log /\ mode' = mode /\ counts' = counts
      /\ ledger' = IF mode = "copy" THEN job.held ELSE ledger
  BY <1>0 DEF SaveLedger, TypeOK, Job
<1>2. ASSUME NEW n \in Names PROVE LastRunFacts(n)'
  <2>1. LastRunFacts(n)
    BY DEF OwnInv
  <2> QED
    BY <1>1, <2>1 DEF LastRunFacts
<1>3. ASSUME NEW n \in Names, tool[n].own PROVE ledger'[n] = tool[n].hash
  <2>1. mode = "copy"
    BY <1>0, <1>3 DEF OwnInv, TypeOK
  <2> QED
    BY <1>1, <1>3, <2>1 DEF OwnInv, RunFacts
<1> QED
  BY <1>1, <1>2, <1>3 DEF OwnInv, PlacingFacts

LEMMA OwnClose ==
    ASSUME OwnInv, TypeInv', Close
    PROVE  OwnInv'
<1>0. TypeOK
  BY DEF OwnInv, TypeInv
<1> DEFINE runs == [log EXCEPT ![1].written = TRUE]
<1>1. /\ runs \in [Slots -> Run] /\ runs[1].before = log[1].before
      /\ runs[1].done = log[1].done /\ runs[1].backup = log[1].backup
  BY <1>0, FirstSlot DEF TypeOK, Run
<1>2. /\ log'[1].before = log[1].before /\ log'[1].done = log[1].done
      /\ log'[1].backup \in {log[1].backup, NoRun.backup}
  <2> HIDE DEF runs
  <2>1. log' = Pruned(runs)
    BY DEF Close, runs
  <2> QED
    BY <1>1, <2>1, FirstSlot, PrunedKeeps
<1>3. /\ job.phase = "saved" /\ job'.phase = "idle"
      /\ tool' = tool /\ ledger' = ledger /\ mode' = mode /\ counts' = counts
  BY DEF Close, NoJob
<1>4. ASSUME NEW n \in Names
      PROVE  log'[1].backup[n].own => log'[1].backup[n] = log[1].backup[n]
  <2>1. ~ NoRun.backup[n].own
    BY DEF NoRun, Nowhere
  <2> QED
    BY <1>2, <2>1
<1>5. ASSUME NEW n \in Names PROVE LastRunFacts(n)'
  <2>1. LastRunFacts(n)
    BY DEF OwnInv
  <2> QED
    BY <1>2, <1>3, <1>4, <2>1 DEF LastRunFacts
<1> QED
  BY <1>2, <1>3, <1>4, <1>5 DEF OwnInv, PlacingFacts

LEMMA OwnRollBack ==
    ASSUME OwnInv, TypeInv', Undisturbed, NEW i \in RollbackSlots, RollBack(i)
    PROVE  OwnInv'
<1>0. TypeOK
  BY DEF OwnInv, TypeInv
<1>1. i = 1
  BY DEF Undisturbed
<1>2. /\ job.phase = "idle" /\ job'.phase = "rolling" /\ job'.slot = 1
      /\ job'.todo = {n \in Names : log[1].done[n].action # "none"}
      /\ tool' = tool /\ log' = log /\ mode' = mode
  BY <1>1, NoJobType DEF RollBack, Job
<1>3. counts'["crashes"] = counts["crashes"]
  BY <1>0, CountType DEF RollBack, Counted
<1>4. ASSUME NEW n \in Names PROVE LastRunFacts(n)'
  <2>1. LastRunFacts(n)
    BY DEF OwnInv
  <2>2. log[1].done[n].action \in COPYING => n \in job'.todo
    BY <1>2 DEF COPYING
  <2> QED
    BY <1>2, <2>1, <2>2 DEF LastRunFacts
<1> QED
  BY <1>2, <1>3, <1>4 DEF OwnInv, PlacingFacts

\* A run is cut short only in a tool that gets links, which has no copies.
LEMMA OwnCrash ==
    ASSUME OwnInv, TypeInv', Crash
    PROVE  OwnInv'
<1>0. TypeOK
  BY DEF OwnInv, TypeInv
<1>1. mode = "link" /\ mode' = mode
  <2>1. counts["crashes"] > 0
    BY DEF Crash, Count
  <2> QED
    BY <1>0, <2>1 DEF Crash, OwnInv, TypeOK
<1>2. job'.phase = "idle" /\ tool' = tool /\ log' = log /\ ledger' = ledger
  BY DEF Crash, NoJob
<1>3. \A n \in Names : ~ tool[n].own /\ ~ log[1].backup[n].own /\ ~ log[1].done[n].was.own
  BY <1>1 DEF OwnInv
<1> QED
  BY <1>1, <1>2, <1>3 DEF OwnInv, LastRunFacts, PlacingFacts

\* Whatever others put into the tool's root is not the fan-out's own.
LEMMA OwnEditTool ==
    ASSUME OwnInv, TypeInv', NEW n \in Names, NEW entry, ~ entry.own, EditTool(n, entry)
    PROVE  OwnInv'
<1>0. TypeOK
  BY DEF OwnInv, TypeInv
<1>1. /\ tool' = [tool EXCEPT ![n] = entry] /\ tool \in [Names -> Entry]
      /\ mode' = mode /\ canonical' = canonical /\ ledger' = ledger
      /\ log' = log /\ job' = job
  BY <1>0 DEF EditTool, Set, TypeOK
<1>2. counts'["crashes"] = counts["crashes"]
  BY <1>0, CountType DEF EditTool, Counted
<1>3. ASSUME NEW k \in Names PROVE tool'[k].own => tool'[k] = tool[k]
  BY <1>1
<1>4. ASSUME NEW k \in Names PROVE LastRunFacts(k)'
  <2>1. LastRunFacts(k)
    BY DEF OwnInv
  <2> QED
    BY <1>1, <1>3, <2>1 DEF LastRunFacts
<1>5. ASSUME job.phase \in {"running", "placing"}, NEW k \in Names PROVE RunFacts(k)'
  <2>1. RunFacts(k)
    BY <1>5 DEF OwnInv
  <2> QED
    BY <1>1, <1>3, <2>1 DEF RunFacts
<1>6. PlacingFacts'
  BY <1>1 DEF OwnInv, PlacingFacts, Taken
<1> QED
  BY <1>1, <1>2, <1>3, <1>4, <1>5, <1>6 DEF OwnInv

LEMMA OwnEditCanonical ==
    ASSUME OwnInv, TypeInv', Undisturbed, NEW n \in Names, NEW c, EditCanonical(n, c)
    PROVE  OwnInv'
<1>0. TypeOK
  BY DEF OwnInv, TypeInv
<1>1. /\ job.phase \in {"idle", "rolling"}
      /\ tool' = tool /\ mode' = mode /\ ledger' = ledger /\ log' = log /\ job' = job
  BY DEF EditCanonical, Undisturbed
<1>2. counts'["crashes"] = counts["crashes"]
  BY <1>0, CountType DEF EditCanonical, Counted
<1>3. ASSUME NEW k \in Names PROVE LastRunFacts(k)'
  <2>1. LastRunFacts(k)
    BY DEF OwnInv
  <2> QED
    BY <1>1, <2>1 DEF LastRunFacts
<1> QED
  BY <1>1, <1>2, <1>3 DEF OwnInv, PlacingFacts

LEMMA OwnInvNext ==
    ASSUME Undisturbed, OwnInv, [Next]_vars
    PROVE  OwnInv'
<1>0. TypeInv /\ TypeOK /\ TypeInv'
  BY TypeInvNext DEF OwnInv, TypeInv
<1>1. ASSUME NEW n \in Names, Item(n) PROVE OwnInv'
  BY <1>0, <1>1, OwnItem, OwnTakeAway
<1>2. ASSUME NEW n \in Names, Undo(n) PROVE OwnInv'
  BY <1>2, OwnUndo
<1>3. CASE PutInPlace
  BY <1>3, OwnPlaced
<1>4. CASE SaveLedger
  BY <1>0, <1>4, OwnSaveLedger
<1>5. CASE Close
  BY <1>0, <1>5, OwnClose
<1>6. CASE RollBackEnds
  BY <1>0, <1>6, OwnRollBackEnds
<1>7. CASE MaybeRun \/ IntervalPasses \/ UNCHANGED vars
  <2>1. UNCHANGED <<mode, canonical, tool, ledger, log, job, counts>>
    BY <1>7 DEF MaybeRun, IntervalPasses, vars
  <2> QED
    BY <1>0, <2>1 DEF OwnInv, LastRunFacts, RunFacts, PlacingFacts, Taken
<1>8. CASE LockTimesOut
  <2>1. /\ log'[1].before = log[1].before /\ log'[1].done = log[1].done
        /\ log'[1].backup \in {log[1].backup, NoRun.backup}
    BY <1>0, <1>8, PrunedKeeps, FirstSlot DEF LockTimesOut, TypeOK
  <2>2. ASSUME NEW n \in Names PROVE log'[1].backup[n] \in {log[1].backup[n], Nowhere}
    BY <2>1 DEF NoRun
  <2>3. UNCHANGED <<mode, canonical, tool, ledger, job, counts>>
    BY <1>8 DEF LockTimesOut
  <2> QED
    BY <1>0, <2>1, <2>2, <2>3 DEF OwnInv, LastRunFacts, RunFacts, PlacingFacts, Taken, Nowhere
<1>9. CASE DaemonRun
  BY <1>0, <1>9, OwnBegin DEF DaemonRun
<1>10. CASE OperatorRun
  <2>1. counts'["crashes"] = counts["crashes"]
    BY <1>0, <1>10, CountType DEF OperatorRun, Counted
  <2> QED
    BY <1>0, <1>10, <2>1, OwnBegin DEF OperatorRun
<1>11. ASSUME NEW i \in RollbackSlots, RollBack(i) PROVE OwnInv'
  BY <1>0, <1>11, OwnRollBack
<1>12. CASE PutBack
  BY <1>12, OwnPutBack
<1>13. CASE Crash
  BY <1>0, <1>13, OwnCrash
<1>14. ASSUME NEW n \in Names,
              \/ \E v \in Versions : EditTool(n, Dir(v, FALSE))
              \/ \E e \in {Nowhere, Link("foreign")} : EditTool(n, e)
       PROVE  OwnInv'
  <2>1. ~ Nowhere.own /\ ~ Link("foreign").own /\ \A v \in Versions : ~ Dir(v, FALSE).own
    BY DEF Nowhere, Link, Dir
  <2> QED
    BY <1>0, <1>14, <2>1, OwnEditTool
<1>15. ASSUME NEW n \in Names, NEW c \in Content, EditCanonical(n, c) PROVE OwnInv'
  BY <1>0, <1>15, OwnEditCanonical
<1> QED
  BY <1>1, <1>2, <1>3, <1>4, <1>5, <1>6, <1>7, <1>8, <1>9, <1>10, <1>11, <1>12,
     <1>13, <1>14, <1>15
  DEF Next, Working, Scheduling, Environment

\* Whatever runs, fails and is rolled back, and whatever others do to the
\* tool's root meanwhile, the ledger knows every copy the fan-out placed under
\* the hash it has: so the next version of its skill replaces it.
THEOREM OwnCopiesRecordedEver ==
    ASSUME Undisturbed
    PROVE  Spec => []OwnCopiesRecorded
<1>1. Init => OwnInv
  BY OwnInvInit
<1>2. OwnInv /\ [Next]_vars => OwnInv'
  BY OwnInvNext
<1>3. OwnInv => OwnCopiesRecorded
  BY DEF OwnInv, OwnCopiesRecorded
<1> QED
  BY <1>1, <1>2, <1>3, PTL DEF Spec

-----------------------------------------------------------------------------
(* What runs and rollbacks do to the entries of a tool's root, for any names,   *)
(* versions, manifests, roots and bounds.                                       *)

\* A step that only changes what the invariant does not speak of.
LEMMA EntriesStutter ==
    ASSUME EntriesInv, TypeInv', tool' = tool,
           \A i \in Slots : log'[i].done = log[i].done,
           job'.phase = job.phase, job'.item = job.item, job'.plan = job.plan,
           job'.todo \subseteq job.todo
    PROVE  EntriesInv'
BY DEF EntriesInv

\* A job that ends, or a rollback that starts, leaves only the records.
LEMMA EntriesOutside ==
    ASSUME EntriesInv, TypeInv', \A i \in Slots : log'[i].done = log[i].done,
           job'.phase \notin {"running", "placing"}
    PROVE  EntriesInv'
BY DEF EntriesInv

\* A finished item left the list; its record restores only what was replaced.
LEMMA EntriesFinish ==
    ASSUME EntriesInv, TypeInv', NEW n \in Names,
           job.phase \in {"running", "placing"},
           NEW held \in Content, NEW backup \in BOOLEAN,
           NEW link \in LinkKinds \cup {"none"}, NEW was \in Entry, NEW entry \in Entry,
           Finish(n, held, backup, link, was), Set(n, entry),
           \/ job.plan[n] \in LINKING \cup COPYING \cup REMOVING
           \/ ~ backup /\ link = "none"
    PROVE  EntriesInv'
<1>0. TypeOK
  BY DEF EntriesInv, TypeInv
<1>1. /\ job'.phase = "running" /\ job'.todo = job.todo \ {n}
      /\ job'.plan = job.plan /\ job'.hash = job.hash
      /\ job'.held = [job.held EXCEPT ![n] = held]
      /\ log'[1].before = log[1].before
      /\ log'[1].done = [log[1].done EXCEPT ![n] =
            [action |-> job.plan[n], hash |-> job.hash[n],
             backup |-> backup, link |-> link, was |-> was]]
      /\ log'[1].backup = [log[1].backup EXCEPT ![n] = IF backup THEN was ELSE @]
  BY <1>0, Finished
<1>2. log[1].done \in [Names -> Done] /\ tool \in [Names -> Entry]
  BY <1>0, FirstSlot DEF TypeOK, Run
<1>3. \A i \in Slots \ {1} : log'[i] = log[i]
  BY <1>0 DEF Finish, TypeOK
<1>4. \A k \in Names \ {n} : tool'[k] = tool[k] /\ log'[1].done[k] = log[1].done[k]
  BY <1>1, <1>2 DEF Set
<1>5. /\ log'[1].done[n].action = job.plan[n] /\ log'[1].done[n].backup = backup
      /\ log'[1].done[n].link = link
  BY <1>1, <1>2
<1>6. ASSUME NEW i \in Slots, NEW k \in Names,
             log'[i].done[k].action \notin LINKING \cup COPYING \cup REMOVING
      PROVE  ~ log'[i].done[k].backup /\ log'[i].done[k].link = "none"
  <2>1. CASE i = 1 /\ k = n
    BY <1>5, <1>6, <2>1
  <2>2. CASE i = 1 /\ k # n
    BY <1>4, <1>6, <2>2 DEF EntriesInv
  <2>3. CASE i # 1
    BY <1>3, <1>6, <2>3 DEF EntriesInv
  <2> QED
    BY <2>1, <2>2, <2>3
<1>7. \A k \in job'.todo : tool'[k].kind # "foreign"
  <2>1. job.todo \subseteq Names
    BY <1>0 DEF TypeOK, Job
  <2> QED
    BY <1>1, <1>4, <2>1 DEF EntriesInv
<1> QED
  BY <1>1, <1>6, <1>7 DEF EntriesInv

LEMMA EntriesItem ==
    ASSUME EntriesInv, TypeInv', NEW n \in Names, Item(n), ~ TakeAway(n)
    PROVE  EntriesInv'
<1>0. TypeOK
  BY DEF EntriesInv, TypeInv
<1>1. /\ tool[n] \in Entry /\ tool[n].kind \in LinkKinds \cup {"none", "dir"}
      /\ job.held[n] \in Content /\ job.hash[n] \in Content /\ canonical[n] \in Content
      /\ Absent \in Content /\ Link("ours") \in Entry /\ Nowhere \in Entry
      /\ tool = [tool EXCEPT ![n] = tool[n]]
  BY <1>0, EntryTypes DEF TypeOK, Entry, Job, Contents, Content, LinkKinds
<1>2. CASE Refuse(n)
  BY <1>0, <1>2, Refused, EntriesStutter
<1>3. CASE ExecuteLink(n)
  BY <1>1, <1>2, <1>3, EntriesFinish DEF ExecuteLink, Todo
<1>4. CASE ExecuteRelink(n)
  BY <1>1, <1>2, <1>4, EntriesFinish DEF ExecuteRelink, Todo, LINKING
<1>5. CASE ExecuteRemoveLink(n)
  BY <1>1, <1>2, <1>5, EntriesFinish DEF ExecuteRemoveLink, Todo, REMOVING
<1>6. CASE ExecuteCopy(n)
  <2>1. Dir(canonical[n], TRUE) \in Entry
    BY <1>1, EntryTypes
  <2> QED
    BY <1>1, <1>2, <1>6, <2>1, EntriesFinish DEF ExecuteCopy, Todo
<1>7. CASE ExecuteAdopt(n)
  <2>1. Set(n, tool[n])
    BY <1>1, <1>7 DEF ExecuteAdopt, Set
  <2> QED
    BY <1>1, <1>7, <2>1, EntriesFinish DEF ExecuteAdopt, Todo
<1>8. CASE ExecuteRemoveCopy(n)
  BY <1>1, <1>2, <1>8, EntriesFinish DEF ExecuteRemoveCopy, Todo, REMOVING
<1> QED
  BY <1>3, <1>4, <1>5, <1>6, <1>7, <1>8 DEF Item

LEMMA EntriesTakeAway ==
    ASSUME EntriesInv, TypeInv', NEW n \in Names, TakeAway(n)
    PROVE  EntriesInv'
<1>0. TypeOK
  BY DEF EntriesInv, TypeInv
<1>1. job.phase = "running" /\ n \in job.todo /\ job.plan[n] \in TwoStep
  BY DEF TakeAway
<1>2. CASE Refuse(n)
  BY <1>0, <1>2, Refused, EntriesStutter
<1>3. CASE Take(n) /\ Set(n, Nowhere)
  <2>1. /\ job'.phase = "placing" /\ job'.item = n
        /\ job'.todo = job.todo /\ job'.plan = job.plan
        /\ log'[1].done = [log[1].done EXCEPT ![n] = [@ EXCEPT !.was = tool[n]]]
    BY <1>0, <1>3, TakenAway
  <2>2. log[1].done \in [Names -> Done] /\ tool \in [Names -> Entry]
    BY <1>0, FirstSlot DEF TypeOK, Run
  <2>3. \A i \in Slots \ {1} : log'[i] = log[i]
    BY <1>0, <1>3 DEF Take, TypeOK
  <2>4. ASSUME NEW k \in Names
        PROVE  /\ log'[1].done[k].action = log[1].done[k].action
               /\ log'[1].done[k].backup = log[1].done[k].backup
               /\ log'[1].done[k].link = log[1].done[k].link
    BY <2>1, <2>2 DEF Done
  <2>5. ASSUME NEW i \in Slots, NEW k \in Names,
               log'[i].done[k].action \notin LINKING \cup COPYING \cup REMOVING
        PROVE  ~ log'[i].done[k].backup /\ log'[i].done[k].link = "none"
    <3>1. CASE i = 1
      BY <2>4, <2>5, <3>1 DEF EntriesInv
    <3>2. CASE i # 1
      BY <2>3, <2>5, <3>2 DEF EntriesInv
    <3> QED
      BY <3>1, <3>2
  <2>6. tool'[n].kind = "none" /\ \A k \in Names \ {n} : tool'[k] = tool[k]
    BY <1>3, <2>2 DEF Set, Nowhere
  <2>7. \A k \in job'.todo : tool'[k].kind # "foreign"
    <3>1. job.todo \subseteq Names
      BY <1>0 DEF TypeOK, Job
    <3> QED
      BY <1>1, <2>1, <2>6, <3>1 DEF EntriesInv
  <2> QED
    BY <1>1, <2>1, <2>5, <2>6, <2>7 DEF EntriesInv
<1> QED
  BY <1>2, <1>3 DEF TakeAway

LEMMA EntriesPlaced ==
    ASSUME EntriesInv, PutInPlace
    PROVE  EntriesInv'
<1> DEFINE n == job.item
           linked == job.plan[n] = "replace_link_with_copy"
           link == IF linked THEN Taken.kind ELSE "none"
           entry == IF job.plan[n] \in COPYING THEN Dir(job.copied, TRUE) ELSE Link("ours")
<1>0. TypeInv /\ TypeOK
  BY DEF EntriesInv, TypeInv
<1>1. /\ TypeInv' /\ n \in Names /\ Taken \in Entry
      /\ Recorded(n) \in Content /\ link \in LinkKinds \cup {"none"}
  BY <1>0, PlacedType
<1>2. job.phase = "placing" /\ job.plan[n] \in TwoStep
  BY DEF PutInPlace, EntriesInv
<1>3. Finish(n, Recorded(n), ~ linked, link, Taken) /\ Set(n, entry)
  BY DEF PutInPlace
<1>4. entry \in Entry
  <2>1. job.copied \in Content
    BY <1>0 DEF TypeOK, Job
  <2> QED
    BY <2>1, EntryTypes DEF LinkKinds
<1>5. job.plan[n] \in LINKING \cup COPYING \cup REMOVING
  BY <1>2 DEF TwoStep, LINKING, COPYING
<1>6. (~ linked) \in BOOLEAN
  OBVIOUS
<1> HIDE DEF n, linked, link, entry
<1> QED
  BY <1>1, <1>2, <1>3, <1>4, <1>5, <1>6, EntriesFinish

LEMMA EntriesPutBack ==
    ASSUME EntriesInv, PutBack
    PROVE  EntriesInv'
<1> DEFINE n == job.item
<1>0. TypeInv /\ TypeOK
  BY DEF EntriesInv, TypeInv
<1>1. /\ TypeInv' /\ n \in Names
      /\ job'.phase = "running" /\ job'.todo = job.todo \ {n}
      /\ log'[1].done = [log[1].done EXCEPT ![n] = NotDone]
  BY <1>0, PuttingBack
<1>2. /\ log[1].done \in [Names -> Done] /\ tool \in [Names -> Entry]
      /\ job.todo \subseteq Names /\ job.phase = "placing"
      /\ tool' = [tool EXCEPT ![n] = Taken]
  BY <1>0, FirstSlot DEF TypeOK, Run, Job, PutBack, Set
<1>3. \A i \in Slots \ {1} : log'[i] = log[i]
  BY <1>0 DEF PutBack, TypeOK
<1>4. ASSUME NEW i \in Slots, NEW k \in Names,
             log'[i].done[k].action \notin LINKING \cup COPYING \cup REMOVING
      PROVE  ~ log'[i].done[k].backup /\ log'[i].done[k].link = "none"
  <2>1. ~ NotDone.backup /\ NotDone.link = "none"
    BY DEF NotDone
  <2>2. CASE i = 1 /\ k = n
    BY <1>1, <1>2, <2>1, <2>2
  <2>3. CASE i = 1 /\ k # n
    BY <1>1, <1>2, <1>4, <2>3 DEF EntriesInv
  <2>4. CASE i # 1
    BY <1>3, <1>4, <2>4 DEF EntriesInv
  <2> QED
    BY <2>2, <2>3, <2>4
<1>5. \A k \in job'.todo : tool'[k].kind # "foreign"
  BY <1>1, <1>2 DEF EntriesInv
<1> QED
  BY <1>1, <1>4, <1>5 DEF EntriesInv

\* No plan has to do with a link of another manager.
LEMMA EntriesBegin ==
    ASSUME EntriesInv, TypeInv', NEW by \in {"daemon", "operator"}, Begin(by)
    PROVE  EntriesInv'
<1>0. TypeInv /\ TypeOK
  BY DEF EntriesInv, TypeInv
<1>1. job'.phase = "running" /\ log'[1].done = NoRun.done
  BY <1>0, Begun
<1>2. ASSUME NEW n \in Names, tool[n].kind = "foreign"
      PROVE  PlanOf(n) \in NOOP_ACTIONS \cup {"none"}
  <2>1. PlanLink(n) = "foreign_link"
    BY <1>2 DEF PlanLink
  <2> QED
    BY <1>2, <2>1 DEF PlanOf, PlanEntry, Removal, NOOP_ACTIONS
<1>3. job'.todo = {n \in Names : PlanOf(n) \notin NOOP_ACTIONS \cup {"none"}}
  BY NoJobType DEF Begin, Job
<1>4. ASSUME NEW i \in Slots, i # 1 PROVE i - 1 \in Slots /\ log'[i] = log[i - 1]
  BY <1>4, KeepAssumption DEF Slots, Begin, Shifted
<1>5. ASSUME NEW i \in Slots, NEW k \in Names,
             log'[i].done[k].action \notin LINKING \cup COPYING \cup REMOVING
      PROVE  ~ log'[i].done[k].backup /\ log'[i].done[k].link = "none"
  <2>1. CASE i = 1
    BY <1>1, <2>1 DEF NoRun, NotDone
  <2>2. CASE i # 1
    BY <1>4, <1>5, <2>2 DEF EntriesInv
  <2> QED
    BY <2>1, <2>2
<1>6. tool' = tool
  BY DEF Begin
<1> QED
  BY <1>1, <1>2, <1>3, <1>5, <1>6 DEF EntriesInv

LEMMA EntriesInvInit == Init => EntriesInv
<1> SUFFICES ASSUME Init PROVE EntriesInv
  OBVIOUS
<1>1. TypeInv /\ job.phase = "idle"
  BY TypeInvInit DEF Init, NoJob
<1>2. \A i \in Slots, n \in Names : log[i].done[n] = NotDone
  BY DEF Init, NoRun
<1> QED
  BY <1>1, <1>2 DEF EntriesInv, NotDone

LEMMA EntriesInvNext ==
    ASSUME Alone, EntriesInv, [Next]_vars
    PROVE  EntriesInv'
<1>0. TypeInv /\ TypeOK /\ TypeInv'
  BY TypeInvNext DEF EntriesInv, TypeInv
<1>1. ASSUME NEW n \in Names, Item(n) PROVE EntriesInv'
  BY <1>0, <1>1, EntriesItem, EntriesTakeAway
<1>2. ASSUME NEW n \in Names, Undo(n) PROVE EntriesInv'
  <2>1. job'.phase = "rolling" /\ \A i \in Slots : log'[i].done = log[i].done
    BY <1>0, <1>2, Undone
  <2> QED
    BY <1>0, <2>1, EntriesOutside
<1>3. CASE PutInPlace
  BY <1>3, EntriesPlaced
<1>4. CASE SaveLedger
  <2>1. job'.phase = "saved" /\ log' = log
    BY <1>0, <1>4 DEF SaveLedger, TypeOK, Job
  <2> QED
    BY <1>0, <2>1, EntriesOutside
<1>5. CASE Close
  <2> DEFINE runs == [log EXCEPT ![1].written = TRUE]
  <2>1. runs \in [Slots -> Run] /\ \A i \in Slots : runs[i].done = log[i].done
    BY <1>0, FirstSlot DEF TypeOK, Run
  <2>2. \A i \in Slots : log'[i].done = log[i].done
    <3> HIDE DEF runs
    <3>1. log' = Pruned(runs)
      BY <1>5 DEF Close, runs
    <3> QED
      BY <2>1, <3>1, PrunedKeeps
  <2>3. job'.phase = "idle"
    BY <1>5 DEF Close, NoJob
  <2> QED
    BY <1>0, <2>2, <2>3, EntriesOutside
<1>6. CASE RollBackEnds \/ Crash
  <2>1. job'.phase = "idle" /\ log' = log
    BY <1>6 DEF RollBackEnds, Crash, NoJob
  <2> QED
    BY <1>0, <2>1, EntriesOutside
<1>7. CASE MaybeRun \/ IntervalPasses \/ UNCHANGED vars
  <2>1. UNCHANGED <<tool, log, job>>
    BY <1>7 DEF MaybeRun, IntervalPasses, vars
  <2> QED
    BY <1>0, <2>1, EntriesStutter
<1>8. CASE LockTimesOut
  <2>1. \A i \in Slots : log'[i].done = log[i].done
    BY <1>0, <1>8, PrunedKeeps DEF LockTimesOut, TypeOK
  <2>2. UNCHANGED <<tool, job>>
    BY <1>8 DEF LockTimesOut
  <2> QED
    BY <1>0, <2>1, <2>2, EntriesStutter
<1>9. CASE DaemonRun \/ OperatorRun
  BY <1>0, <1>9, EntriesBegin DEF DaemonRun, OperatorRun
<1>10. ASSUME NEW i \in RollbackSlots, RollBack(i) PROVE EntriesInv'
  <2>1. job'.phase = "rolling" /\ log' = log
    BY <1>10, NoJobType DEF RollBack, Job
  <2> QED
    BY <1>0, <2>1, EntriesOutside
<1>11. CASE PutBack
  BY <1>11, EntriesPutBack
<1>12. ASSUME NEW n \in Names, NEW entry, EditTool(n, entry) PROVE EntriesInv'
  <2>1. job'.phase \notin {"running", "placing"} /\ log' = log
    BY <1>12 DEF EditTool, Alone
  <2> QED
    BY <1>0, <2>1, EntriesOutside
<1>13. ASSUME NEW n \in Names, NEW c, EditCanonical(n, c) PROVE EntriesInv'
  <2>1. UNCHANGED <<tool, log, job>>
    BY <1>13 DEF EditCanonical
  <2> QED
    BY <1>0, <2>1, EntriesStutter
<1> QED
  BY <1>1, <1>2, <1>3, <1>4, <1>5, <1>6, <1>7, <1>8, <1>9, <1>10, <1>11, <1>12, <1>13
  DEF Next, Working, Scheduling, Environment

LEMMA EntriesInvariance == ASSUME Alone PROVE Spec => []EntriesInv
<1>1. Init => EntriesInv
  BY EntriesInvInit
<1>2. EntriesInv /\ [Next]_vars => EntriesInv'
  BY EntriesInvNext
<1> QED
  BY <1>1, <1>2, PTL DEF Spec

\* Which steps change an entry, but for those of others.
LEMMA EntrySteps ==
    ASSUME TypeInv, Next, counts'["tool"] = counts["tool"],
           NEW n \in Names, tool'[n] # tool[n]
    PROVE  \/ Item(n) \/ Undo(n)
           \/ (PutInPlace \/ PutBack) /\ n = job.item
<1>0. TypeOK /\ tool \in [Names -> Entry]
  BY DEF TypeInv, TypeOK
<1>1. ASSUME NEW k \in Names, Item(k), k # n PROVE FALSE
  <2>1. tool' = tool \/ \E entry : tool' = [tool EXCEPT ![k] = entry]
    BY <1>1 DEF Item, ExecuteLink, ExecuteRelink, ExecuteRemoveLink, ExecuteCopy,
                ExecuteAdopt, ExecuteRemoveCopy, TakeAway, Refuse, Set
  <2> QED
    BY <1>0, <1>1, <2>1
<1>2. ASSUME NEW k \in Names, Undo(k), k # n PROVE FALSE
  <2>1. tool' = tool \/ \E entry : tool' = [tool EXCEPT ![k] = entry]
    BY <1>2 DEF Undo, Set
  <2> QED
    BY <1>0, <1>2, <2>1
<1>3. ASSUME PutInPlace \/ PutBack PROVE n = job.item
  <2>1. \E entry : tool' = [tool EXCEPT ![job.item] = entry]
    BY <1>3 DEF PutInPlace, PutBack, Set
  <2> QED
    BY <1>0, <2>1
<1>4. ASSUME NEW k \in Names, NEW entry, EditTool(k, entry) PROVE FALSE
  <2>1. counts["tool"] \in Nat /\ counts \in [Counted -> Nat] /\ "tool" \in Counted
    BY <1>0 DEF TypeOK, Counted
  <2>2. counts' = [counts EXCEPT !["tool"] = counts["tool"] - 1]
    BY <1>4 DEF EditTool, Count
  <2> QED
    BY <2>1, <2>2
<1>5. ASSUME Working
      PROVE  \/ \E k \in Names : Item(k) \/ Undo(k)
             \/ PutInPlace \/ tool' = tool
  BY <1>5 DEF Working, SaveLedger, Close, RollBackEnds
<1>6. ASSUME Scheduling \/ IntervalPasses PROVE tool' = tool
  BY <1>6 DEF Scheduling, MaybeRun, LockTimesOut, DaemonRun, Begin, IntervalPasses
<1>7. ASSUME Environment PROVE PutBack \/ tool' = tool
  <2>1. ASSUME OperatorRun \/ Crash PROVE tool' = tool
    BY <2>1 DEF OperatorRun, Begin, Crash
  <2>2. ASSUME NEW i \in RollbackSlots, RollBack(i) PROVE tool' = tool
    BY <2>2 DEF RollBack
  <2>3. ASSUME NEW k \in Names, NEW c \in Content, EditCanonical(k, c)
        PROVE  tool' = tool
    BY <2>3 DEF EditCanonical
  <2>4. ASSUME NEW k \in Names, NEW v \in Versions, EditTool(k, Dir(v, FALSE))
        PROVE  FALSE
    BY <1>4, <2>4
  <2>5. ASSUME NEW k \in Names, NEW e \in {Nowhere, Link("foreign")}, EditTool(k, e)
        PROVE  FALSE
    BY <1>4, <2>5
  <2> QED
    BY <1>7, <2>1, <2>2, <2>3, <2>4, <2>5 DEF Environment
<1> QED
  BY <1>1, <1>2, <1>3, <1>4, <1>5, <1>6, <1>7 DEF Next

\* What a rollback touches at all: links that are the fan-out's, copies with the
\* hash the run placed, and places where nothing is.
LEMMA UndoneEntry ==
    ASSUME EntriesInv, NEW n \in Names, Undo(n), tool'[n] # tool[n]
    PROVE  \/ tool[n].kind \in {"ours", "none"}
           \/ tool[n].kind = "dir" /\ tool[n].hash = log[job.slot].done[n].hash
<1> DEFINE done == log[job.slot].done[n]
           kept == log[job.slot].backup[n]
           left == IF done.action \in LINKING \cup COPYING THEN Nowhere ELSE tool[n]
<1>0. TypeOK /\ tool \in [Names -> Entry] /\ job.slot \in Slots
  BY DEF EntriesInv, TypeInv, TypeOK, Job
<1>1. StillOurs(n, done)
  BY DEF Undo
<1>2. CASE done.action \in LINKING
  <2> HIDE DEF done
  <2>1. done.action \notin COPYING /\ done.action \notin REMOVING
    BY <1>2 DEF LINKING, COPYING, REMOVING
  <2> QED
    BY <1>1, <1>2, <2>1 DEF StillOurs
<1>3. CASE done.action \in COPYING
  <2>1. tool[n].kind = "dir" /\ tool[n].hash = done.hash
    <3> HIDE DEF done
    <3>1. done.action \notin LINKING /\ done.action \notin REMOVING
      BY <1>3 DEF LINKING, COPYING, REMOVING
    <3> QED
      BY <1>1, <1>3, <3>1 DEF StillOurs
  <2> QED
    BY <2>1
<1>4. CASE done.action \in REMOVING
  <2> HIDE DEF done
  <2>1. done.action \notin LINKING /\ done.action \notin COPYING
    BY <1>4 DEF LINKING, COPYING, REMOVING
  <2>2. ~ Present(n)
    BY <1>1, <1>4, <2>1 DEF StillOurs
  <2> QED
    BY <1>0, <2>2 DEF Present
<1>5. CASE done.action \notin LINKING \cup COPYING \cup REMOVING
  <2>1. ~ done.backup /\ done.link = "none" /\ left = tool[n]
    BY <1>0, <1>5 DEF EntriesInv
  <2>2. tool' = [tool EXCEPT ![n] = tool[n]]
    BY <1>1, <2>1 DEF Undo, Set
  <2> QED
    BY <1>0, <2>2
<1> QED
  BY <1>2, <1>3, <1>4, <1>5

\* Nobody's directory is lost: what runs and rollbacks take out of the tool's
\* root is in a backup, or was the fan-out's own copy, or was placed by the run
\* that is undone.
THEOREM ReplacedIsKeptEver == ASSUME Alone PROVE Spec => ReplacedIsKept
<1> DEFINE Kept ==
        \A n \in Names :
           tool[n].kind = "dir" /\ tool'[n] # tool[n] =>
              \/ \E i \in Slots : log'[i].backup[n] = tool[n]
              \/ tool[n].own
              \/ job.phase = "rolling" /\ tool[n].hash = log[job.slot].done[n].hash
<1>1. EntriesInv /\ [Next]_vars => [counts'["tool"] = counts["tool"] => Kept]_vars
  <2> SUFFICES ASSUME EntriesInv, Next, counts'["tool"] = counts["tool"],
                      NEW n \in Names, tool[n].kind = "dir", tool'[n] # tool[n]
               PROVE  \/ \E i \in Slots : log'[i].backup[n] = tool[n]
                      \/ job.phase = "rolling" /\ tool[n].hash = log[job.slot].done[n].hash
    BY DEF vars
  <2>0. TypeInv /\ TypeOK /\ tool[n] \in Entry /\ 1 \in Slots
        /\ log \in [Slots -> Run] /\ log[1] \in Run
        /\ tool[n].kind \notin LinkKinds /\ Present(n)
    BY FirstSlot DEF EntriesInv, TypeInv, TypeOK, LinkKinds, Present
  <2>1. ASSUME Item(n), ~ TakeAway(n) PROVE log'[1].backup[n] = tool[n]
    <3>1. ExecuteRemoveCopy(n)
      BY <2>0, <2>1 DEF Item, ExecuteLink, ExecuteRelink, ExecuteRemoveLink,
                        ExecuteCopy, ExecuteAdopt, Refuse
    <3>2. Finish(n, Absent, TRUE, "none", tool[n])
      BY <2>0, <3>1 DEF ExecuteRemoveCopy
    <3>3. log' = [log EXCEPT
                     ![1].done[n] = [action |-> job.plan[n], hash |-> job.hash[n],
                                     backup |-> TRUE, link |-> "none", was |-> tool[n]],
                     ![1].backup[n] = tool[n],
                     ![1].stored = @ \/ TRUE]
      BY <3>2 DEF Finish
    <3> QED
      BY <2>0, <3>3 DEF Run
  <2>2. ASSUME TakeAway(n) PROVE log'[1].backup[n] = tool[n]
    <3>1. Replaceable(n) /\ Take(n)
      BY <2>2 DEF TakeAway, Refuse
    <3>2. job.plan[n] # "replace_link_with_copy"
      BY <2>0, <3>1 DEF Replaceable
    <3>3. log' = [log EXCEPT ![1].done[n].was = tool[n],
                             ![1].backup[n] = tool[n], ![1].stored = TRUE]
      BY <3>1, <3>2 DEF Take
    <3> QED
      BY <2>0, <3>3 DEF Run
  <2>3. ASSUME PutInPlace \/ PutBack, n = job.item PROVE FALSE
    BY <2>3 DEF EntriesInv, PutInPlace, PutBack
  <2>4. ASSUME Undo(n)
        PROVE  job.phase = "rolling" /\ tool[n].hash = log[job.slot].done[n].hash
    <3>1. job.phase = "rolling"
      BY <2>4 DEF Undo
    <3> QED
      BY <2>4, <3>1, UndoneEntry
  <2> QED
    BY <2>0, <2>1, <2>2, <2>3, <2>4, EntrySteps
<1> QED
  BY EntriesInvariance, <1>1, PTL DEF Spec, ReplacedIsKept

\* A link of another manager survives every run and every rollback.
THEOREM ForeignUntouchedEver == ASSUME Alone PROVE Spec => ForeignUntouched
<1> DEFINE Untouched ==
        \A n \in Names : tool[n].kind = "foreign" => tool'[n] = tool[n]
<1>1. EntriesInv /\ [Next]_vars => [counts'["tool"] = counts["tool"] => Untouched]_vars
  <2> SUFFICES ASSUME EntriesInv, Next, counts'["tool"] = counts["tool"],
                      NEW n \in Names, tool[n].kind = "foreign", tool'[n] # tool[n]
               PROVE  FALSE
    BY DEF vars
  <2>0. TypeInv
    BY DEF EntriesInv
  <2>1. ASSUME Item(n) PROVE FALSE
    <3>1. job.phase = "running" /\ n \in job.todo
      BY <2>1 DEF Item, ExecuteLink, ExecuteRelink, ExecuteRemoveLink, ExecuteCopy,
                  ExecuteAdopt, ExecuteRemoveCopy, TakeAway, Todo
    <3> QED
      BY <3>1 DEF EntriesInv
  <2>2. ASSUME PutInPlace \/ PutBack, n = job.item PROVE FALSE
    BY <2>2 DEF EntriesInv, PutInPlace, PutBack
  <2>3. ASSUME Undo(n) PROVE FALSE
    BY <2>3, UndoneEntry
  <2> QED
    BY <2>0, <2>1, <2>2, <2>3, EntrySteps
<1> QED
  BY EntriesInvariance, <1>1, PTL DEF Spec, ForeignUntouched


-----------------------------------------------------------------------------
(* What a rollback restores *)

\* Pruning leaves the last run alone, as long as one backup may stay.
LEMMA PrunedLast ==
    ASSUME Keep # 0, NEW runs \in [Slots -> Run]
    PROVE  Pruned(runs)[1] = runs[1]
<1>1. 1 \in Slots
  BY FirstSlot
<1>2. ASSUME runs[1].stored PROVE {j \in 1..1 : runs[j].stored} = {1}
  BY <1>2
<1>3. ASSUME runs[1].stored PROVE Cardinality({j \in 1..1 : runs[j].stored}) = 1
  BY <1>2, <1>3, FS_Singleton
<1>4. ~ (1 > Keep)
  BY KeepAssumption
<1>5. ~ (runs[1].stored /\ Cardinality({j \in 1..1 : runs[j].stored}) > Keep)
  BY <1>3, <1>4
<1> QED
  BY <1>1, <1>5 DEF Pruned

LEMMA BareEntries ==
    /\ Bare(Nowhere)
    /\ \A kind : Bare(Link(kind))
    /\ \A version, own : Bare(Dir(version, own))
BY DEF Bare, Nowhere, Link, Dir

LEMMA RollbackInvInit == OneRollback /\ Init => RollbackInv
<1> SUFFICES ASSUME OneRollback, Init PROVE RollbackInv
  OBVIOUS
<1>1. TypeInv /\ job.phase = "idle"
  BY TypeInvInit DEF Init, NoJob
<1>2. 1 \in Slots /\ log[1] = NoRun
  BY FirstSlot DEF Init
<1>3. PICK w \in Worlds : tool = w.tool /\ counts = w.bounds
  BY DEF Init
<1>4. \A n \in Names : Bare(tool[n])
  BY <1>3, ToolAssumption DEF Bare
<1>5. \A n \in Names : log[1].done[n] = NotDone
  BY <1>2 DEF NoRun
<1>6. /\ Bare(NotDone.was) /\ NotDone.action = "none"
      /\ \A n \in Names : Bare(log[1].backup[n])
  BY <1>2, BareEntries DEF NotDone, NoRun
<1>7. "none" \notin NOOP_ACTIONS /\ "none" \notin Replacing
  BY DEF NOOP_ACTIONS, Replacing, LINKING, COPYING, REMOVING
<1>8. counts["rollbacks"] <= 1
  BY <1>3 DEF OneRollback
<1>9. \A n \in Names : Restorable(n)
  BY <1>5, <1>6, <1>7 DEF Restorable
<1> QED
  BY <1>1, <1>4, <1>5, <1>6, <1>7, <1>8, <1>9 DEF RollbackInv

\* A step that changes neither the job nor what the last record says.
LEMMA RollbackStutter ==
    ASSUME RollbackInv, TypeInv', job' = job,
           \A n \in Names : Bare(tool'[n]),
           job.phase = "rolling" => tool' = tool,
           log'[1].done = log[1].done, log'[1].backup = log[1].backup,
           counts'["rollbacks"] = counts["rollbacks"]
    PROVE  RollbackInv'
<1>1. \A n \in Names : Restorable(n) => Restorable(n)'
  BY DEF Restorable
<1>2. \A n \in Names : TodoFacts(n) => TodoFacts(n)'
  BY DEF TodoFacts
<1>3. job.phase = "rolling" => \A n \in Names : Restored(n) => Restored(n)'
  BY DEF Restored
<1>4. job.phase = "placing" => Taken' = Taken
  BY DEF Taken
<1>5. job.todo \subseteq Names /\ job.undone \subseteq Names
  BY DEF RollbackInv, TypeInv, TypeOK, Job
<1> QED
  BY <1>1, <1>2, <1>3, <1>4, <1>5 DEF RollbackInv

\* A job that ends leaves the record for a rollback.
LEMMA RollbackOutside ==
    ASSUME RollbackInv, TypeInv', job'.phase \in {"idle", "saved"}, tool' = tool,
           log'[1].done = log[1].done, log'[1].backup = log[1].backup,
           counts'["rollbacks"] = counts["rollbacks"]
    PROVE  RollbackInv'
<1>1. \A n \in Names : Restorable(n) => Restorable(n)'
  BY DEF Restorable
<1> QED
  BY <1>1 DEF RollbackInv, Bare

\* A refused item leaves the list.
LEMMA RollbackRefused ==
    ASSUME RollbackInv, TypeInv', NEW n \in Names, Refuse(n), job.phase = "running",
           counts' = counts
    PROVE  RollbackInv'
<1>1. /\ UNCHANGED <<tool, log>> /\ job'.todo = job.todo \ {n}
      /\ job'.phase = "running" /\ job'.plan = job.plan
  BY Refused DEF RollbackInv, TypeInv
<1>2. \A k \in Names : Restorable(k) => Restorable(k)'
  BY <1>1 DEF Restorable
<1>3. \A k \in Names : TodoFacts(k) => TodoFacts(k)'
  BY <1>1 DEF TodoFacts
<1>4. job.todo \subseteq Names
  BY DEF RollbackInv, TypeInv, TypeOK, Job
<1> QED
  BY <1>1, <1>2, <1>3, <1>4 DEF RollbackInv, Bare

\* A finished item has a record from which it can be restored.
LEMMA RollbackFinish ==
    ASSUME RollbackInv, TypeInv', NEW n \in Names,
           job.phase \in {"running", "placing"}, n \in job.todo,
           NEW held \in Content, NEW backup \in BOOLEAN,
           NEW link \in LinkKinds \cup {"none"}, NEW was \in Entry, NEW entry \in Entry,
           Finish(n, held, backup, link, was), Set(n, entry), counts' = counts,
           Bare(was), Bare(entry),
           job.plan[n] \in Replacing =>
              /\ was.kind = "none" => job.plan[n] \in {"link", "copy"}
              /\ IF backup THEN was.kind # "none" ELSE was.kind = link
    PROVE  RollbackInv'
<1>0. TypeOK
  BY DEF RollbackInv, TypeInv
<1>1. /\ job'.phase = "running" /\ job'.todo = job.todo \ {n}
      /\ job'.plan = job.plan /\ job'.hash = job.hash
      /\ job'.held = [job.held EXCEPT ![n] = held]
      /\ log'[1].before = log[1].before
      /\ log'[1].done = [log[1].done EXCEPT ![n] =
            [action |-> job.plan[n], hash |-> job.hash[n],
             backup |-> backup, link |-> link, was |-> was]]
      /\ log'[1].backup = [log[1].backup EXCEPT ![n] = IF backup THEN was ELSE @]
  BY <1>0, Finished
<1>2. /\ log[1].done \in [Names -> Done] /\ log[1].backup \in [Names -> Entry]
      /\ tool \in [Names -> Entry]
  BY <1>0, FirstSlot DEF TypeOK, Run
<1>3. \A k \in Names \ {n} :
         /\ tool'[k] = tool[k] /\ log'[1].done[k] = log[1].done[k]
         /\ log'[1].backup[k] = log[1].backup[k]
  BY <1>1, <1>2 DEF Set
<1>4. /\ log'[1].done[n].action = job.plan[n] /\ log'[1].done[n].backup = backup
      /\ log'[1].done[n].link = link /\ log'[1].done[n].was = was
      /\ log'[1].backup[n] = IF backup THEN was ELSE log[1].backup[n]
      /\ tool'[n] = entry
  BY <1>1, <1>2 DEF Set
<1>5. TodoFacts(n) /\ job.todo \subseteq Names
  BY <1>0 DEF RollbackInv, TypeOK, Job
<1>6. Restorable(n)'
  <2>1. ~ backup /\ was.kind = link => was.hash = Absent
    BY DEF Bare, LinkKinds
  <2> QED
    BY <1>4, <2>1 DEF Restorable
<1>7. \A k \in Names \ {n} : Restorable(k) => Restorable(k)'
  BY <1>3 DEF Restorable
<1>8. \A k \in job'.todo : TodoFacts(k)'
  BY <1>1, <1>3, <1>5 DEF RollbackInv, TodoFacts
<1>9. \A k \in Names : /\ Bare(tool[k]') /\ Bare(log[1].backup[k]')
                       /\ Bare(log[1].done[k].was')
                       /\ log[1].done[k].action' \notin NOOP_ACTIONS
  BY <1>3, <1>4, <1>5 DEF RollbackInv, TodoFacts
<1> QED
  BY <1>1, <1>6, <1>7, <1>8, <1>9 DEF RollbackInv

LEMMA RollbackItem ==
    ASSUME RollbackInv, TypeInv', NEW n \in Names, Item(n), ~ TakeAway(n)
    PROVE  RollbackInv'
<1>0. TypeOK
  BY DEF RollbackInv, TypeInv
<1>1. /\ tool[n] \in Entry /\ tool[n].kind \in LinkKinds \cup {"none", "dir"}
      /\ job.held[n] \in Content /\ job.hash[n] \in Content /\ canonical[n] \in Content
      /\ Absent \in Content /\ Link("ours") \in Entry /\ Nowhere \in Entry
      /\ tool = [tool EXCEPT ![n] = tool[n]]
  BY <1>0, EntryTypes DEF TypeOK, Entry, Job, Contents, Content, LinkKinds
<1>2. Bare(tool[n]) /\ Bare(Link("ours")) /\ Bare(Nowhere)
  BY BareEntries DEF RollbackInv
<1>3. /\ job.phase = "running" /\ n \in job.todo /\ counts' = counts
  BY DEF Item, ExecuteLink, ExecuteRelink, ExecuteRemoveLink, ExecuteCopy,
         ExecuteAdopt, ExecuteRemoveCopy, Todo, Unrecorded
<1>4. CASE Refuse(n)
  BY <1>3, <1>4, RollbackRefused
<1>5. CASE ExecuteLink(n) /\ ~ Refuse(n)
  <2>1. /\ tool[n].kind = "none" /\ job.plan[n] = "link" /\ Set(n, Link("ours"))
        /\ Finish(n, job.held[n], FALSE, "none", tool[n])
    BY <1>5 DEF ExecuteLink, Todo, Present
  <2> QED
    BY <1>1, <1>2, <1>3, <2>1, RollbackFinish
<1>6. CASE ExecuteRelink(n) /\ ~ Refuse(n)
  <2>1. /\ tool[n].kind \in LinkKinds /\ Set(n, Link("ours"))
        /\ Finish(n, job.held[n], FALSE, tool[n].kind, tool[n])
    BY <1>6 DEF ExecuteRelink
  <2>2. tool[n].kind # "none"
    BY <2>1 DEF LinkKinds
  <2> QED
    BY <1>1, <1>2, <1>3, <2>1, <2>2, RollbackFinish
<1>7. CASE ExecuteRemoveLink(n) /\ ~ Refuse(n)
  <2>1. /\ tool[n].kind \in LinkKinds /\ Set(n, Nowhere)
        /\ Finish(n, job.held[n], FALSE, tool[n].kind, tool[n])
    BY <1>7 DEF ExecuteRemoveLink
  <2>2. tool[n].kind # "none"
    BY <2>1 DEF LinkKinds
  <2> QED
    BY <1>1, <1>2, <1>3, <2>1, <2>2, RollbackFinish
<1>8. CASE ExecuteCopy(n) /\ ~ Refuse(n)
  <2>1. /\ tool[n].kind = "none" /\ job.plan[n] = "copy"
        /\ Set(n, Dir(canonical[n], TRUE))
        /\ Finish(n, job.hash[n], FALSE, "none", tool[n])
    BY <1>8 DEF ExecuteCopy, Todo, Present
  <2>2. Dir(canonical[n], TRUE) \in Entry /\ Bare(Dir(canonical[n], TRUE))
    BY <1>1, EntryTypes, BareEntries
  <2> QED
    BY <1>1, <1>2, <1>3, <2>1, <2>2, RollbackFinish
<1>9. CASE ExecuteAdopt(n)
  <2>1. /\ Set(n, tool[n]) /\ job.plan[n] = "adopt"
        /\ Finish(n, job.hash[n], FALSE, "none", tool[n])
    BY <1>1, <1>9 DEF ExecuteAdopt, Set, Todo
  <2>2. job.plan[n] \notin Replacing
    BY <2>1 DEF Replacing, LINKING, COPYING, REMOVING
  <2> QED
    BY <1>1, <1>2, <1>3, <2>1, <2>2, RollbackFinish
<1>10. CASE ExecuteRemoveCopy(n) /\ ~ Refuse(n)
  <2>1. /\ tool[n].kind # "none" /\ Set(n, Nowhere)
        /\ Finish(n, Absent, TRUE, "none", tool[n])
    BY <1>10 DEF ExecuteRemoveCopy, Present
  <2> QED
    BY <1>1, <1>2, <1>3, <2>1, RollbackFinish
<1> QED
  BY <1>4, <1>5, <1>6, <1>7, <1>8, <1>9, <1>10 DEF Item

\* The first step of a replacement keeps what it took away.
LEMMA RollbackTakeAway ==
    ASSUME RollbackInv, TypeInv', NEW n \in Names, TakeAway(n)
    PROVE  RollbackInv'
<1>0. TypeOK
  BY DEF RollbackInv, TypeInv
<1>1. /\ job.phase = "running" /\ n \in job.todo /\ job.plan[n] \in TwoStep
      /\ counts' = counts
  BY DEF TakeAway, Unrecorded
<1>2. CASE Refuse(n)
  BY <1>1, <1>2, RollbackRefused
<1>3. CASE Replaceable(n) /\ Take(n) /\ Set(n, Nowhere)
  <2>1. /\ job'.phase = "placing" /\ job'.item = n
        /\ job'.todo = job.todo /\ job'.plan = job.plan
        /\ log'[1].done = [log[1].done EXCEPT ![n] = [@ EXCEPT !.was = tool[n]]]
        /\ log'[1].backup \in {log[1].backup, [log[1].backup EXCEPT ![n] = tool[n]]}
    BY <1>0, <1>3, TakenAway
  <2>2. /\ log[1].done \in [Names -> Done] /\ log[1].backup \in [Names -> Entry]
        /\ tool \in [Names -> Entry] /\ job.todo \subseteq Names
    BY <1>0, FirstSlot DEF TypeOK, Run, Job
  <2>3. \A k \in Names \ {n} :
           /\ tool'[k] = tool[k] /\ log'[1].done[k] = log[1].done[k]
           /\ log'[1].backup[k] = log[1].backup[k]
    BY <1>3, <2>1, <2>2 DEF Set
  <2>4. /\ log'[1].done[n].action = log[1].done[n].action
        /\ log'[1].done[n].was = tool[n] /\ tool'[n] = Nowhere
        /\ log'[1].backup[n] \in {log[1].backup[n], tool[n]}
    BY <1>3, <2>1, <2>2 DEF Set, Done
  <2>5. TodoFacts(n)
    BY <1>1 DEF RollbackInv
  <2>6. tool[n].kind # "none"
    BY <1>3 DEF Replaceable, Present, LinkKinds
  <2>7. Restorable(n)'
    <3>1. log'[1].done[n].action \notin Replacing
      BY <2>4, <2>5 DEF TodoFacts, Replacing, LINKING, COPYING, REMOVING
    <3> QED
      BY <3>1 DEF Restorable
  <2>8. \A k \in Names \ {n} : Restorable(k) => Restorable(k)'
    BY <2>3 DEF Restorable
  <2>9. ASSUME NEW k \in job'.todo PROVE TodoFacts(k)'
    <3>1. TodoFacts(k) /\ k \in Names
      BY <1>1, <2>1, <2>2 DEF RollbackInv
    <3>2. log'[1].done[k].action = log[1].done[k].action
      BY <2>3, <2>4, <3>1
    <3> QED
      BY <2>1, <3>1, <3>2 DEF TodoFacts
  <2>10. \A k \in Names : /\ Bare(tool[k]') /\ Bare(log[1].backup[k]')
                          /\ Bare(log[1].done[k].was')
                          /\ log[1].done[k].action' \notin NOOP_ACTIONS
    BY <2>3, <2>4, BareEntries DEF RollbackInv
  <2>11. Taken' = tool[n]
    BY <2>1, <2>4 DEF Taken
  <2> QED
    BY <1>1, <2>1, <2>6, <2>7, <2>8, <2>9, <2>10, <2>11 DEF RollbackInv
<1> QED
  BY <1>2, <1>3 DEF TakeAway

LEMMA RollbackPlaced ==
    ASSUME RollbackInv, PutInPlace
    PROVE  RollbackInv'
<1> DEFINE n == job.item
           linked == job.plan[n] = "replace_link_with_copy"
           link == IF linked THEN Taken.kind ELSE "none"
           entry == IF job.plan[n] \in COPYING THEN Dir(job.copied, TRUE) ELSE Link("ours")
<1>0. TypeInv /\ TypeOK
  BY DEF RollbackInv, TypeInv
<1>1. /\ TypeInv' /\ n \in Names /\ Taken \in Entry
      /\ Recorded(n) \in Content /\ link \in LinkKinds \cup {"none"}
  BY <1>0, PlacedType
<1>2. /\ job.phase = "placing" /\ n \in job.todo /\ counts' = counts
      /\ Taken.kind # "none"
  BY <1>0 DEF PutInPlace, RollbackInv, TypeInv, PlacingOne, Unrecorded
<1>3. Finish(n, Recorded(n), ~ linked, link, Taken) /\ Set(n, entry)
  BY DEF PutInPlace
<1>4. entry \in Entry
  <2>1. job.copied \in Content
    BY <1>0 DEF TypeOK, Job
  <2> QED
    BY <2>1, EntryTypes DEF LinkKinds
<1>5. Bare(Taken) /\ Bare(entry)
  BY <1>1, BareEntries DEF RollbackInv, Taken
<1>6. (~ linked) \in BOOLEAN
  OBVIOUS
<1>7. IF ~ linked THEN Taken.kind # "none" ELSE Taken.kind = link
  BY <1>2
<1> HIDE DEF n, linked, link, entry
<1> QED
  BY <1>1, <1>2, <1>3, <1>4, <1>5, <1>6, <1>7, RollbackFinish

\* What is put back is as it was.
LEMMA RollbackPutBack ==
    ASSUME RollbackInv, PutBack
    PROVE  RollbackInv'
<1>0. TypeInv /\ TypeOK
  BY DEF RollbackInv, TypeInv
<1> PICK n \in Names : n = job.item
  BY <1>0, PuttingBack
<1>1. /\ TypeInv' /\ Taken \in Entry
      /\ job'.phase = "running" /\ job'.todo = job.todo \ {n}
      /\ job'.plan = job.plan /\ job'.hash = job.hash /\ job'.held = job.held
      /\ log'[1].before = log[1].before
      /\ log'[1].done = [log[1].done EXCEPT ![n] = NotDone]
      /\ log'[1].backup = [log[1].backup EXCEPT ![n] = Nowhere]
  BY <1>0, PuttingBack
<1>2. /\ log[1].done \in [Names -> Done] /\ log[1].backup \in [Names -> Entry]
      /\ tool \in [Names -> Entry] /\ job.todo \subseteq Names
      /\ tool' = [tool EXCEPT ![n] = Taken] /\ job.phase = "placing"
  BY <1>0, FirstSlot DEF TypeOK, Run, Job, PutBack, Set
<1>3. \A k \in Names \ {n} :
         /\ tool'[k] = tool[k] /\ log'[1].done[k] = log[1].done[k]
         /\ log'[1].backup[k] = log[1].backup[k]
  BY <1>1, <1>2
<1>4. log'[1].done[n] = NotDone /\ log'[1].backup[n] = Nowhere /\ tool'[n] = Taken
  BY <1>1, <1>2
<1>5. /\ Bare(Taken) /\ Bare(NotDone.was) /\ Bare(Nowhere)
      /\ NotDone.action = "none"
  BY <1>1, BareEntries DEF RollbackInv, Taken, NotDone
<1>6. "none" \notin NOOP_ACTIONS /\ "none" \notin Replacing
  BY DEF NOOP_ACTIONS, Replacing, LINKING, COPYING, REMOVING
<1>7. Restorable(n)'
  BY <1>4, <1>5, <1>6 DEF Restorable
<1>8. \A k \in Names \ {n} : Restorable(k) => Restorable(k)'
  BY <1>3 DEF Restorable
<1>9. counts'["rollbacks"] = counts["rollbacks"]
  BY <1>0, CountType DEF PutBack, Counted
<1>10. counts'["rollbacks"] = 1 => \A k \in Names : Restorable(k)'
  BY <1>7, <1>8, <1>9 DEF RollbackInv
<1>11. \A k \in job'.todo : TodoFacts(k)'
  BY <1>1, <1>2, <1>3 DEF RollbackInv, TodoFacts
<1>12. \A k \in Names : /\ Bare(tool[k]') /\ Bare(log[1].backup[k]')
                        /\ Bare(log[1].done[k].was')
                        /\ log[1].done[k].action' \notin NOOP_ACTIONS
  BY <1>3, <1>4, <1>5, <1>6 DEF RollbackInv
<1>13. job'.phase \notin {"placing", "rolling"} /\ counts'["rollbacks"] <= 1
  BY <1>1, <1>9 DEF RollbackInv
<1> QED
  BY <1>1, <1>10, <1>11, <1>12, <1>13 DEF RollbackInv

\* A run begins with an empty record and something to do for every item.
LEMMA RollbackBegin ==
    ASSUME RollbackInv, TypeInv', NEW by \in {"daemon", "operator"}, Begin(by),
           counts'["rollbacks"] = counts["rollbacks"]
    PROVE  RollbackInv'
<1>0. TypeInv /\ TypeOK
  BY DEF RollbackInv, TypeInv
<1>1. /\ job'.phase = "running" /\ job'.plan = [n \in Names |-> PlanOf(n)]
      /\ log'[1].done = NoRun.done /\ log'[1].backup = NoRun.backup /\ tool' = tool
  BY <1>0, Begun DEF Begin
<1>2. job'.todo = {n \in Names : PlanOf(n) \notin NOOP_ACTIONS \cup {"none"}}
  BY NoJobType DEF Begin, Job
<1>3. \A n \in Names : log'[1].done[n] = NotDone /\ log'[1].backup[n] = Nowhere
  BY <1>1 DEF NoRun
<1>4. Bare(NotDone.was) /\ Bare(Nowhere) /\ NotDone.action = "none"
  BY BareEntries DEF NotDone
<1>5. "none" \notin NOOP_ACTIONS /\ "none" \notin Replacing
  BY DEF NOOP_ACTIONS, Replacing, LINKING, COPYING, REMOVING
<1>6. \A n \in Names : Restorable(n)'
  BY <1>3, <1>4, <1>5 DEF Restorable
<1>7. \A n \in job'.todo : TodoFacts(n)'
  BY <1>1, <1>2, <1>3, <1>4 DEF TodoFacts
<1>8. \A n \in Names : /\ Bare(tool[n]') /\ Bare(log[1].backup[n]')
                       /\ Bare(log[1].done[n].was')
                       /\ log[1].done[n].action' \notin NOOP_ACTIONS
  BY <1>1, <1>3, <1>4, <1>5 DEF RollbackInv
<1> QED
  BY <1>1, <1>6, <1>7, <1>8 DEF RollbackInv

\* The one rollback starts from a record that restores everything.
LEMMA RollbackStarts ==
    ASSUME OneRollback, RollbackInv, TypeInv', NEW i \in RollbackSlots, RollBack(i)
    PROVE  RollbackInv'
<1>0. TypeInv /\ TypeOK /\ i = 1
  BY DEF RollbackInv, TypeInv, OneRollback
<1>1. /\ UNCHANGED <<tool, log>>
      /\ job' = [NoJob EXCEPT !.phase = "rolling", !.slot = i,
                    !.todo = {n \in Names : log[i].done[n].action # "none"}]
  BY DEF RollBack
<1>2. job'.phase = "rolling" /\ job'.slot = 1 /\ job'.todo \subseteq Names
      /\ job'.undone = {} /\ \A n \in job'.todo : log[1].done[n].action # "none"
  BY <1>0, <1>1 DEF NoJob
<1>3. counts["rollbacks"] = 1 /\ counts'["rollbacks"] = 0
  <2>1. counts["rollbacks"] \in Nat /\ counts["rollbacks"] > 0
    BY <1>0, CountType DEF RollBack, Counted, TypeOK
  <2>2. counts["rollbacks"] = 1
    BY <2>1 DEF RollbackInv
  <2> QED
    BY <1>0, <2>2 DEF RollBack, Count, TypeOK, Counted
<1>4. \A n \in Names : Restorable(n)'
  BY <1>1, <1>3 DEF RollbackInv, Restorable
<1>5. \A n \in Names : /\ Bare(tool[n]') /\ Bare(log[1].backup[n]')
                       /\ Bare(log[1].done[n].was')
                       /\ log[1].done[n].action' \notin NOOP_ACTIONS
  BY <1>1 DEF RollbackInv
<1> QED
  BY <1>1, <1>2, <1>3, <1>4, <1>5 DEF RollbackInv

\* An item that is undone is as the run found it.
LEMMA RollbackUndone ==
    ASSUME RollbackInv, NEW n \in Names, Undo(n)
    PROVE  RollbackInv'
<1> DEFINE done == log[1].done[n]
           kept == log[1].backup[n]
           left == IF done.action \in LINKING \cup COPYING THEN Nowhere ELSE tool[n]
           entry == IF done.backup /\ kept.kind # "none" THEN kept
                    ELSE IF done.link # "none" /\ left.kind = "none"
                    THEN Link(done.link) ELSE left
<1>0. TypeInv /\ TypeOK
  BY DEF RollbackInv, TypeInv
<1>1. /\ job.phase = "rolling" /\ job.slot = 1 /\ n \in job.todo
      /\ counts["rollbacks"] = 0 /\ counts' = counts
      /\ Restorable(n) /\ done.action # "none" /\ done.action \notin NOOP_ACTIONS
      /\ Bare(tool[n]) /\ Bare(kept) /\ Bare(done.was)
  BY DEF Undo, Unrecorded, RollbackInv
<1>2. /\ TypeInv' /\ job'.todo = job.todo \ {n} /\ job'.phase = "rolling"
      /\ job'.slot = 1 /\ log'[1].done = log[1].done
      /\ log'[1].backup \in {log[1].backup, [log[1].backup EXCEPT ![n] = Nowhere]}
  BY <1>0, <1>1, Undone, FirstSlot
<1>3. /\ tool \in [Names -> Entry] /\ log[1].backup \in [Names -> Entry]
      /\ done \in Done /\ job.todo \subseteq Names /\ job.undone \subseteq Names
      /\ job \in Job
  BY <1>0, FirstSlot DEF TypeOK, Run, Job
<1>4. \/ /\ StillOurs(n, done) /\ tool' = [tool EXCEPT ![n] = entry]
         /\ job'.undone = job.undone \cup {n}
      \/ tool' = tool /\ job'.undone = job.undone
  BY <1>1, <1>3 DEF Undo, Set, Job
<1>5. \A k \in Names \ {n} : log'[1].backup[k] = log[1].backup[k] /\ tool'[k] = tool[k]
  BY <1>2, <1>3, <1>4
<1>6. ASSUME StillOurs(n, done), done.action # "adopt"
      PROVE  entry.kind = done.was.kind /\ entry.hash = done.was.hash
  <2>1. done.action \in Replacing
    BY <1>1, <1>3, <1>6 DEF Done, Actions, Replacing
  <2>2. CASE done.backup
    BY <1>1, <2>1, <2>2 DEF Restorable
  <2>3. CASE ~ done.backup
    <3>1. done.was.kind = done.link /\ done.was.hash = Absent
      BY <1>1, <2>1, <2>3 DEF Restorable
    <3>2. CASE done.action \in LINKING \cup COPYING
      BY <2>3, <3>1, <3>2 DEF Nowhere, Link
    <3>3. CASE done.action \notin LINKING \cup COPYING
      <4>1. done.action \in REMOVING
        BY <2>1, <3>3 DEF Replacing
      <4>2. ~ Present(n)
        BY <1>6, <3>3, <4>1 DEF StillOurs
      <4>3. left = tool[n] /\ tool[n].kind = "none" /\ tool[n].hash = Absent
        BY <1>1, <3>3, <4>2 DEF Present, Bare
      <4> QED
        BY <2>3, <3>1, <4>3 DEF Link
    <3> QED
      BY <3>2, <3>3
  <2> QED
    BY <2>2, <2>3
<1>7. Bare(entry)
  BY <1>1, BareEntries
<1>8. Bare(tool'[n]) /\ Bare(log'[1].backup[n])
  <2>1. tool'[n] \in {entry, tool[n]} /\ log'[1].backup[n] \in {kept, Nowhere}
    BY <1>2, <1>3, <1>4
  <2> HIDE DEF entry, kept
  <2> QED
    BY <1>1, <1>7, <2>1, BareEntries
<1>9. ASSUME NEW k \in job'.undone PROVE k \notin job'.todo /\ Restored(k)'
  <2>1. CASE k \in job.undone /\ k # n
    <3>1. k \in Names /\ Restored(k) /\ k \notin job.todo
      BY <1>1, <1>3, <2>1 DEF RollbackInv
    <3> QED
      BY <1>2, <1>5, <2>1, <3>1 DEF Restored
  <2>2. CASE k = n
    <3>1. n \notin job.undone
      BY <1>1 DEF RollbackInv
    <3>2. StillOurs(n, done) /\ tool'[n] = entry
      BY <1>3, <1>4, <1>9, <2>2, <3>1
    <3> HIDE DEF entry
    <3> QED
      BY <1>2, <1>6, <2>2, <3>2 DEF Restored
  <2> QED
    BY <1>4, <1>9, <2>1, <2>2
<1>10. ASSUME NEW k \in job'.todo PROVE Restorable(k)' /\ log[1].done[k].action' # "none"
  <2>1. k \in Names \ {n} /\ Restorable(k) /\ log[1].done[k].action # "none"
    BY <1>1, <1>2, <1>3 DEF RollbackInv
  <2> QED
    BY <1>2, <1>5, <2>1 DEF Restorable
<1>11. \A k \in Names : /\ Bare(tool[k]') /\ Bare(log[1].backup[k]')
                        /\ Bare(log[1].done[k].was')
                        /\ log[1].done[k].action' \notin NOOP_ACTIONS
  BY <1>2, <1>5, <1>8 DEF RollbackInv
<1> HIDE DEF entry, done, kept, left
<1> QED
  BY <1>1, <1>2, <1>9, <1>10, <1>11 DEF RollbackInv

LEMMA RollbackInvNext ==
    ASSUME OneRollback, RollbackInv, [Next]_vars
    PROVE  RollbackInv'
<1>0. TypeInv /\ TypeOK /\ TypeInv' /\ \A n \in Names : Bare(tool[n])
  BY TypeInvNext DEF RollbackInv, TypeInv
<1>1. ASSUME NEW n \in Names, Item(n) PROVE RollbackInv'
  BY <1>0, <1>1, RollbackItem, RollbackTakeAway
<1>2. ASSUME NEW n \in Names, Undo(n) PROVE RollbackInv'
  BY <1>2, RollbackUndone
<1>3. CASE PutInPlace
  BY <1>3, RollbackPlaced
<1>4. CASE SaveLedger
  <2>1. job'.phase = "saved" /\ UNCHANGED <<tool, log, counts>>
    BY <1>0, <1>4 DEF SaveLedger, TypeOK, Job
  <2> QED
    BY <1>0, <2>1, RollbackOutside
<1>5. CASE Close
  <2> DEFINE runs == [log EXCEPT ![1].written = TRUE]
  <2>1. /\ runs \in [Slots -> Run] /\ runs[1].done = log[1].done
        /\ runs[1].backup = log[1].backup
    BY <1>0, FirstSlot DEF TypeOK, Run
  <2>2. log'[1] = runs[1]
    <3> HIDE DEF runs
    <3>1. log' = Pruned(runs)
      BY <1>5 DEF Close, runs
    <3> QED
      BY <2>1, <3>1, PrunedLast DEF OneRollback
  <2>3. job'.phase = "idle" /\ UNCHANGED <<tool, counts>>
    BY <1>5 DEF Close, NoJob
  <2> HIDE DEF runs
  <2> QED
    BY <1>0, <2>1, <2>2, <2>3, RollbackOutside
<1>6. CASE RollBackEnds \/ Crash
  <2>1. job'.phase = "idle" /\ UNCHANGED <<tool, log>>
    BY <1>6 DEF RollBackEnds, Crash, NoJob
  <2>2. counts'["rollbacks"] = counts["rollbacks"]
    BY <1>0, <1>6, CountType DEF RollBackEnds, Crash, Counted
  <2> QED
    BY <1>0, <2>1, <2>2, RollbackOutside
<1>7. CASE MaybeRun \/ IntervalPasses \/ UNCHANGED vars
  <2>1. UNCHANGED <<tool, log, job, counts>>
    BY <1>7 DEF MaybeRun, IntervalPasses, vars
  <2> QED
    BY <1>0, <2>1, RollbackStutter
<1>8. CASE LockTimesOut
  <2>1. log'[1] = log[1] /\ UNCHANGED <<tool, job, counts>>
    BY <1>0, <1>8, PrunedLast DEF LockTimesOut, TypeOK, OneRollback
  <2> QED
    BY <1>0, <2>1, RollbackStutter
<1>9. CASE DaemonRun \/ OperatorRun
  <2>1. counts'["rollbacks"] = counts["rollbacks"]
    BY <1>0, <1>9, CountType DEF DaemonRun, OperatorRun, Counted
  <2> QED
    BY <1>0, <1>9, <2>1, RollbackBegin DEF DaemonRun, OperatorRun
<1>10. ASSUME NEW i \in RollbackSlots, RollBack(i) PROVE RollbackInv'
  BY <1>0, <1>10, RollbackStarts
<1>11. CASE PutBack
  BY <1>11, RollbackPutBack
<1>12. ASSUME NEW n \in Names, NEW entry, EditTool(n, entry), Bare(entry)
       PROVE  RollbackInv'
  <2>1. job.phase # "rolling" /\ UNCHANGED <<log, job>>
    BY <1>12 DEF EditTool, OneRollback
  <2>2. \A k \in Names : tool'[k] \in {tool[k], entry}
    BY <1>0, <1>12 DEF EditTool, Set, TypeOK
  <2>3. counts'["rollbacks"] = counts["rollbacks"]
    BY <1>0, <1>12, CountType DEF EditTool, Counted
  <2>4. \A k \in Names : Bare(tool'[k])
    BY <1>0, <1>12, <2>2
  <2> QED
    BY <1>0, <2>1, <2>3, <2>4, RollbackStutter
<1>13. ASSUME NEW n \in Names, NEW c, EditCanonical(n, c) PROVE RollbackInv'
  <2>1. UNCHANGED <<tool, log, job>>
    BY <1>13 DEF EditCanonical
  <2>2. counts'["rollbacks"] = counts["rollbacks"]
    BY <1>0, <1>13, CountType DEF EditCanonical, Counted
  <2> QED
    BY <1>0, <2>1, <2>2, RollbackStutter
<1>14. ASSUME NEW n \in Names, NEW v \in Versions, EditTool(n, Dir(v, FALSE))
       PROVE  RollbackInv'
  BY <1>12, <1>14, BareEntries
<1>15. ASSUME NEW n \in Names, NEW e \in {Nowhere, Link("foreign")}, EditTool(n, e)
       PROVE  RollbackInv'
  BY <1>12, <1>15, BareEntries
<1> QED
  BY <1>1, <1>2, <1>3, <1>4, <1>5, <1>6, <1>7, <1>8, <1>9, <1>10, <1>11,
     <1>13, <1>14, <1>15
  DEF Next, Working, Scheduling, Environment

THEOREM RollbackInvariance == ASSUME OneRollback PROVE Spec => []RollbackInv
<1>1. Init => RollbackInv
  BY RollbackInvInit
<1>2. RollbackInv /\ [Next]_vars => RollbackInv'
  BY RollbackInvNext
<1> QED
  BY <1>1, <1>2, PTL DEF Spec

\* A rollback of the last run reports as restored only entries that are again
\* what the run had found there, links and directories, whatever others did in
\* between and whichever items failed.
THEOREM RollbackUndoesEver == ASSUME OneRollback PROVE Spec => []RollbackUndoes
<1>1. RollbackInv => RollbackUndoes
  BY DEF RollbackInv, RollbackUndoes, Restored
<1> QED
  BY RollbackInvariance, <1>1, PTL

-----------------------------------------------------------------------------
(* A skill that names no tool *)

\* What stands between two lists of names keeps standing when the job goes on
\* with the same plan, or ends.
LEMMA StaysStutter ==
    ASSUME StaysInv, canonical' = canonical, removed' = removed,
           \A n \in Names : Present(n) => Present(n)',
           job.phase # "placing", job'.phase # "placing",
           log'[1].done = log[1].done,
           \/ job'.plan = job.plan /\ job'.phase = job.phase
           \/ /\ job'.phase \notin {"running", "placing"}
              /\ job'.plan \in {job.plan, NoJob.plan}
    PROVE  StaysInv'
<1>1. \A n \in Names : NoJob.plan[n] = "none"
  BY DEF NoJob
<1> QED
  BY <1>1 DEF StaysInv

\* An undeclared skill is only planned where it already is.
LEMMA UndeclaredPlan ==
    ASSUME TypeOK, NEW n \in Names, Declared[n] = "undeclared"
    PROVE  /\ PlanOf(n) \notin {"link", "copy"}
           /\ (canonical[n] # Absent /\ Present(n)) => PlanOf(n) \notin REMOVING
<1>1. tool[n].kind \in LinkKinds \cup {"none", "dir"}
  BY DEF TypeOK, Entry
<1>2. PlanDirectory(n) \notin {"link", "copy"} \cup REMOVING
  BY DEF PlanDirectory, REMOVING
<1>3. tool[n].kind \in LinkKinds => PlanLink(n) \notin {"link", "copy"} \cup REMOVING
  BY DEF PlanLink, LinkKinds, REMOVING
<1>4. Present(n) => PlanEntry(n) \notin {"link", "copy"} \cup REMOVING
  BY <1>1, <1>2, <1>3 DEF PlanEntry, Present
<1>5. Removal(n) \notin {"link", "copy"}
  BY DEF Removal
<1>6. Wanted(n) <=> canonical[n] # Absent /\ Present(n)
  BY DEF Wanted
<1> QED
  BY <1>4, <1>5, <1>6 DEF PlanOf

LEMMA StaysInvInit == Init => StaysInv
<1> SUFFICES ASSUME Init PROVE StaysInv
  OBVIOUS
<1>1. job.phase = "idle" /\ \A n \in Names : job.plan[n] = "none"
  BY DEF Init, NoJob
<1>2. \A n \in Names : log[1].done[n].action = "none"
  BY FirstSlot DEF Init, NoRun, NotDone
<1>3. \A n \in Names \ removed : canonical[n] # Absent /\ Present(n)
  BY DEF Init, Present
<1> QED
  BY <1>1, <1>2, <1>3 DEF StaysInv

\* A finished item of such a skill is there, unless its removal was planned.
LEMMA StaysFinish ==
    ASSUME TypeOK, StaysInv, NEW n \in Names,
           \/ job.phase = "running"
           \/ job.phase = "placing" /\ n = job.item,
           NEW held \in Content, NEW backup \in BOOLEAN,
           NEW link \in LinkKinds \cup {"none"}, NEW was \in Entry, NEW entry \in Entry,
           Finish(n, held, backup, link, was), Set(n, entry),
           UNCHANGED <<canonical, removed>>,
           entry.kind = "none" =>
              job.plan[n] \in REMOVING \/ (job.phase = "running" /\ ~ Present(n))
    PROVE  StaysInv'
<1>1. /\ job'.phase = "running" /\ job'.todo = job.todo \ {n}
      /\ job'.plan = job.plan /\ job'.hash = job.hash
      /\ job'.held = [job.held EXCEPT ![n] = held]
      /\ log'[1].before = log[1].before
      /\ log'[1].done = [log[1].done EXCEPT ![n] =
            [action |-> job.plan[n], hash |-> job.hash[n],
             backup |-> backup, link |-> link, was |-> was]]
      /\ log'[1].backup = [log[1].backup EXCEPT ![n] = IF backup THEN was ELSE @]
  BY Finished
<1>2. log[1].done \in [Names -> Done] /\ tool \in [Names -> Entry]
  BY FirstSlot DEF TypeOK, Run
<1>3. /\ log'[1].done[n].action = job.plan[n] /\ tool'[n] = entry
      /\ \A k \in Names \ {n} :
            log'[1].done[k] = log[1].done[k] /\ tool'[k] = tool[k]
  BY <1>1, <1>2 DEF Set
<1>4. ASSUME NEW k \in Names \ removed, Declared[k] = "undeclared" PROVE Present(k)'
  <2>1. CASE k = n
    <3>1. job.plan[n] \notin REMOVING
      BY <1>4, <2>1 DEF StaysInv
    <3>2. job.phase = "running" => Present(n)
      BY <1>4, <2>1 DEF StaysInv
    <3> QED
      BY <1>3, <2>1, <3>1, <3>2 DEF Present
  <2>2. CASE k # n
    <3>1. Present(k)
      BY <1>4, <2>2 DEF StaysInv
    <3> QED
      BY <1>3, <2>2, <3>1 DEF Present
  <2> QED
    BY <2>1, <2>2
<1>5. ASSUME NEW k \in Names, Declared[k] = "undeclared"
      PROVE  {job'.plan[k], log'[1].done[k].action} \cap {"link", "copy"} = {}
  BY <1>1, <1>3, <1>5 DEF StaysInv
<1> QED
  BY <1>1, <1>4, <1>5 DEF StaysInv

LEMMA StaysItem ==
    ASSUME RollbackInv, StaysInv, NEW n \in Names, Item(n), ~ TakeAway(n)
    PROVE  StaysInv'
<1>0. TypeOK
  BY DEF RollbackInv, TypeInv
<1>1. /\ tool[n] \in Entry /\ tool[n].kind \in LinkKinds \cup {"none", "dir"}
      /\ job.held[n] \in Content /\ job.hash[n] \in Content /\ canonical[n] \in Content
      /\ Absent \in Content /\ Link("ours") \in Entry /\ Nowhere \in Entry
      /\ tool = [tool EXCEPT ![n] = tool[n]]
  BY <1>0, EntryTypes DEF TypeOK, Entry, Job, Contents, Content, LinkKinds
<1>2. job.phase = "running" /\ UNCHANGED <<canonical, removed>>
  BY DEF Item, ExecuteLink, ExecuteRelink, ExecuteRemoveLink, ExecuteCopy,
         ExecuteAdopt, ExecuteRemoveCopy, Todo, Unrecorded
<1>3. CASE Refuse(n)
  BY <1>0, <1>2, <1>3, Refused, StaysStutter DEF Present
<1>4. CASE (ExecuteLink(n) \/ ExecuteRelink(n)) /\ ~ Refuse(n)
  <2>1. Link("ours").kind # "none"
    BY DEF Link
  <2>2. /\ Set(n, Link("ours"))
        /\ \E link \in LinkKinds \cup {"none"} :
              Finish(n, job.held[n], FALSE, link, tool[n])
    BY <1>1, <1>4 DEF ExecuteLink, ExecuteRelink
  <2> QED
    BY <1>0, <1>1, <1>2, <2>1, <2>2, StaysFinish
<1>5. CASE ExecuteRemoveLink(n) /\ ~ Refuse(n)
  <2>1. /\ tool[n].kind \in LinkKinds /\ Set(n, Nowhere) /\ job.plan[n] \in REMOVING
        /\ Finish(n, job.held[n], FALSE, tool[n].kind, tool[n])
    BY <1>5 DEF ExecuteRemoveLink, Todo, REMOVING
  <2> QED
    BY <1>0, <1>1, <1>2, <2>1, StaysFinish
<1>6. CASE ExecuteCopy(n) /\ ~ Refuse(n)
  <2>1. /\ Set(n, Dir(canonical[n], TRUE)) /\ Dir(canonical[n], TRUE) \in Entry
        /\ Dir(canonical[n], TRUE).kind # "none"
        /\ Finish(n, job.hash[n], FALSE, "none", tool[n])
    BY <1>1, <1>6, EntryTypes DEF ExecuteCopy, Dir
  <2> QED
    BY <1>0, <1>1, <1>2, <2>1, StaysFinish
<1>7. CASE ExecuteAdopt(n)
  <2>1. Set(n, tool[n]) /\ Finish(n, job.hash[n], FALSE, "none", tool[n])
    BY <1>1, <1>7 DEF ExecuteAdopt, Set
  <2> QED
    BY <1>0, <1>1, <1>2, <2>1, StaysFinish DEF Present
<1>8. CASE ExecuteRemoveCopy(n) /\ ~ Refuse(n)
  <2>1. /\ Set(n, Nowhere) /\ job.plan[n] \in REMOVING
        /\ Finish(n, Absent, TRUE, "none", tool[n])
    BY <1>8 DEF ExecuteRemoveCopy, Todo, REMOVING
  <2> QED
    BY <1>0, <1>1, <1>2, <2>1, StaysFinish
<1> QED
  BY <1>3, <1>4, <1>5, <1>6, <1>7, <1>8 DEF Item

\* The entry being replaced is away until the second step.
LEMMA StaysTakeAway ==
    ASSUME RollbackInv, StaysInv, NEW n \in Names, TakeAway(n)
    PROVE  StaysInv'
<1>0. TypeOK
  BY DEF RollbackInv, TypeInv
<1>1. job.phase = "running" /\ UNCHANGED <<canonical, removed>>
  BY DEF TakeAway, Unrecorded
<1>2. CASE Refuse(n)
  BY <1>0, <1>1, <1>2, Refused, StaysStutter DEF Present
<1>3. CASE Take(n) /\ Set(n, Nowhere)
  <2>1. /\ job'.phase = "placing" /\ job'.item = n /\ job'.copied = canonical[n]
        /\ job'.todo = job.todo /\ job'.plan = job.plan
        /\ log'[1].done = [log[1].done EXCEPT ![n] = [@ EXCEPT !.was = tool[n]]]
    BY <1>0, <1>3, TakenAway
  <2>2. log[1].done \in [Names -> Done] /\ tool \in [Names -> Entry]
    BY <1>0, FirstSlot DEF TypeOK, Run
  <2>3. \A k \in Names : log'[1].done[k].action = log[1].done[k].action
    BY <2>1, <2>2 DEF Done
  <2>4. \A k \in Names \ {n} : tool'[k] = tool[k]
    BY <1>3, <2>2 DEF Set
  <2>5. ASSUME NEW k \in Names \ removed', Declared[k] = "undeclared"
        PROVE  Present(k)' \/ k = job'.item
    BY <1>1, <2>1, <2>4, <2>5 DEF StaysInv, Present
  <2> QED
    BY <1>1, <2>1, <2>3, <2>5 DEF StaysInv
<1> QED
  BY <1>2, <1>3 DEF TakeAway

LEMMA StaysPlaced ==
    ASSUME RollbackInv, StaysInv, PutInPlace
    PROVE  StaysInv'
<1> DEFINE n == job.item
           linked == job.plan[n] = "replace_link_with_copy"
           link == IF linked THEN Taken.kind ELSE "none"
           entry == IF job.plan[n] \in COPYING THEN Dir(job.copied, TRUE) ELSE Link("ours")
<1>0. TypeInv /\ TypeOK
  BY DEF RollbackInv, TypeInv
<1>1. /\ n \in Names /\ Taken \in Entry
      /\ Recorded(n) \in Content /\ link \in LinkKinds \cup {"none"}
  BY <1>0, PlacedType
<1>2. job.phase = "placing" /\ UNCHANGED <<canonical, removed>>
  BY DEF PutInPlace, Unrecorded
<1>3. Finish(n, Recorded(n), ~ linked, link, Taken) /\ Set(n, entry)
  BY DEF PutInPlace
<1>4. entry \in Entry /\ entry.kind # "none"
  <2>1. job.copied \in Content
    BY <1>0 DEF TypeOK, Job
  <2> QED
    BY <2>1, EntryTypes DEF LinkKinds, Dir, Link
<1>5. (~ linked) \in BOOLEAN
  OBVIOUS
<1> HIDE DEF linked, link, entry
<1> QED
  BY <1>0, <1>1, <1>2, <1>3, <1>4, <1>5, StaysFinish

\* What is put back was there.
LEMMA StaysPutBack ==
    ASSUME RollbackInv, StaysInv, PutBack
    PROVE  StaysInv'
<1>0. TypeInv /\ TypeOK
  BY DEF RollbackInv, TypeInv
<1> PICK n \in Names : n = job.item
  BY <1>0, PuttingBack
<1>1. /\ job'.phase = "running" /\ job'.todo = job.todo \ {n}
      /\ job'.plan = job.plan /\ job'.hash = job.hash /\ job'.held = job.held
      /\ log'[1].before = log[1].before
      /\ log'[1].done = [log[1].done EXCEPT ![n] = NotDone]
      /\ log'[1].backup = [log[1].backup EXCEPT ![n] = Nowhere]
  BY <1>0, PuttingBack
<1>2. /\ log[1].done \in [Names -> Done] /\ tool \in [Names -> Entry]
      /\ tool' = [tool EXCEPT ![n] = Taken] /\ job.phase = "placing"
      /\ Taken.kind # "none" /\ UNCHANGED <<canonical, removed>>
  BY <1>0, FirstSlot DEF TypeOK, Run, PutBack, Set, RollbackInv
<1>3. /\ tool'[n] = Taken /\ log'[1].done[n].action = "none"
      /\ \A k \in Names \ {n} :
            log'[1].done[k] = log[1].done[k] /\ tool'[k] = tool[k]
  BY <1>1, <1>2 DEF NotDone
<1>4. ASSUME NEW k \in Names \ removed', Declared[k] = "undeclared" PROVE Present(k)'
  BY <1>2, <1>3, <1>4 DEF StaysInv, Present
<1>5. ASSUME NEW k \in Names, Declared[k] = "undeclared"
      PROVE  {job'.plan[k], log'[1].done[k].action} \cap {"link", "copy"} = {}
  BY <1>1, <1>3, <1>5 DEF StaysInv
<1> QED
  BY <1>1, <1>2, <1>4, <1>5 DEF StaysInv

LEMMA StaysBegin ==
    ASSUME TypeInv, StaysInv, NEW by \in {"daemon", "operator"}, Begin(by)
    PROVE  StaysInv'
<1>0. TypeOK
  BY DEF TypeInv
<1>1. /\ job'.phase = "running" /\ job'.plan = [n \in Names |-> PlanOf(n)]
      /\ log'[1].done = NoRun.done
      /\ UNCHANGED <<tool, canonical, removed>> /\ job.phase = "idle"
  BY Begun DEF Begin
<1>2. \A n \in Names : log'[1].done[n].action = "none"
  BY <1>1 DEF NoRun, NotDone
<1>3. \A n \in Names \ removed :
         canonical[n] # Absent /\ (Declared[n] = "undeclared" => Present(n))
  BY <1>1 DEF StaysInv
<1>4. ASSUME NEW n \in Names, Declared[n] = "undeclared"
      PROVE  /\ job'.plan[n] \notin {"link", "copy"}
             /\ n \notin removed => job'.plan[n] \notin REMOVING
  BY <1>0, <1>1, <1>3, <1>4, UndeclaredPlan
<1> QED
  BY <1>1, <1>2, <1>3, <1>4 DEF StaysInv, Present

\* A rollback takes away only what it puts something in the place of.
LEMMA StaysUndone ==
    ASSUME EntriesInv, RollbackInv, StaysInv, NEW n \in Names, Undo(n)
    PROVE  StaysInv'
<1>0. TypeInv /\ TypeOK
  BY DEF RollbackInv, TypeInv
<1>1. /\ job.phase = "rolling" /\ job.slot = 1 /\ UNCHANGED <<canonical, removed>>
      /\ n \in job.todo /\ Restorable(n) /\ n \notin job.undone
      /\ log[1].done[n].action \notin NOOP_ACTIONS \cup {"none"}
  BY DEF Undo, Unrecorded, RollbackInv
<1>2. /\ job'.todo = job.todo \ {n} /\ job'.phase = "rolling"
      /\ log'[1].done = log[1].done
  BY <1>0, <1>1, Undone, FirstSlot
<1>3. /\ tool \in [Names -> Entry] /\ log[1].done[n] \in Done /\ job \in Job
      /\ job.plan \in [Names -> Actions]
  BY <1>0, FirstSlot DEF TypeOK, Run, Job
<1>4. /\ job'.plan = job.plan
      /\ job'.undone = job.undone => tool' = tool
      /\ job'.undone \in {job.undone, job.undone \cup {n}}
      /\ \A k \in Names \ {n} : tool'[k] = tool[k]
  <2>1. \/ /\ job' = [job EXCEPT !.todo = @ \ {n}, !.undone = @ \cup {n}]
           /\ \E entry : tool' = [tool EXCEPT ![n] = entry]
        \/ job' = [job EXCEPT !.todo = @ \ {n}] /\ tool' = tool
    BY DEF Undo, Set
  <2>2. n \notin job.undone /\ job \in Job /\ tool \in [Names -> Entry]
    BY <1>1, <1>3
  <2>3. CASE /\ job' = [job EXCEPT !.todo = @ \ {n}, !.undone = @ \cup {n}]
             /\ \E entry : tool' = [tool EXCEPT ![n] = entry]
    <3>1. job'.plan = job.plan /\ job'.undone = job.undone \cup {n}
      BY <2>2, <2>3 DEF Job
    <3>2. \A k \in Names \ {n} : tool'[k] = tool[k]
      BY <2>2, <2>3
    <3> QED
      BY <2>2, <3>1, <3>2
  <2>4. CASE job' = [job EXCEPT !.todo = @ \ {n}] /\ tool' = tool
    BY <2>2, <2>4 DEF Job
  <2> QED
    BY <2>1, <2>3, <2>4
<1>5. ASSUME n \notin removed, Declared[n] = "undeclared", Present(n)
      PROVE  Present(n)'
  <2>1. CASE tool' = tool
    BY <1>5, <2>1 DEF Present
  <2>2. CASE log[1].done[n].action = "adopt" /\ tool' # tool
    <3>1. tool'[n] # tool[n]
      <4>1. tool' \in [Names -> Entry]
        BY <1>0, Undone DEF TypeInv, TypeOK
      <4> QED
        BY <1>3, <1>4, <2>2, <4>1
    <3>2. /\ ~ log[1].done[n].backup /\ log[1].done[n].link = "none"
          /\ log[1].done[n].action \notin LINKING \cup COPYING
      BY <2>2, FirstSlot DEF EntriesInv, LINKING, COPYING, REMOVING
    <3>3. tool' = [tool EXCEPT ![n] = tool[n]]
      BY <1>1, <2>2, <3>2 DEF Undo, Set
    <3> QED
      BY <1>3, <3>1, <3>3
  <2>3. CASE log[1].done[n].action # "adopt" /\ tool' # tool
    <3>1. n \in job'.undone
      BY <1>4, <2>3
    <3>2. tool'[n].kind = log[1].done[n].was.kind
      <4>1. Restored(n)'
        BY <3>1, RollbackUndone, <1>2 DEF RollbackInv
      <4> QED
        BY <1>2, <2>3, <4>1 DEF Restored
    <3>3. log[1].done[n].action \in Replacing
      BY <1>1, <1>3, <2>3 DEF Done, Actions, Replacing
    <3>4. log[1].done[n].action \notin {"link", "copy"}
      BY <1>5 DEF StaysInv
    <3>5. log[1].done[n].was.kind # "none"
      BY <1>1, <3>3, <3>4 DEF Restorable
    <3> QED
      BY <3>2, <3>5 DEF Present
  <2> QED
    BY <2>1, <2>2, <2>3
<1>6. ASSUME NEW k \in Names \ removed', Declared[k] = "undeclared" PROVE Present(k)'
  <2>1. Present(k)
    BY <1>1, <1>6 DEF StaysInv
  <2>2. CASE k # n
    BY <1>4, <2>1, <2>2 DEF Present
  <2>3. CASE k = n
    BY <1>1, <1>5, <1>6, <2>1, <2>3
  <2> QED
    BY <2>2, <2>3
<1> QED
  BY <1>1, <1>2, <1>4, <1>6 DEF StaysInv

LEMMA StaysInvNext ==
    ASSUME Alone, EntriesInv, RollbackInv, StaysInv, [Next]_vars
    PROVE  StaysInv'
<1>0. TypeInv /\ TypeOK
  BY DEF RollbackInv, TypeInv
<1>1. ASSUME NEW n \in Names, Item(n) PROVE StaysInv'
  BY <1>1, StaysItem, StaysTakeAway
<1>2. ASSUME NEW n \in Names, Undo(n) PROVE StaysInv'
  BY <1>2, StaysUndone
<1>3. CASE PutInPlace
  BY <1>3, StaysPlaced
<1>4. CASE SaveLedger
  <2>1. /\ job.phase = "running" /\ job'.phase = "saved" /\ job'.plan = job.plan
        /\ UNCHANGED <<tool, log, canonical, removed>>
    BY <1>0, <1>4 DEF SaveLedger, TypeOK, Job
  <2> QED
    BY <2>1, StaysStutter DEF Present
<1>5. CASE Close
  <2> DEFINE runs == [log EXCEPT ![1].written = TRUE]
  <2>1. runs \in [Slots -> Run] /\ runs[1].done = log[1].done
    BY <1>0, FirstSlot DEF TypeOK, Run
  <2>2. log'[1].done = log[1].done
    <3> HIDE DEF runs
    <3>1. log' = Pruned(runs)
      BY <1>5 DEF Close, runs
    <3> QED
      BY <2>1, <3>1, PrunedKeeps, FirstSlot
  <2>3. /\ job.phase = "saved" /\ job'.phase = "idle" /\ job'.plan = NoJob.plan
        /\ UNCHANGED <<tool, canonical, removed>>
    BY <1>5 DEF Close, NoJob
  <2> QED
    BY <2>2, <2>3, StaysStutter DEF Present
<1>6. CASE RollBackEnds
  <2>1. /\ job.phase = "rolling" /\ job'.phase = "idle" /\ job'.plan = NoJob.plan
        /\ UNCHANGED <<tool, log, canonical, removed>>
    BY <1>6 DEF RollBackEnds, NoJob
  <2> QED
    BY <2>1, StaysStutter DEF Present
<1>7. CASE Crash
  <2>1. /\ job'.phase = "idle" /\ \A n \in Names : job'.plan[n] = "none"
        /\ UNCHANGED <<tool, log, canonical>>
        /\ removed' = IF job.phase = "placing" THEN removed \cup {job.item} ELSE removed
    BY <1>7 DEF Crash, NoJob
  <2>2. ASSUME NEW k \in Names \ removed', Declared[k] = "undeclared" PROVE Present(k)'
    BY <2>1, <2>2 DEF StaysInv, Present
  <2> QED
    BY <2>1, <2>2 DEF StaysInv
<1>8. CASE MaybeRun \/ IntervalPasses \/ UNCHANGED vars
  <2>1. UNCHANGED <<tool, log, job, canonical, removed>>
    BY <1>8 DEF MaybeRun, IntervalPasses, vars
  <2> QED
    BY <2>1 DEF StaysInv, Present
<1>9. CASE LockTimesOut
  <2>1. log'[1].done = log[1].done /\ UNCHANGED <<tool, job, canonical, removed>>
    BY <1>0, <1>9, PrunedKeeps, FirstSlot DEF LockTimesOut, TypeOK
  <2> QED
    BY <2>1 DEF StaysInv, Present
<1>10. CASE DaemonRun \/ OperatorRun
  BY <1>0, <1>10, StaysBegin DEF DaemonRun, OperatorRun
<1>11. ASSUME NEW i \in RollbackSlots, RollBack(i) PROVE StaysInv'
  <2>1. /\ job.phase = "idle" /\ job'.phase = "rolling" /\ job'.plan = NoJob.plan
        /\ UNCHANGED <<tool, log, canonical, removed>>
    BY <1>11 DEF RollBack, NoJob
  <2> QED
    BY <2>1, StaysStutter DEF Present
<1>12. CASE PutBack
  BY <1>12, StaysPutBack
<1>13. ASSUME NEW n \in Names, NEW entry, EditTool(n, entry) PROVE StaysInv'
  <2>1. /\ job.phase \notin {"running", "placing"} /\ UNCHANGED <<log, job, canonical>>
        /\ tool' = [tool EXCEPT ![n] = entry]
        /\ removed' = IF entry.kind = "none" \/ canonical[n] = Absent
                      THEN removed \cup {n} ELSE removed \ {n}
    BY <1>13 DEF EditTool, Alone, Set
  <2>2. tool'[n] = entry /\ \A k \in Names \ {n} : tool'[k] = tool[k]
    BY <1>0, <2>1 DEF TypeOK
  <2>3. ASSUME NEW k \in Names \ removed'
        PROVE  canonical[k] # Absent /\ (Declared[k] = "undeclared" => Present(k)')
    <3>1. CASE k = n
      BY <2>1, <2>2, <2>3, <3>1 DEF Present
    <3>2. CASE k # n
      <4>1. k \in Names \ removed
        BY <2>1, <2>3, <3>2
      <4> QED
        BY <2>1, <2>2, <3>2, <4>1 DEF StaysInv, Present
    <3> QED
      BY <3>1, <3>2
  <2> QED
    BY <2>1, <2>3 DEF StaysInv
<1>14. ASSUME NEW n \in Names, NEW c, EditCanonical(n, c) PROVE StaysInv'
  <2>1. /\ UNCHANGED <<tool, log, job>> /\ canonical' = [canonical EXCEPT ![n] = c]
        /\ removed' = IF c = Absent THEN removed \cup {n} ELSE removed
    BY <1>14 DEF EditCanonical
  <2>2. \A k \in Names \ removed' : canonical'[k] # Absent
    BY <1>0, <2>1 DEF StaysInv, TypeOK, Contents
  <2> QED
    BY <2>1, <2>2 DEF StaysInv, Present
<1> QED
  BY <1>1, <1>2, <1>3, <1>4, <1>5, <1>6, <1>7, <1>8, <1>9, <1>10, <1>11, <1>12,
     <1>13, <1>14
  DEF Next, Working, Scheduling, Environment

\* Between runs a skill without declared targets is where it was, unless somebody
\* took it away there or from the local root, or a run died while replacing it.
THEOREM UndeclaredStaysEver ==
    ASSUME Alone, OneRollback PROVE Spec => []UndeclaredStays
<1>1. Init => StaysInv
  BY StaysInvInit
<1>2. EntriesInv /\ RollbackInv /\ StaysInv /\ [Next]_vars => StaysInv'
  BY StaysInvNext
<1>3. StaysInv => UndeclaredStays
  BY DEF StaysInv, UndeclaredStays
<1> QED
  BY EntriesInvariance, RollbackInvariance, <1>1, <1>2, <1>3, PTL DEF Spec
===============================================================================
