--------------------------- MODULE LocalChangesProofs ---------------------------
(* Proofs about the commands that change skills on one device, for every     *)
(* root, skill, version, edit and failure.                                   *)
EXTENDS LocalChanges, Sequences, TLAPS

-----------------------------------------------------------------------------
(* apply.py *)

\* What a run or rollback changes, others count as changed by others.
LEMMA ApplyBecomes ==
    ASSUME A!ApplyTypeOK, NEW new \in [Skills -> A!Entry], NEW by, A!Becomes(new, by)
    PROVE  /\ aroot' = new
           /\ asince' \in [A!RunIds -> SUBSET Skills]
           /\ \A id \in A!RunIds :
                 /\ asince[id] \subseteq asince'[id]
                 /\ id = by => asince'[id] = asince[id]
                 /\ id # by => \A s \in Skills \ asince'[id] : aroot'[s] = aroot[s]
BY DEF A!ApplyTypeOK, A!Becomes

LEMMA ApplyPuts ==
    ASSUME A!ApplyTypeOK, NEW s \in Skills, NEW e \in A!Entry
    PROVE  /\ A!Put(s, e) \in [Skills -> A!Entry]
           /\ A!Put(s, e)[s] = e
           /\ \A t \in Skills \ {s} : A!Put(s, e)[t] = aroot[t]
BY DEF A!ApplyTypeOK, A!Put

LEMMA ApplyCopies ==
    ASSUME NEW e \in A!Entry
    PROVE  /\ A!Copied(e) \in A!Directory
           /\ A!Directory \subseteq A!Entry
           /\ A!Copied(A!Copied(e)) = A!Copied(e)
           /\ A!Copied(e) = Absent <=> e = Absent
BY ApplyAssumption DEF A!Copied, A!Directory, A!Entry, A!Dir, A!Kinds, A!Contents

LEMMA ApplyStart ==
    /\ A!Idle \in A!Job /\ A!NoUndo \in A!Undo /\ A!Unused \in A!Run
    /\ Absent \in A!Entry
<1>1. A!Nowhere \in [Skills -> A!Entry] /\ A!Nowhere \in [Skills -> A!Directory]
  BY DEF A!Nowhere, A!Entry, A!Directory
<1>2. <<>> \in Seq(A!Applied)
  OBVIOUS
<1> QED
  BY <1>1, <1>2, LocalBoundAssumption
  DEF A!Unused, A!Idle, A!NoUndo, A!Targets, A!Run, A!Job, A!Undo, A!Entry

LEMMA ApplyTypeInit == A!Init => A!ApplyTypeOK
BY ApplyStart, LocalBoundAssumption, ApplyAssumption
DEF A!Init, A!ApplyTypeOK, A!Counts

\* The item at hand and the item a rollback is at are skills.
LEMMA ApplyAt ==
    ASSUME A!ApplyTypeOK, A!OneAtATime
    PROVE  /\ ajob.step \in {"backup", "remove", "rename"} => ajob.item \in Skills
           /\ ajob # A!Idle => ajob.id \in A!RunIds
           /\ ajob # A!Idle <=> ajob.step # "idle"
           /\ aundo.step # "idle" =>
                 /\ aundo.id \in A!RunIds
                 /\ Len(aundo.left) \in Nat \ {0}
                 /\ A!Last \in A!Applied
                 /\ Len(aundo.left) <= Len(aruns[aundo.id].applied)
                 /\ A!Last = aruns[aundo.id].applied[Len(aundo.left)]
<1>1. aundo.left \in Seq(A!Applied) /\ ajob.todo \subseteq Skills
  BY DEF A!ApplyTypeOK, A!Undo, A!Job
<1>2. aundo.step # "idle" =>
         /\ Len(aundo.left) \in Nat \ {0}
         /\ aundo.id \in A!RunIds
         /\ Len(aundo.left) <= Len(aruns[aundo.id].applied)
         /\ aundo.left[Len(aundo.left)] = aruns[aundo.id].applied[Len(aundo.left)]
  BY <1>1 DEF A!OneAtATime, A!UndoIsSound
<1>3. aundo.step # "idle" => A!Last \in A!Applied
  BY <1>1, <1>2 DEF A!Last
<1> QED
  BY <1>1, <1>2, <1>3 DEF A!OneAtATime, A!JobIsSound, A!Last

\* What a failure, or a crash, leaves of the item at hand: what the handler
\* leaves, or a part.
LEMMA ApplyBreaks ==
    ASSUME A!ApplyTypeOK, A!OneAtATime
    PROVE  /\ A!Part \in A!Entry
           /\ ajob.step \in {"backup", "remove", "rename"} =>
                 /\ A!PutBack \in [Skills -> A!Entry]
                 /\ \A t \in Skills \ {ajob.item} : A!PutBack[t] = aroot[t]
           /\ \A left \in A!HalfReplaced :
                 /\ left = A!Put(ajob.item, A!Part) /\ ajob.item \in Skills
                 /\ \/ ajob.step = "remove" /\ aroot[ajob.item] # Absent
                    \/ /\ ajob.step \in {"remove", "rename"} /\ ajob.had
                       /\ aroot[ajob.item] = Absent
           /\ aundo.step # "idle" =>
                 \A left \in A!HalfUndone : left = A!Put(A!Last.skill, A!Part)
<1>1. A!Part \in A!Entry
  BY DEF A!Part, A!Dir, A!Entry, A!Kinds, A!Contents
<1>2. ASSUME ajob.step \in {"backup", "remove", "rename"}
      PROVE  /\ A!PutBack \in [Skills -> A!Entry]
             /\ \A t \in Skills \ {ajob.item} : A!PutBack[t] = aroot[t]
  <2>1. ajob.item \in Skills /\ ajob.id \in A!RunIds
    BY <1>2, ApplyAt
  <2>2. A!Current.backup[ajob.item] \in A!Entry
    BY <2>1, ApplyCopies, ApplyStart DEF A!Current, A!Run, A!ApplyTypeOK
  <2>3. aroot \in [Skills -> A!Entry]
    BY DEF A!ApplyTypeOK
  <2> QED
    BY <2>1, <2>2, <2>3, ApplyPuts DEF A!PutBack
<1>3. ASSUME NEW left \in A!HalfReplaced
      PROVE  /\ left = A!Put(ajob.item, A!Part) /\ ajob.item \in Skills
             /\ \/ ajob.step = "remove" /\ aroot[ajob.item] # Absent
                \/ /\ ajob.step \in {"remove", "rename"} /\ ajob.had
                   /\ aroot[ajob.item] = Absent
  <2>1. left = A!Put(ajob.item, A!Part) /\ ajob.step \in {"remove", "rename"}
    BY <1>3 DEF A!HalfReplaced
  <2>2. ajob.item \in Skills
    BY <2>1, ApplyAt
  <2> QED
    BY <1>3, <2>1, <2>2 DEF A!HalfReplaced, A!PutBack
<1>4. \A left \in A!HalfUndone : left = A!Put(A!Last.skill, A!Part)
  BY DEF A!HalfUndone
<1> QED
  BY <1>1, <1>2, <1>3, <1>4

\* What the steps do to the run under way.
LEMMA ApplyJobMoves ==
    ASSUME A!ApplyTypeOK
    PROVE  /\ \A target \in A!Targets, ids \in SUBSET Skills : A!Apply(target, ids) =>
                 /\ ajob'.step = "items" /\ ajob'.id = acounts.runs + 1
                 /\ ajob'.target = target /\ ajob'.todo = A!Plan(target, ids)
                 /\ ajob'.moved = {}
           /\ \A s \in Skills : A!CopyToTemp(s) =>
                 /\ ajob'.step = "backup" /\ ajob'.item = s
                 /\ ajob'.had <=> aroot[s] # Absent
                 /\ ajob'.id = ajob.id /\ ajob'.target = ajob.target
                 /\ ajob'.todo = ajob.todo /\ ajob'.moved = ajob.moved
           /\ A!BackUp =>
                 /\ ajob'.step = "remove" /\ ajob'.item = ajob.item
                 /\ ajob'.had = ajob.had
                 /\ ajob'.id = ajob.id /\ ajob'.target = ajob.target
                 /\ ajob'.todo = ajob.todo /\ ajob'.moved = ajob.moved
                 /\ ajob'.touched = IF ajob.had THEN ajob.touched \ {ajob.item}
                                    ELSE ajob.touched
           /\ A!Remove =>
                 /\ ajob'.step = "rename" /\ ajob'.item = ajob.item
                 /\ ajob'.had = ajob.had
                 /\ ajob'.id = ajob.id /\ ajob'.target = ajob.target
                 /\ ajob'.todo = ajob.todo /\ ajob'.moved = ajob.moved
           /\ A!Rename =>
                 /\ ajob'.step = "items" /\ ajob'.todo = ajob.todo \ {ajob.item}
                 /\ ajob'.id = ajob.id /\ ajob'.target = ajob.target
                 /\ ajob'.moved = ajob.moved
           /\ \A s \in Skills, e \in RootEdits : A!Edit(s, e) =>
                 /\ ajob = A!Idle => ajob' = A!Idle
                 /\ ajob'.step = ajob.step /\ ajob'.item = ajob.item
                 /\ ajob'.had = ajob.had
                 /\ ajob'.id = ajob.id /\ ajob'.target = ajob.target
                 /\ ajob'.todo = ajob.todo
                 /\ ajob # A!Idle => /\ ajob'.moved = ajob.moved \cup {s}
                                    /\ ajob'.touched = ajob.touched \cup {s}
<1> USE DEF A!ApplyTypeOK, A!Job
<1>1. ASSUME NEW target \in A!Targets, NEW ids \in SUBSET Skills, A!Apply(target, ids)
      PROVE  /\ ajob'.step = "items" /\ ajob'.id = acounts.runs + 1
             /\ ajob'.target = target /\ ajob'.todo = A!Plan(target, ids)
             /\ ajob'.moved = {}
  BY <1>1 DEF A!Apply, A!Idle
<1>2. ASSUME NEW s \in Skills, A!CopyToTemp(s)
      PROVE  /\ ajob'.step = "backup" /\ ajob'.item = s
             /\ ajob'.had <=> aroot[s] # Absent
             /\ ajob'.id = ajob.id /\ ajob'.target = ajob.target
             /\ ajob'.todo = ajob.todo /\ ajob'.moved = ajob.moved
  BY <1>2 DEF A!CopyToTemp
<1>4. ASSUME A!BackUp
      PROVE  /\ ajob'.step = "remove" /\ ajob'.item = ajob.item
             /\ ajob'.had = ajob.had
             /\ ajob'.id = ajob.id /\ ajob'.target = ajob.target
             /\ ajob'.todo = ajob.todo /\ ajob'.moved = ajob.moved
             /\ ajob'.touched = IF ajob.had THEN ajob.touched \ {ajob.item}
                                ELSE ajob.touched
  BY <1>4 DEF A!BackUp
<1>5. ASSUME A!Remove
      PROVE  /\ ajob'.step = "rename" /\ ajob'.item = ajob.item
             /\ ajob'.had = ajob.had
             /\ ajob'.id = ajob.id /\ ajob'.target = ajob.target
             /\ ajob'.todo = ajob.todo /\ ajob'.moved = ajob.moved
  BY <1>5 DEF A!Remove
<1>6. ASSUME A!Rename
      PROVE  /\ ajob'.step = "items" /\ ajob'.todo = ajob.todo \ {ajob.item}
             /\ ajob'.id = ajob.id /\ ajob'.target = ajob.target
             /\ ajob'.moved = ajob.moved
  BY <1>6 DEF A!Rename
<1>7. ASSUME NEW s \in Skills, NEW e \in RootEdits, A!Edit(s, e)
      PROVE  /\ ajob = A!Idle => ajob' = A!Idle
             /\ ajob'.step = ajob.step /\ ajob'.item = ajob.item
             /\ ajob'.had = ajob.had
             /\ ajob'.id = ajob.id /\ ajob'.target = ajob.target
             /\ ajob'.todo = ajob.todo
             /\ ajob # A!Idle => /\ ajob'.moved = ajob.moved \cup {s}
                                /\ ajob'.touched = ajob.touched \cup {s}
  BY <1>7 DEF A!Edit
<1> QED
  BY <1>1, <1>2, <1>4, <1>5, <1>6, <1>7

\* What the steps do to the records of the runs.
LEMMA ApplyRunMoves ==
    ASSUME A!ApplyTypeOK, NEW id \in A!RunIds
    PROVE  /\ \A target \in A!Targets, ids \in SUBSET Skills : A!Apply(target, ids) =>
                 /\ aruns'[id].backup = aruns[id].backup
                 /\ aruns'[id].applied = aruns[id].applied
                 /\ id = acounts.runs + 1 =>
                       aruns'[id].status = "running" /\ aruns'[id].before = aroot
                 /\ id # acounts.runs + 1 => aruns'[id] = aruns[id]
           /\ A!BackUp =>
                 /\ aruns'[id].status = aruns[id].status
                 /\ aruns'[id].applied = aruns[id].applied
                 /\ aruns'[id].before = aruns[id].before
                 /\ id # ajob.id => aruns'[id] = aruns[id]
                 /\ \A s \in Skills : aruns'[id].backup[s] =
                       IF id = ajob.id /\ ajob.had /\ s = ajob.item
                       THEN A!Copied(aroot[s]) ELSE aruns[id].backup[s]
           /\ A!Rename =>
                 /\ aruns'[id].status = aruns[id].status
                 /\ aruns'[id].backup = aruns[id].backup
                 /\ aruns'[id].before = aruns[id].before
                 /\ id # ajob.id => aruns'[id] = aruns[id]
                 /\ id = ajob.id =>
                       aruns'[id].applied = Append(aruns[id].applied,
                                                   [skill |-> ajob.item, had |-> ajob.had])
           /\ A!Fail =>
                 /\ aruns'[id].backup = aruns[id].backup
                 /\ aruns'[id].applied = aruns[id].applied
                 /\ aruns'[id].before = aruns[id].before
                 /\ id # ajob.id => aruns'[id] = aruns[id]
                 /\ id = ajob.id /\ ajob # A!Idle => aruns'[id].status = "failed"
           /\ A!Complete =>
                 /\ aruns'[id].backup = aruns[id].backup
                 /\ aruns'[id].applied = aruns[id].applied
                 /\ aruns'[id].before = aruns[id].before
                 /\ id # ajob.id => aruns'[id] = aruns[id]
                 /\ id = ajob.id /\ ajob # A!Idle => aruns'[id].status = "complete"
           /\ A!Crash =>
                 /\ aruns'[id].backup = aruns[id].backup
                 /\ aruns'[id].applied = aruns[id].applied
                 /\ aruns'[id].before = aruns[id].before
                 /\ id # ajob.id => aruns'[id] = aruns[id]
                 /\ id = ajob.id /\ ajob # A!Idle => aruns'[id].status = "dead"
                 /\ ajob = A!Idle => aruns'[id] = aruns[id]
<1>0. aruns \in [A!RunIds -> A!Run]
  BY DEF A!ApplyTypeOK
<1> USE <1>0 DEF A!Run
<1>1. ASSUME NEW target \in A!Targets, NEW ids \in SUBSET Skills, A!Apply(target, ids)
      PROVE  /\ aruns'[id].backup = aruns[id].backup
             /\ aruns'[id].applied = aruns[id].applied
             /\ id = acounts.runs + 1 =>
                   aruns'[id].status = "running" /\ aruns'[id].before = aroot
             /\ id # acounts.runs + 1 => aruns'[id] = aruns[id]
  BY <1>1 DEF A!Apply
<1>2. ASSUME A!BackUp
      PROVE  /\ aruns'[id].status = aruns[id].status
             /\ aruns'[id].applied = aruns[id].applied
             /\ aruns'[id].before = aruns[id].before
             /\ id # ajob.id => aruns'[id] = aruns[id]
             /\ \A s \in Skills : aruns'[id].backup[s] =
                   IF id = ajob.id /\ ajob.had /\ s = ajob.item
                   THEN A!Copied(aroot[s]) ELSE aruns[id].backup[s]
  BY <1>2 DEF A!BackUp, A!BackedUp
<1>3. ASSUME A!Rename
      PROVE  /\ aruns'[id].status = aruns[id].status
             /\ aruns'[id].backup = aruns[id].backup
             /\ aruns'[id].before = aruns[id].before
             /\ id # ajob.id => aruns'[id] = aruns[id]
             /\ id = ajob.id =>
                   aruns'[id].applied = Append(aruns[id].applied,
                                               [skill |-> ajob.item, had |-> ajob.had])
  BY <1>3 DEF A!Rename
<1>4. ASSUME A!Fail
      PROVE  /\ aruns'[id].backup = aruns[id].backup
             /\ aruns'[id].applied = aruns[id].applied
             /\ aruns'[id].before = aruns[id].before
             /\ id # ajob.id => aruns'[id] = aruns[id]
             /\ id = ajob.id /\ ajob # A!Idle => aruns'[id].status = "failed"
  BY <1>4 DEF A!Fail
<1>5. ASSUME A!Complete
      PROVE  /\ aruns'[id].backup = aruns[id].backup
             /\ aruns'[id].applied = aruns[id].applied
             /\ aruns'[id].before = aruns[id].before
             /\ id # ajob.id => aruns'[id] = aruns[id]
             /\ id = ajob.id /\ ajob # A!Idle => aruns'[id].status = "complete"
  BY <1>5 DEF A!Complete
<1>6. ASSUME A!Crash
      PROVE  /\ aruns'[id].backup = aruns[id].backup
             /\ aruns'[id].applied = aruns[id].applied
             /\ aruns'[id].before = aruns[id].before
             /\ id # ajob.id => aruns'[id] = aruns[id]
             /\ id = ajob.id /\ ajob # A!Idle => aruns'[id].status = "dead"
             /\ ajob = A!Idle => aruns'[id] = aruns[id]
  BY <1>6 DEF A!Crash
<1> QED
  BY <1>1, <1>2, <1>3, <1>4, <1>5, <1>6

LEMMA ApplyTypeNext == A!ApplyInv /\ [A!Next]_avars => A!ApplyTypeOK'
<1> SUFFICES ASSUME A!ApplyInv, [A!Next]_avars PROVE A!ApplyTypeOK'
  OBVIOUS
<1>0. A!ApplyTypeOK /\ A!OneAtATime
  BY DEF A!ApplyInv
<1>a. /\ aroot \in [Skills -> A!Entry] /\ asince \in [A!RunIds -> SUBSET Skills]
      /\ aruns \in [A!RunIds -> A!Run]
      /\ ajob \in A!Job /\ aundo \in A!Undo /\ acounts \in A!Counts
  BY <1>0 DEF A!ApplyTypeOK
<1> USE <1>0, <1>a
<1>b. SUFFICES /\ aroot' \in [Skills -> A!Entry] /\ asince' \in [A!RunIds -> SUBSET Skills]
               /\ aruns' \in [A!RunIds -> A!Run]
               /\ ajob' \in A!Job /\ aundo' \in A!Undo /\ acounts' \in A!Counts
  BY DEF A!ApplyTypeOK
<1> DEFINE Rooted == aroot' \in [Skills -> A!Entry] /\ asince' \in [A!RunIds -> SUBSET Skills]
           Typed == Rooted /\ aruns' \in [A!RunIds -> A!Run]
                    /\ ajob' \in A!Job /\ aundo' \in A!Undo /\ acounts' \in A!Counts
<1>r. ASSUME NEW new \in [Skills -> A!Entry], NEW by, A!Becomes(new, by) PROVE Rooted
  BY <1>r, ApplyBecomes
<1>1. CASE UNCHANGED avars
  BY <1>1 DEF avars
<1>2. ASSUME NEW target \in A!Targets, NEW ids \in SUBSET Skills, A!Apply(target, ids)
      PROVE  Typed
  <2>1. acounts' \in A!Counts /\ acounts.runs + 1 \in A!RunIds
    BY <1>2 DEF A!Apply, A!RunIds, A!Counts
  <2>2. ajob' \in A!Job
    <3>1. A!Plan(target, ids) \in SUBSET Skills /\ acounts.runs + 1 \in 0..MaxRuns
      BY <2>1, LocalBoundAssumption DEF A!Plan, A!RunIds
    <3>2. ajob' = [A!Idle EXCEPT !.id = acounts.runs + 1, !.target = target,
                                 !.step = "items", !.todo = A!Plan(target, ids)]
      BY <1>2 DEF A!Apply
    <3> QED
      BY <3>1, <3>2, ApplyStart DEF A!Job
  <2>3. aruns' \in [A!RunIds -> A!Run]
    BY <1>2, <2>1 DEF A!Apply, A!Run
  <2> QED
    BY <1>2, <2>1, <2>2, <2>3 DEF A!Apply
<1>3. ASSUME NEW s \in Skills, A!CopyToTemp(s) PROVE Typed
  <2>1. ajob' \in A!Job
    BY <1>3 DEF A!CopyToTemp, A!Job
  <2> QED
    BY <1>3, <2>1 DEF A!CopyToTemp
<1>4. ASSUME NEW s \in Skills, NEW e \in RootEdits, A!Edit(s, e) PROVE Typed
  <2>1. Rooted
    BY <1>4, <1>r, ApplyAssumption, ApplyPuts DEF A!Edit
  <2>2. ajob' \in A!Job
    BY <1>4, ApplyStart DEF A!Edit, A!Job
  <2>3. acounts' \in A!Counts
    BY <1>4, LocalBoundAssumption DEF A!Edit, A!Counts
  <2> QED
    BY <1>4, <2>1, <2>2, <2>3 DEF A!Edit
<1>5. CASE A!BackUp
  <2>1. ajob.item \in Skills /\ A!BackedUp(ajob.item) \in A!Directory
    BY <1>5, ApplyAt, ApplyCopies DEF A!BackUp, A!BackedUp
  <2>2. aruns' \in [A!RunIds -> A!Run]
    BY <1>5, <2>1 DEF A!BackUp, A!Run
  <2>3. ajob' \in A!Job
    BY <1>5 DEF A!BackUp, A!Job
  <2> QED
    BY <1>5, <2>2, <2>3 DEF A!BackUp
<1>6. CASE A!Remove
  <2>1. Rooted
    BY <1>6, <1>r, ApplyAt, ApplyPuts, ApplyStart DEF A!Remove
  <2>2. ajob' \in A!Job
    BY <1>6 DEF A!Remove, A!Job
  <2> QED
    BY <1>6, <2>1, <2>2 DEF A!Remove
<1>7. CASE A!Rename
  <2>1. ajob.item \in Skills /\ ajob.had \in BOOLEAN /\ Staged[ajob.item] # Absent
    BY <1>7, ApplyAt DEF A!Rename, A!Job, A!OneAtATime, A!JobIsSound
  <2>2. [skill |-> ajob.item, had |-> ajob.had] \in A!Applied
    BY <2>1 DEF A!Applied
  <2>3. A!Dir(Staged[ajob.item]) \in A!Entry
    BY <2>1, ApplyAssumption DEF A!Dir, A!Entry, A!Kinds, A!Contents
  <2>5. Rooted
    <3>1. A!Put(ajob.item, A!Dir(Staged[ajob.item])) \in [Skills -> A!Entry]
      BY <2>1, <2>3, ApplyPuts
    <3> QED
      BY <1>7, <1>r, <3>1 DEF A!Rename
  <2>6. aruns' \in [A!RunIds -> A!Run]
    <3>1. \A id \in A!RunIds : Append(aruns[id].applied,
             [skill |-> ajob.item, had |-> ajob.had]) \in Seq(A!Applied)
      BY <2>2 DEF A!Run
    <3> QED
      BY <1>7, <3>1 DEF A!Rename, A!Run
  <2>7. ajob' \in A!Job
    BY <1>7 DEF A!Rename, A!Job
  <2> QED
    BY <1>7, <2>5, <2>6, <2>7 DEF A!Rename
<1>8. CASE A!Fail
  <2>1. \A left \in {A!PutBack} \cup A!HalfReplaced : left \in [Skills -> A!Entry]
    BY <1>8, ApplyBreaks, ApplyPuts DEF A!Fail
  <2>2. Rooted
    BY <1>8, <1>r, <2>1 DEF A!Fail
  <2>3. acounts' \in A!Counts
    BY <1>8, LocalBoundAssumption DEF A!Fail, A!Counts
  <2>4. aruns' \in [A!RunIds -> A!Run]
    BY <1>8 DEF A!Fail, A!Run
  <2> QED
    BY <1>8, <2>2, <2>3, <2>4, ApplyStart DEF A!Fail
<1>9. CASE A!Complete
  <2>1. aruns' \in [A!RunIds -> A!Run]
    BY <1>9 DEF A!Complete, A!Run
  <2> QED
    BY <1>9, <2>1, ApplyStart DEF A!Complete
<1>10. ASSUME NEW id \in A!RunIds, A!Rollback(id) PROVE Typed
  <2>1. aundo' \in A!Undo
    BY <1>10 DEF A!Rollback, A!Undo, A!Run, A!RunIds
  <2> QED
    BY <1>10, <2>1 DEF A!Rollback
<1>11. CASE A!UndoRemove
  <2>1. A!Last.skill \in Skills
    BY <1>11, ApplyAt DEF A!UndoRemove, A!Applied
  <2>2. Rooted
    BY <1>11, <1>r, <2>1, ApplyPuts, ApplyStart DEF A!UndoRemove
  <2>3. aundo' \in A!Undo
    BY <1>11 DEF A!UndoRemove, A!Undo
  <2> QED
    BY <1>11, <2>2, <2>3 DEF A!UndoRemove
<1>12. CASE A!UndoCopy
  <2>1. A!Last.skill \in Skills /\ aundo.id \in A!RunIds
    BY <1>12, ApplyAt DEF A!UndoCopy, A!Applied
  <2>2. A!Restored \in A!Entry
    BY <2>1, ApplyStart, ApplyCopies DEF A!Restored, A!Run
  <2>3. Rooted
    BY <1>12, <1>r, <2>1, <2>2, ApplyPuts DEF A!UndoCopy
  <2>4. SubSeq(aundo.left, 1, Len(aundo.left) - 1) \in Seq(A!Applied)
    BY <1>12, ApplyAt DEF A!UndoCopy, A!Undo
  <2>5. aundo' \in A!Undo
    BY <1>12, <2>4, ApplyStart DEF A!UndoCopy, A!Undo
  <2> QED
    BY <1>12, <2>3, <2>5 DEF A!UndoCopy
<1>13. CASE A!UndoStops
  BY <1>13, ApplyStart DEF A!UndoStops
<1>14. CASE A!Crash
  <2>1. aruns' \in [A!RunIds -> A!Run]
    <3>1. aruns' = aruns \/ aruns' = [aruns EXCEPT ![ajob.id].status = "dead"]
      BY <1>14 DEF A!Crash
    <3>2. ASSUME aruns' = [aruns EXCEPT ![ajob.id].status = "dead"]
          PROVE  aruns' \in [A!RunIds -> A!Run]
      BY <3>2 DEF A!Run
    <3> QED
      BY <3>1, <3>2
  <2>2. acounts' \in A!Counts
    BY <1>14, LocalBoundAssumption DEF A!Crash, A!Counts
  <2>3. Rooted
    <3>1. CASE ajob # A!Idle
      <4>1. ASSUME NEW left \in {aroot} \cup A!HalfReplaced
            PROVE  left \in [Skills -> A!Entry]
        <5>1. A!Part \in A!Entry
          BY ApplyBreaks
        <5>2. CASE left \in A!HalfReplaced
          <6>1. ajob.item \in Skills /\ left = A!Put(ajob.item, A!Part)
            BY <5>2, ApplyBreaks
          <6> QED
            BY <5>1, <6>1, ApplyPuts
        <5> QED
          BY <5>2
      <4> QED
        BY <1>14, <1>r, <3>1, <4>1 DEF A!Crash
    <3>2. CASE ajob = A!Idle
      <4>1. aundo.step # "idle" /\ A!Last.skill \in Skills
        BY <1>14, <3>2, ApplyAt DEF A!Crash, A!OneAtATime, A!UndoIsSound, A!Applied
      <4>2. \A left \in {aroot} \cup A!HalfUndone : left \in [Skills -> A!Entry]
        BY <4>1, ApplyBreaks, ApplyPuts
      <4> QED
        BY <1>14, <1>r, <3>2, <4>2 DEF A!Crash
    <3> QED
      BY <3>1, <3>2
  <2> QED
    BY <1>14, <2>1, <2>2, <2>3, ApplyStart DEF A!Crash
<1> QED
  BY <1>1, <1>2, <1>3, <1>4, <1>5, <1>6, <1>7, <1>8, <1>9, <1>10, <1>11, <1>12,
     <1>13, <1>14
  DEF A!Next


LEMMA ApplyJobSound == A!ApplyInv /\ [A!Next]_avars => A!JobIsSound'
<1> SUFFICES ASSUME A!ApplyInv, [A!Next]_avars PROVE A!JobIsSound'
  OBVIOUS
<1>0. A!ApplyTypeOK /\ A!OneAtATime /\ A!JobIsSound
  BY DEF A!ApplyInv, A!OneAtATime
<1>i. A!Idle.step = "idle" /\ A!Idle.todo = {}
  BY DEF A!Idle
<1> USE <1>0, <1>i DEF A!JobIsSound
<1>1. CASE UNCHANGED <<ajob, aundo>>
  BY <1>1
<1>2. CASE ajob' = A!Idle
  BY <1>2
<1>3. ASSUME NEW target \in A!Targets, NEW ids \in SUBSET Skills, A!Apply(target, ids)
      PROVE  A!JobIsSound'
  <2>1. ajob'.id \in A!RunIds /\ aundo' = A!NoUndo
    BY <1>3, ApplyJobMoves DEF A!Apply
  <2> QED
    BY <1>3, <2>1, ApplyJobMoves DEF A!Plan
<1>4. ASSUME NEW s \in Skills, A!CopyToTemp(s) PROVE A!JobIsSound'
  BY <1>4, ApplyJobMoves DEF A!CopyToTemp
<1>5. CASE A!BackUp
  BY <1>5, ApplyJobMoves DEF A!BackUp
<1>6. CASE A!Remove
  BY <1>6, ApplyJobMoves DEF A!Remove
<1>7. CASE A!Rename
  BY <1>7, ApplyJobMoves DEF A!Rename
<1>8. ASSUME NEW s \in Skills, NEW e \in RootEdits, A!Edit(s, e) PROVE A!JobIsSound'
  <2>1. aundo' = aundo
    BY <1>8 DEF A!Edit
  <2> QED
    BY <1>8, <2>1, ApplyJobMoves
<1>9. ASSUME NEW id \in A!RunIds, A!Rollback(id) PROVE A!JobIsSound'
  BY <1>9 DEF A!Rollback
<1>10. CASE A!UndoRemove
  BY <1>10 DEF A!UndoRemove, A!OneAtATime, A!UndoIsSound, A!NoUndo
<1>11. CASE A!UndoCopy
  BY <1>11 DEF A!UndoCopy, A!OneAtATime, A!UndoIsSound, A!NoUndo
<1>12. CASE A!UndoStops
  BY <1>12 DEF A!UndoStops
<1> QED
  BY <1>1, <1>2, <1>3, <1>4, <1>5, <1>6, <1>7, <1>8, <1>9, <1>10, <1>11, <1>12
  DEF A!Next, A!Fail, A!Complete, A!Crash, avars

LEMMA ApplyRunsSound == A!ApplyInv /\ [A!Next]_avars => A!RunsAreSound'
<1> SUFFICES ASSUME A!ApplyInv, [A!Next]_avars PROVE A!RunsAreSound'
  OBVIOUS
<1>0. A!ApplyTypeOK /\ A!OneAtATime /\ A!JobIsSound /\ A!RunsAreSound
  BY DEF A!ApplyInv, A!OneAtATime
<1>i. A!Idle.id = 0 /\ A!Idle.step = "idle"
  BY DEF A!Idle
<1>t. acounts.runs \in Nat /\ ajob.id \in Nat /\ (ajob # A!Idle => ajob.id <= acounts.runs)
  <2>0. ajob \in A!Job /\ acounts \in A!Counts
    BY <1>0 DEF A!ApplyTypeOK
  <2>1. acounts.runs \in Nat /\ ajob.id \in Nat
    BY <2>0, LocalBoundAssumption DEF A!Counts, A!Job
  <2>2. A!Unused.status = "none"
    BY DEF A!Unused
  <2> QED
    BY <1>0, <2>1, <2>2 DEF A!RunsAreSound, A!JobIsSound, A!RunIds
<1>s. SUFFICES ASSUME NEW id \in A!RunIds
               PROVE  /\ aruns'[id].status = "running" <=> ajob'.id = id
                      /\ id > acounts'.runs => aruns'[id] = A!Unused
  BY DEF A!RunsAreSound
<1>n. id \in Nat \ {0}
  BY LocalBoundAssumption DEF A!RunIds
<1> DEFINE Sound == /\ aruns'[id].status = "running" <=> ajob'.id = id
                    /\ id > acounts'.runs => aruns'[id] = A!Unused
<1>u. /\ aruns[id].status = "running" <=> ajob.id = id
      /\ id > acounts.runs => aruns[id] = A!Unused
  BY <1>0 DEF A!RunsAreSound
<1> USE <1>0, <1>i, <1>t, <1>n, <1>u
<1>1. CASE UNCHANGED <<ajob, aruns, acounts>>
  BY <1>1
<1>3. ASSUME NEW target \in A!Targets, NEW ids \in SUBSET Skills, A!Apply(target, ids)
      PROVE  Sound
  <2>1. acounts'.runs = acounts.runs + 1 /\ ajob = A!Idle
    BY <1>3 DEF A!Apply, A!ApplyTypeOK, A!Counts
  <2> QED
    BY <1>3, <2>1, ApplyRunMoves, ApplyJobMoves
<1>4. ASSUME NEW s \in Skills, A!CopyToTemp(s) PROVE Sound
  BY <1>4, ApplyJobMoves DEF A!CopyToTemp
<1>5. CASE A!BackUp
  <2>1. acounts' = acounts /\ ajob # A!Idle
    BY <1>5 DEF A!BackUp
  <2> QED
    BY <1>5, <2>1, ApplyRunMoves, ApplyJobMoves
<1>6. CASE A!Remove
  BY <1>6, ApplyJobMoves DEF A!Remove
<1>7. CASE A!Rename
  <2>1. acounts' = acounts /\ ajob # A!Idle
    BY <1>7 DEF A!Rename
  <2> QED
    BY <1>7, <2>1, ApplyRunMoves, ApplyJobMoves
<1>8. ASSUME NEW s \in Skills, NEW e \in RootEdits, A!Edit(s, e) PROVE Sound
  <2>1. aruns' = aruns /\ acounts'.runs = acounts.runs
    BY <1>8 DEF A!Edit, A!ApplyTypeOK, A!Counts
  <2> QED
    BY <1>8, <2>1, ApplyJobMoves
<1>9. CASE A!Fail
  <2>1. acounts'.runs = acounts.runs /\ ajob # A!Idle /\ ajob' = A!Idle
    BY <1>9 DEF A!Fail, A!ApplyTypeOK, A!Counts
  <2> QED
    BY <1>9, <2>1, ApplyRunMoves
<1>10. CASE A!Complete
  <2>1. acounts'.runs = acounts.runs /\ ajob # A!Idle /\ ajob' = A!Idle
    BY <1>10 DEF A!Complete
  <2> QED
    BY <1>10, <2>1, ApplyRunMoves
<1>11. CASE A!Crash
  <2>1. acounts'.runs = acounts.runs /\ ajob' = A!Idle
    BY <1>11 DEF A!Crash, A!ApplyTypeOK, A!Counts
  <2> QED
    BY <1>11, <2>1, ApplyRunMoves
<1>12. ASSUME NEW k \in A!RunIds, A!Rollback(k) PROVE Sound
  BY <1>12 DEF A!Rollback
<1>13. CASE A!UndoRemove \/ A!UndoCopy \/ A!UndoStops
  BY <1>13 DEF A!UndoRemove, A!UndoCopy, A!UndoStops
<1> QED
  BY <1>1, <1>3, <1>4, <1>5, <1>6, <1>7, <1>8, <1>9, <1>10, <1>11, <1>12, <1>13
  DEF A!Next, avars

LEMMA ApplyUndoSound == A!ApplyInv /\ [A!Next]_avars => A!UndoIsSound'
<1> SUFFICES ASSUME A!ApplyInv, [A!Next]_avars PROVE A!UndoIsSound'
  OBVIOUS
<1>0. A!ApplyTypeOK /\ A!OneAtATime /\ A!JobIsSound /\ A!UndoIsSound
  BY DEF A!ApplyInv, A!OneAtATime
<1>i. A!NoUndo.step = "idle"
  BY DEF A!NoUndo
<1>t. aundo \in A!Undo /\ aruns \in [A!RunIds -> A!Run]
  BY <1>0 DEF A!ApplyTypeOK
<1> USE <1>0, <1>i, <1>t
<1>1. CASE aundo' = A!NoUndo
  BY <1>1 DEF A!UndoIsSound
<1>2. CASE UNCHANGED <<aundo, aruns>>
  BY <1>2 DEF A!UndoIsSound
<1>4. ASSUME NEW id \in A!RunIds, A!Rollback(id) PROVE A!UndoIsSound'
  <2>1. /\ aundo' = [id |-> id, left |-> aruns[id].applied, step |-> "remove"]
        /\ aruns[id].status \in {"complete", "failed"}
        /\ aruns[id].applied # <<>> /\ aruns' = aruns
    BY <1>4 DEF A!Rollback
  <2>2. aruns[id].applied \in Seq(A!Applied)
    BY DEF A!Run
  <2>3. Len(aruns[id].applied) \in 1..Len(aruns[id].applied)
    BY <2>1, <2>2
  <2> QED
    BY <2>1, <2>3 DEF A!UndoIsSound
<1>5. CASE A!UndoRemove
  <2>1. aundo'.id = aundo.id /\ aundo'.left = aundo.left /\ aundo'.step = "copy"
        /\ aruns' = aruns /\ aundo # A!NoUndo
    BY <1>5 DEF A!UndoRemove, A!Undo
  <2> QED
    BY <2>1 DEF A!UndoIsSound
<1>6. CASE A!UndoCopy /\ Len(aundo.left) # 1
  <2>1. /\ aundo'.id = aundo.id /\ aundo'.step = "remove" /\ aruns' = aruns
        /\ aundo'.left = SubSeq(aundo.left, 1, Len(aundo.left) - 1) /\ aundo # A!NoUndo
    BY <1>6 DEF A!UndoCopy, A!Undo
  <2>2. /\ Len(aundo.left) \in 2..Len(aruns[aundo.id].applied)
        /\ aruns[aundo.id].applied \in Seq(A!Applied) /\ aundo.left \in Seq(A!Applied)
    <3>1. aundo.id \in A!RunIds /\ Len(aundo.left) \in 1..Len(aruns[aundo.id].applied)
      BY <2>1 DEF A!UndoIsSound
    <3>2. aruns[aundo.id].applied \in Seq(A!Applied)
      BY <3>1 DEF A!Run
    <3>3. aundo.left \in Seq(A!Applied)
      BY DEF A!Undo
    <3>4. Len(aruns[aundo.id].applied) \in Nat /\ Len(aundo.left) # 1
      BY <1>6, <3>2
    <3>5. \A n, k \in Nat : n \in 1..k /\ n # 1 => n \in 2..k
      OBVIOUS
    <3>6. Len(aundo.left) \in Nat
      BY <3>3
    <3>7. Len(aundo.left) \in 2..Len(aruns[aundo.id].applied)
      BY <3>1, <3>4, <3>5, <3>6
    <3> QED
      BY <3>2, <3>3, <3>7
  <2>3. /\ Len(aundo'.left) = Len(aundo.left) - 1
        /\ \A i \in 1..Len(aundo'.left) : aundo'.left[i] = aundo.left[i]
    BY <2>1, <2>2
  <2>4. /\ aundo.id \in A!RunIds /\ aruns[aundo.id].status \in {"complete", "failed"}
        /\ \A i \in 1..Len(aundo.left) : aundo.left[i] = aruns[aundo.id].applied[i]
    BY <2>1 DEF A!UndoIsSound
  <2>5. Len(aundo'.left) \in 1..Len(aruns[aundo.id].applied)
    BY <2>2, <2>3
  <2>6. \A i \in 1..Len(aundo'.left) : aundo'.left[i] = aruns[aundo.id].applied[i]
    BY <2>2, <2>3, <2>4
  <2>7. aundo' # A!NoUndo
    BY <2>1
  <2> QED
    BY <2>1, <2>4, <2>5, <2>6, <2>7 DEF A!UndoIsSound
<1>7. ASSUME NEW s \in Skills, A!CopyToTemp(s) PROVE A!UndoIsSound'
  BY <1>2, <1>7 DEF A!CopyToTemp
<1>8. ASSUME NEW s \in Skills, NEW e \in RootEdits, A!Edit(s, e) PROVE A!UndoIsSound'
  BY <1>2, <1>8 DEF A!Edit
<1>9. ASSUME NEW target \in A!Targets, NEW ids \in SUBSET Skills, A!Apply(target, ids)
      PROVE  A!UndoIsSound'
  BY <1>1, <1>9 DEF A!Apply
<1>10. CASE A!BackUp \/ A!Remove \/ A!Rename \/ A!Fail \/ A!Complete
  <2>1. ajob.step # "idle"
    BY <1>10 DEF A!BackUp, A!Remove, A!Rename, A!Fail, A!Complete
  <2>2. aundo = A!NoUndo
    BY <2>1 DEF A!JobIsSound
  <2>3. aundo' = aundo
    BY <1>10 DEF A!BackUp, A!Remove, A!Rename, A!Fail, A!Complete
  <2> QED
    BY <1>1, <2>2, <2>3
<1> QED
  BY <1>1, <1>2, <1>4, <1>5, <1>6, <1>7, <1>8, <1>9, <1>10
  DEF A!Next, avars, A!Crash, A!UndoCopy, A!UndoStops


LEMMA ApplySoundNext == A!ApplyInv /\ [A!Next]_avars => A!OneAtATime'
BY ApplyJobSound, ApplyRunsSound, ApplyUndoSound DEF A!OneAtATime

LEMMA ApplyInPlaceNext == A!ApplyInv /\ [A!Next]_avars => A!InPlace'
<1> SUFFICES ASSUME A!ApplyInv, [A!Next]_avars PROVE A!InPlace'
  OBVIOUS
<1>0. A!ApplyTypeOK /\ A!OneAtATime /\ A!JobIsSound /\ A!InPlace
  BY DEF A!ApplyInv, A!OneAtATime
<1>t. aroot \in [Skills -> A!Entry] /\ ajob \in A!Job
  BY <1>0 DEF A!ApplyTypeOK
<1>s. SUFFICES ASSUME NEW s \in Skills
               PROVE  /\ (A!InHand(s) /\ s \notin ajob.touched)' =>
                         /\ ajob'.step \in {"backup", "remove"} =>
                               (ajob'.had <=> aroot'[s] # Absent)
                         /\ ajob'.step = "remove" /\ ajob'.had =>
                               aruns'[ajob'.id].backup[s] = A!Copied(aroot'[s])
                      /\ ajob'.target = "tool" /\ s \in ajob'.todo \ ajob'.moved =>
                            ~ (aroot'[s] # Absent /\ aroot'[s].kind = "canonical")
  BY DEF A!InPlace, A!Current, A!LinkedToCanonical
<1>u. /\ A!InHand(s) /\ s \notin ajob.touched =>
            /\ ajob.step \in {"backup", "remove"} => (ajob.had <=> aroot[s] # Absent)
            /\ ajob.step = "remove" /\ ajob.had =>
                  aruns[ajob.id].backup[s] = A!Copied(aroot[s])
      /\ ajob.target = "tool" /\ s \in ajob.todo \ ajob.moved =>
            ~ (aroot[s] # Absent /\ aroot[s].kind = "canonical")
  BY <1>0 DEF A!InPlace, A!Current, A!LinkedToCanonical
<1> DEFINE Held == (A!InHand(s) /\ s \notin ajob.touched)' =>
                      /\ ajob'.step \in {"backup", "remove"} =>
                            (ajob'.had <=> aroot'[s] # Absent)
                      /\ ajob'.step = "remove" /\ ajob'.had =>
                            aruns'[ajob'.id].backup[s] = A!Copied(aroot'[s])
           Linked == ajob'.target = "tool" /\ s \in ajob'.todo \ ajob'.moved =>
                        ~ (aroot'[s] # Absent /\ aroot'[s].kind = "canonical")
<1>i. A!Idle.step = "idle" /\ A!Idle.todo = {}
  BY DEF A!Idle
<1>1. CASE UNCHANGED <<aroot, aruns, ajob>>
  BY <1>1, <1>u DEF A!InHand
<1>2. CASE ajob' = A!Idle
  BY <1>2, <1>i DEF A!InHand
<1>3. ASSUME NEW target \in A!Targets, NEW ids \in SUBSET Skills, A!Apply(target, ids)
      PROVE  Held /\ Linked
  <2>1. Held
    BY <1>3, <1>0, ApplyJobMoves DEF A!InHand
  <2>2. Linked
    <3>1. target = "tool" => A!Plan(target, ids) \subseteq {t \in Skills : ~ A!LinkedToCanonical(t)}
      BY DEF A!Plan, A!Allowed
    <3>2. aroot' = aroot /\ ajob'.target = target /\ ajob'.todo = A!Plan(target, ids)
      BY <1>3, <1>0, ApplyJobMoves DEF A!Apply
    <3> QED
      BY <3>1, <3>2 DEF A!LinkedToCanonical
  <2> QED
    BY <2>1, <2>2
<1>4. ASSUME NEW t \in Skills, A!CopyToTemp(t) PROVE Held /\ Linked
  BY <1>4, <1>u, <1>0, ApplyJobMoves DEF A!CopyToTemp, A!InHand
<1>5. CASE A!BackUp
  <2>1. aroot' = aroot /\ ajob.item \in Skills /\ ajob.id \in A!RunIds /\ ajob.step = "backup"
    BY <1>5, <1>0, ApplyAt DEF A!BackUp
  <2>2. aruns'[ajob.id].backup[s] = IF ajob.had /\ s = ajob.item THEN A!Copied(aroot[s])
                                    ELSE aruns[ajob.id].backup[s]
    BY <1>5, <2>1, <1>0, ApplyRunMoves
  <2>3. Linked
    BY <1>5, <1>u, <2>1, <1>0, ApplyJobMoves
  <2>4. ajob.had => aroot[ajob.item] # Absent
    BY <1>5 DEF A!BackUp
  <2>5. Held
    BY <1>5, <1>u, <2>1, <2>2, <2>4, <1>0, ApplyJobMoves DEF A!InHand
  <2> QED
    BY <2>3, <2>5
<1>6. CASE A!Remove
  <2>1. ajob.item \in Skills
    BY <1>6, <1>0, ApplyAt DEF A!Remove
  <2>2. aroot' = A!Put(ajob.item, Absent)
    BY <1>6 DEF A!Remove, A!Becomes
  <2>3. Held
    BY <1>6, <1>0, ApplyJobMoves DEF A!InHand
  <2>4. aroot'[s] = aroot[s] \/ aroot'[s] = Absent
    BY <2>1, <2>2, <1>t DEF A!Put
  <2>5. Linked
    BY <1>6, <1>u, <2>4, <1>0, ApplyJobMoves
  <2> QED
    BY <2>3, <2>5
<1>7. CASE A!Rename
  <2>1. ajob.item \in Skills
    BY <1>7, <1>0, ApplyAt DEF A!Rename
  <2>2. s # ajob.item => aroot'[s] = aroot[s]
    BY <1>7, <2>1, <1>t DEF A!Rename, A!Becomes, A!Put
  <2>3. Held
    BY <1>7, <1>0, ApplyJobMoves DEF A!InHand
  <2>4. Linked
    BY <1>7, <1>u, <2>2, <1>0, ApplyJobMoves
  <2> QED
    BY <2>3, <2>4
<1>8. ASSUME NEW t \in Skills, NEW e \in RootEdits, A!Edit(t, e) PROVE Held /\ Linked
  <2>1. aruns' = aruns
    BY <1>8 DEF A!Edit
  <2>2. s # t => aroot'[s] = aroot[s]
    BY <1>8, <1>t DEF A!Edit, A!Becomes, A!Put
  <2>3. CASE ajob = A!Idle
    BY <1>8, <1>2, <2>3, <1>0, ApplyJobMoves
  <2>4. CASE ajob # A!Idle
    BY <1>8, <1>u, <2>1, <2>2, <2>4, <1>0, ApplyJobMoves DEF A!InHand
  <2> QED
    BY <2>3, <2>4
<1>9. ASSUME NEW id \in A!RunIds, A!Rollback(id) PROVE Held /\ Linked
  BY <1>9, <1>1 DEF A!Rollback
<1>10. CASE A!UndoRemove \/ A!UndoCopy \/ A!UndoStops
  <2>1. ajob' = ajob
    BY <1>10 DEF A!UndoRemove, A!UndoCopy, A!UndoStops
  <2>2. aundo.step # "idle"
    BY <1>10 DEF A!UndoRemove, A!UndoCopy, A!UndoStops
  <2>3. ajob = A!Idle
    BY <2>2, <1>0 DEF A!JobIsSound, A!NoUndo
  <2> QED
    BY <2>1, <2>3, <1>2
<1> QED
  BY <1>1, <1>2, <1>3, <1>4, <1>5, <1>6, <1>7, <1>8, <1>9, <1>10
  DEF A!Next, avars, A!Fail, A!Complete, A!Crash


\* What the steps do to the root of a skill nobody but the run changed.
LEMMA ApplyRootMoves ==
    ASSUME A!ApplyInv, [A!Next]_avars, NEW id \in A!RunIds, NEW s \in Skills, s \notin asince'[id]
    PROVE  /\ s \notin asince[id]
           /\ ajob.id # id /\ aundo.id # id => aroot'[s] = aroot[s]
           /\ \A t \in Skills, e \in RootEdits : A!Edit(t, e) => aroot'[s] = aroot[s]
<1>0. A!ApplyTypeOK /\ A!OneAtATime
  BY DEF A!ApplyInv
<1>n. 0 \notin A!RunIds
  BY LocalBoundAssumption DEF A!RunIds
<1> DEFINE Same == /\ s \notin asince[id]
                   /\ ajob.id # id /\ aundo.id # id => aroot'[s] = aroot[s]
<1>r. ASSUME NEW new \in [Skills -> A!Entry], NEW by, A!Becomes(new, by)
      PROVE  s \notin asince[id] /\ (id # by => aroot'[s] = aroot[s])
  BY <1>0, <1>r, ApplyBecomes
<1>1. CASE UNCHANGED <<aroot, asince>>
  BY <1>1
<1>2. ASSUME NEW t \in Skills, NEW e \in RootEdits, A!Edit(t, e)
      PROVE  s \notin asince[id] /\ aroot'[s] = aroot[s]
  <2>1. A!Put(t, e) \in [Skills -> A!Entry]
    BY <1>0, ApplyPuts, ApplyAssumption
  <2> QED
    BY <1>2, <1>n, <1>r, <2>1 DEF A!Edit
<1>3. ASSUME A!Remove PROVE Same
  <2>1. A!Put(ajob.item, Absent) \in [Skills -> A!Entry]
    BY <1>0, <1>3, ApplyAt, ApplyPuts, ApplyStart DEF A!Remove
  <2> QED
    BY <1>3, <1>r, <2>1 DEF A!Remove
<1>4. ASSUME A!Rename PROVE Same
  <2>1. ajob.item \in Skills /\ Staged[ajob.item] # Absent
    BY <1>0, <1>4, ApplyAt DEF A!Rename, A!OneAtATime, A!JobIsSound
  <2>2. A!Dir(Staged[ajob.item]) \in A!Entry
    BY <2>1, ApplyAssumption DEF A!Dir, A!Entry, A!Kinds, A!Contents
  <2>3. A!Put(ajob.item, A!Dir(Staged[ajob.item])) \in [Skills -> A!Entry]
    BY <1>0, <2>1, <2>2, ApplyPuts
  <2> QED
    BY <1>4, <1>r, <2>3 DEF A!Rename
<1>5. ASSUME A!Fail PROVE Same
  <2>1. \A left \in {A!PutBack} \cup A!HalfReplaced : left \in [Skills -> A!Entry]
    BY <1>0, <1>5, ApplyBreaks, ApplyPuts DEF A!Fail
  <2> QED
    BY <1>5, <1>r, <2>1 DEF A!Fail
<1>6. ASSUME A!UndoRemove PROVE Same
  <2>1. A!Last.skill \in Skills
    BY <1>0, <1>6, ApplyAt DEF A!UndoRemove, A!Applied
  <2>2. A!Put(A!Last.skill, Absent) \in [Skills -> A!Entry]
    BY <1>0, <2>1, ApplyPuts, ApplyStart
  <2> QED
    BY <1>6, <1>r, <2>2 DEF A!UndoRemove
<1>7. ASSUME A!UndoCopy PROVE Same
  <2>1. A!Last.skill \in Skills /\ aundo.id \in A!RunIds
    BY <1>0, <1>7, ApplyAt DEF A!UndoCopy, A!Applied
  <2>2. A!Restored \in A!Entry
    <3>1. aruns \in [A!RunIds -> A!Run]
      BY <1>0 DEF A!ApplyTypeOK
    <3> QED
      BY <2>1, <3>1, ApplyStart, ApplyCopies DEF A!Restored, A!Run
  <2>3. A!Put(A!Last.skill, A!Restored) \in [Skills -> A!Entry]
    BY <1>0, <2>1, <2>2, ApplyPuts
  <2> QED
    BY <1>7, <1>r, <2>3 DEF A!UndoCopy
<1>9. ASSUME A!Crash PROVE Same
  <2>1. CASE ajob # A!Idle
    <3>1. ASSUME NEW left \in {aroot} \cup A!HalfReplaced
          PROVE  left \in [Skills -> A!Entry]
      <4>1. aroot \in [Skills -> A!Entry]
        BY <1>0 DEF A!ApplyTypeOK
      <4>2. A!Part \in A!Entry
        BY <1>0, ApplyBreaks
      <4>3. CASE left \in A!HalfReplaced
        <5>1. ajob.item \in Skills /\ left = A!Put(ajob.item, A!Part)
          BY <1>0, <4>3, ApplyBreaks
        <5> QED
          BY <1>0, <4>2, <5>1, ApplyPuts
      <4> QED
        BY <4>1, <4>3
    <3>2. PICK left \in {aroot} \cup A!HalfReplaced : A!Becomes(left, ajob.id)
      BY <1>9, <2>1 DEF A!Crash
    <3> QED
      BY <1>r, <3>1, <3>2
  <2>2. CASE ajob = A!Idle
    <3>1. aundo.step # "idle" /\ A!Last.skill \in Skills
      BY <1>0, <1>9, <2>2, ApplyAt DEF A!Crash, A!OneAtATime, A!UndoIsSound, A!Applied
    <3>2. \A left \in {aroot} \cup A!HalfUndone : left \in [Skills -> A!Entry]
      <4>1. aroot \in [Skills -> A!Entry]
        BY <1>0 DEF A!ApplyTypeOK
      <4> QED
        BY <1>0, <3>1, <4>1, ApplyBreaks, ApplyPuts
    <3>3. PICK left \in {aroot} \cup A!HalfUndone : A!Becomes(left, aundo.id)
      BY <1>9, <2>2 DEF A!Crash
    <3> QED
      BY <1>r, <3>2, <3>3
  <2> QED
    BY <2>1, <2>2
<1>8. Same
  BY <1>1, <1>2, <1>3, <1>4, <1>5, <1>6, <1>7, <1>9
  DEF A!Next, avars, A!Apply, A!CopyToTemp, A!BackUp, A!Complete, A!Rollback, A!UndoStops
<1> QED
  BY <1>2, <1>8

\* While a rollback goes on no run does, and the other way round.
LEMMA ApplyOneGoesOn ==
    ASSUME A!ApplyInv
    PROVE  /\ ajob.step # "idle" => aundo = A!NoUndo /\ ajob # A!Idle /\ ajob.id \in A!RunIds
           /\ aundo.step # "idle" => ajob = A!Idle /\ aundo # A!NoUndo
           /\ A!Idle.id = 0 /\ A!NoUndo.id = 0 /\ 0 \notin A!RunIds
           /\ A!Idle.step = "idle" /\ A!NoUndo.step = "idle"
           /\ ajob # A!Idle => ajob.step # "idle" /\ ajob.todo \subseteq Skills
           /\ aundo # A!NoUndo => aundo.step # "idle"
<1>1. ajob.todo \subseteq Skills
  BY DEF A!ApplyInv, A!ApplyTypeOK, A!Job
<1>2. 0 \notin A!RunIds
  BY LocalBoundAssumption DEF A!RunIds
<1> QED
  BY <1>1, <1>2 DEF A!ApplyInv, A!OneAtATime, A!JobIsSound, A!UndoIsSound, A!Idle, A!NoUndo

LEMMA ApplyRememberedNext == A!ApplyInv /\ [A!Next]_avars => A!Remembered'
<1> SUFFICES ASSUME A!ApplyInv, [A!Next]_avars PROVE A!Remembered'
  OBVIOUS
<1>0. A!ApplyTypeOK /\ A!OneAtATime /\ A!JobIsSound /\ A!RunsAreSound /\ A!Remembered /\ A!HeldAsBefore
  BY DEF A!ApplyInv, A!OneAtATime
<1>s. SUFFICES ASSUME NEW id \in A!RunIds, NEW s \in Skills, s \notin asince'[id],
                      NEW i \in 1..Len(aruns'[id].applied),
                      aruns'[id].applied[i].skill = s
               PROVE  /\ aruns'[id].applied[i].had <=> aruns'[id].before[s] # Absent
                      /\ aruns'[id].applied[i].had =>
                            aruns'[id].backup[s] = A!Copied(aruns'[id].before[s])
  BY DEF A!Remembered
<1>m. s \notin asince[id]
  BY <1>s, ApplyRootMoves
<1> DEFINE Kept == /\ aruns'[id].applied = aruns[id].applied
                   /\ aruns'[id].before = aruns[id].before
                   /\ aruns'[id].backup[s] = aruns[id].backup[s]
           Told == /\ aruns'[id].applied[i].had <=> aruns'[id].before[s] # Absent
                   /\ aruns'[id].applied[i].had =>
                         aruns'[id].backup[s] = A!Copied(aruns'[id].before[s])
<1>k. Kept => Told
  BY <1>0, <1>s, <1>m DEF A!Remembered
<1>a. aruns[id].applied \in Seq(A!Applied)
  BY <1>0 DEF A!ApplyTypeOK, A!Run
<1>1. CASE UNCHANGED aruns
  BY <1>1, <1>k
<1>2. ASSUME NEW target \in A!Targets, NEW ids \in SUBSET Skills, A!Apply(target, ids)
      PROVE  Told
  <2>1. CASE id = acounts.runs + 1
    <3>1. acounts.runs \in Nat
      BY <1>0, LocalBoundAssumption DEF A!ApplyTypeOK, A!Counts
    <3>2. id > acounts.runs
      BY <2>1, <3>1
    <3>3. aruns[id].applied = <<>>
      BY <1>0, <3>2 DEF A!RunsAreSound, A!Unused
    <3>4. aruns'[id].applied = <<>>
      BY <1>0, <1>2, <3>3, ApplyRunMoves
    <3> QED
      BY <1>s, <3>4
  <2>2. CASE id # acounts.runs + 1
    BY <1>0, <1>2, <1>k, <2>2, ApplyRunMoves
  <2> QED
    BY <2>1, <2>2
<1>3. CASE A!BackUp
  <2>1. ajob.id \in A!RunIds /\ ajob # A!Idle /\ ajob.item \in ajob.todo
    BY <1>0, <1>3, ApplyOneGoesOn DEF A!BackUp, A!JobIsSound
  <2>2. aruns'[id].applied = aruns[id].applied
    BY <1>0, <1>3, ApplyRunMoves
  <2>3. id = ajob.id => s # ajob.item
    BY <1>0, <1>s, <2>1, <2>2 DEF A!HeldAsBefore, A!Replaced
  <2> QED
    BY <1>0, <1>3, <1>k, <2>3, ApplyRunMoves
<1>4. CASE A!Rename
  <2>1. CASE id # ajob.id
    BY <1>0, <1>4, <1>k, <2>1, ApplyRunMoves
  <2>2. CASE id = ajob.id
    <3>1. /\ aruns'[id].applied = Append(aruns[id].applied,
                                         [skill |-> ajob.item, had |-> ajob.had])
          /\ aruns'[id].before = aruns[id].before /\ aruns'[id].backup = aruns[id].backup
      BY <1>0, <1>4, <2>2, ApplyRunMoves
    <3>2. CASE i \in 1..Len(aruns[id].applied)
      <4>1. aruns'[id].applied[i] = aruns[id].applied[i]
        BY <1>a, <3>1, <3>2
      <4> QED
        BY <1>0, <1>s, <1>m, <3>1, <3>2, <4>1 DEF A!Remembered
    <3>3. CASE i \notin 1..Len(aruns[id].applied)
      <4>1. aruns'[id].applied[i] = [skill |-> ajob.item, had |-> ajob.had]
        BY <1>a, <1>s, <3>1, <3>3
      <4>2. ajob.step = "rename" /\ ajob # A!Idle /\ s = ajob.item
        BY <1>4, <1>s, <4>1, ApplyOneGoesOn DEF A!Rename
      <4>3. A!InHand(s)
        BY <4>2 DEF A!InHand
      <4>4. /\ ajob.had <=> aruns[id].before[s] # Absent
            /\ ajob.had => aruns[id].backup[s] = A!Copied(aruns[id].before[s])
        BY <1>0, <1>m, <2>2, <4>2, <4>3 DEF A!HeldAsBefore, A!Current
      <4> QED
        BY <3>1, <4>1, <4>4
    <3> QED
      BY <3>2, <3>3
  <2> QED
    BY <2>1, <2>2
<1>5. CASE A!Fail \/ A!Complete \/ A!Crash
  BY <1>0, <1>5, <1>k, ApplyRunMoves
<1> QED
  BY <1>1, <1>2, <1>3, <1>4, <1>5
  DEF A!Next, avars, A!CopyToTemp, A!Edit, A!Remove, A!Rollback, A!UndoRemove, A!UndoCopy, A!UndoStops


\* What a run replaced stays replaced, in its record.
LEMMA ApplyReplaced ==
    ASSUME A!ApplyInv, [A!Next]_avars, NEW id \in A!RunIds, NEW s \in Skills
    PROVE  /\ ~ A!Rename => (A!Replaced(id, s)' <=> A!Replaced(id, s))
           /\ A!Rename /\ id # ajob.id => (A!Replaced(id, s)' <=> A!Replaced(id, s))
           /\ A!Rename /\ id = ajob.id =>
                 (A!Replaced(id, s)' <=> A!Replaced(id, s) \/ s = ajob.item)
<1>0. A!ApplyTypeOK
  BY DEF A!ApplyInv
<1>a. aruns[id].applied \in Seq(A!Applied)
  BY <1>0 DEF A!ApplyTypeOK, A!Run
<1>1. aruns'[id].applied = aruns[id].applied => (A!Replaced(id, s)' <=> A!Replaced(id, s))
  BY DEF A!Replaced
<1>2. A!Rename /\ id # ajob.id => aruns'[id].applied = aruns[id].applied
  BY <1>0, ApplyRunMoves
<1>3. ~ A!Rename => aruns'[id].applied = aruns[id].applied
  BY <1>0, ApplyRunMoves
  DEF A!Next, avars, A!CopyToTemp, A!Edit, A!Remove, A!Rollback, A!UndoRemove, A!UndoCopy, A!UndoStops
<1>4. ASSUME A!Rename, id = ajob.id
      PROVE  A!Replaced(id, s)' <=> A!Replaced(id, s) \/ s = ajob.item
  <2> DEFINE one == [skill |-> ajob.item, had |-> ajob.had]
  <2>1. aruns'[id].applied = Append(aruns[id].applied, one)
    BY <1>0, <1>4, ApplyRunMoves
  <2>2. /\ Len(aruns'[id].applied) = Len(aruns[id].applied) + 1
        /\ \A i \in 1..Len(aruns[id].applied) : aruns'[id].applied[i] = aruns[id].applied[i]
        /\ aruns'[id].applied[Len(aruns[id].applied) + 1] = one
        /\ Len(aruns[id].applied) \in Nat
    BY <1>a, <2>1
  <2>3. one.skill = ajob.item
    OBVIOUS
  <2>4. 1..(Len(aruns[id].applied) + 1) = 1..Len(aruns[id].applied) \cup {Len(aruns[id].applied) + 1}
    BY <2>2
  <2> HIDE DEF one
  <2> QED
    BY <2>2, <2>3, <2>4 DEF A!Replaced
<1> QED
  BY <1>1, <1>2, <1>3, <1>4

LEMMA ApplyOthersNext == A!ApplyInv /\ [A!Next]_avars => A!OthersAsBefore'
<1> SUFFICES ASSUME A!ApplyInv, [A!Next]_avars PROVE A!OthersAsBefore'
  OBVIOUS
<1>0. /\ A!ApplyTypeOK /\ A!OneAtATime /\ A!JobIsSound /\ A!RunsAreSound
      /\ A!OthersAsBefore /\ A!HeldAsBefore
  BY DEF A!ApplyInv, A!OneAtATime
<1>s. SUFFICES ASSUME NEW id \in A!RunIds, NEW s \in Skills, s \notin asince'[id]
               PROVE  /\ (aruns'[id].status = "running" /\ ~ A!Replaced(id, s)'
                             /\ ~ (ajob'.step = "rename" /\ s = ajob'.item))
                            => aroot'[s] = aruns'[id].before[s]
                      /\ aruns'[id].status \in {"complete", "failed"} /\ ~ A!Replaced(id, s)'
                            => \/ A!AsBefore(id, s, aroot[s])'
                               \/ A!OnlyInBackup(id, s, aroot[s])'
  BY DEF A!OthersAsBefore
<1> DEFINE Same == /\ (aruns'[id].status = "running" /\ ~ A!Replaced(id, s)'
                          /\ ~ (ajob'.step = "rename" /\ s = ajob'.item))
                         => aroot'[s] = aruns'[id].before[s]
                   /\ aruns'[id].status \in {"complete", "failed"} /\ ~ A!Replaced(id, s)'
                         => \/ A!AsBefore(id, s, aroot[s])'
                            \/ A!OnlyInBackup(id, s, aroot[s])'
<1>m. s \notin asince[id]
  BY <1>s, ApplyRootMoves
<1>u. /\ (aruns[id].status = "running" /\ ~ A!Replaced(id, s)
             /\ ~ (ajob.step = "rename" /\ s = ajob.item))
            => aroot[s] = aruns[id].before[s]
      /\ aruns[id].status \in {"complete", "failed"} /\ ~ A!Replaced(id, s)
            => A!AsBefore(id, s, aroot[s]) \/ A!OnlyInBackup(id, s, aroot[s])
  BY <1>0, <1>m DEF A!OthersAsBefore
<1>w. aruns[id].status = "running" <=> ajob.id = id
  BY <1>0 DEF A!RunsAreSound
<1> HIDE DEF Same, A!AsBefore, A!OnlyInBackup
<1>1. ASSUME UNCHANGED avars PROVE Same
  <2>1. aruns' = aruns /\ aroot' = aroot /\ ajob' = ajob
    BY <1>1 DEF avars
  <2> QED
    BY <1>u, <2>1 DEF Same, A!Replaced, A!AsBefore, A!OnlyInBackup
<1>2. ASSUME NEW target \in A!Targets, NEW ids \in SUBSET Skills, A!Apply(target, ids)
      PROVE  Same
  <2>1. aroot' = aroot /\ ajob = A!Idle
    BY <1>2 DEF A!Apply
  <2>2. CASE id = acounts.runs + 1
    BY <1>0, <1>2, <2>1, <2>2, ApplyRunMoves DEF Same, A!AsBefore, A!OnlyInBackup
  <2>3. CASE id # acounts.runs + 1
    <3>1. aruns'[id] = aruns[id] /\ aruns[id].status # "running"
      BY <1>0, <1>2, <1>w, <2>1, <2>3, ApplyRunMoves, ApplyOneGoesOn
    <3> QED
      BY <1>u, <2>1, <3>1 DEF Same, A!Replaced, A!AsBefore, A!OnlyInBackup
  <2> QED
    BY <2>2, <2>3
<1>3. ASSUME NEW t \in Skills, A!CopyToTemp(t) PROVE Same
  <2>1. aroot' = aroot /\ aruns' = aruns /\ ajob.step = "items" /\ ajob'.step = "backup"
    BY <1>0, <1>3, ApplyJobMoves DEF A!CopyToTemp
  <2> QED
    BY <1>u, <2>1 DEF Same, A!Replaced, A!AsBefore, A!OnlyInBackup
<1>4. ASSUME A!BackUp PROVE Same
  <2>1. /\ aroot' = aroot /\ ajob.step = "backup" /\ aruns'[id].status = aruns[id].status
        /\ aruns'[id].before = aruns[id].before /\ aruns'[id].applied = aruns[id].applied
        /\ id # ajob.id => aruns'[id] = aruns[id]
    BY <1>0, <1>4, ApplyRunMoves DEF A!BackUp
  <2> QED
    BY <1>u, <1>w, <2>1 DEF Same, A!Replaced, A!AsBefore, A!OnlyInBackup
<1>5. ASSUME A!Remove PROVE Same
  <2>1. /\ ajob.step = "remove" /\ ajob'.step = "rename" /\ ajob'.item = ajob.item
        /\ aruns' = aruns /\ aundo = A!NoUndo /\ ajob.item \in Skills
    BY <1>0, <1>5, ApplyJobMoves, ApplyOneGoesOn, ApplyAt DEF A!Remove
  <2>2. s # ajob.item => aroot'[s] = aroot[s]
    BY <1>0, <1>5, <2>1, ApplyPuts, ApplyStart DEF A!Remove, A!Becomes
  <2>3. id # ajob.id => aroot'[s] = aroot[s]
    BY <1>s, <2>1, ApplyRootMoves, ApplyOneGoesOn
  <2> QED
    BY <1>u, <1>w, <2>1, <2>2, <2>3 DEF Same, A!Replaced, A!AsBefore, A!OnlyInBackup
<1>6. ASSUME A!Rename PROVE Same
  <2>1. /\ ajob.step = "rename" /\ ajob'.step = "items" /\ aundo = A!NoUndo
        /\ ajob.item \in Skills /\ Staged[ajob.item] # Absent
    BY <1>0, <1>6, ApplyJobMoves, ApplyOneGoesOn, ApplyAt DEF A!Rename, A!JobIsSound
  <2>2. s # ajob.item => aroot'[s] = aroot[s]
    <3>1. A!Dir(Staged[ajob.item]) \in A!Entry
      BY <2>1, ApplyAssumption DEF A!Dir, A!Entry, A!Kinds, A!Contents
    <3> QED
      BY <1>0, <1>6, <2>1, <3>1, ApplyPuts DEF A!Rename, A!Becomes
  <2>3. id # ajob.id => aroot'[s] = aroot[s]
    BY <1>s, <2>1, ApplyRootMoves, ApplyOneGoesOn
  <2>4. /\ aruns'[id].status = aruns[id].status /\ aruns'[id].before = aruns[id].before
        /\ aruns'[id].backup = aruns[id].backup
    BY <1>0, <1>6, ApplyRunMoves
  <2>5. CASE id # ajob.id
    <3>1. A!Replaced(id, s)' <=> A!Replaced(id, s)
      BY <1>6, <2>5, ApplyReplaced
    <3> QED
      BY <1>u, <1>w, <2>3, <2>4, <2>5, <3>1 DEF Same, A!AsBefore, A!OnlyInBackup
  <2>6. CASE id = ajob.id
    <3>1. A!Replaced(id, s)' <=> A!Replaced(id, s) \/ s = ajob.item
      BY <1>6, <2>6, ApplyReplaced
    <3> QED
      BY <1>u, <1>w, <2>2, <2>4, <2>6, <3>1 DEF Same, A!AsBefore, A!OnlyInBackup
  <2> QED
    BY <2>5, <2>6
<1>7. ASSUME A!Fail PROVE Same
  <2>1. /\ ajob.step \in {"backup", "remove", "rename"} /\ aundo = A!NoUndo
        /\ ajob.item \in Skills /\ ajob # A!Idle /\ ajob.item \in ajob.todo
    BY <1>0, <1>7, ApplyOneGoesOn, ApplyAt DEF A!Fail, A!JobIsSound
  <2>2. /\ aruns'[id].before = aruns[id].before /\ aruns'[id].backup = aruns[id].backup
        /\ id # ajob.id => aruns'[id] = aruns[id]
        /\ id = ajob.id => aruns'[id].status = "failed"
    BY <1>0, <1>7, <2>1, ApplyRunMoves
  <2>3. A!Replaced(id, s)' <=> A!Replaced(id, s)
    <3>1. aruns'[id].applied = aruns[id].applied
      BY <1>0, <1>7, ApplyRunMoves
    <3> QED
      BY <3>1 DEF A!Replaced
  <2>4. CASE id # ajob.id
    <3>1. aroot'[s] = aroot[s]
      BY <1>s, <2>1, <2>4, ApplyRootMoves, ApplyOneGoesOn
    <3> QED
      BY <1>u, <1>w, <2>2, <2>3, <2>4, <3>1 DEF Same, A!AsBefore, A!OnlyInBackup
  <2>5. PICK left \in {A!PutBack} \cup A!HalfReplaced : aroot' = left
    BY <1>7 DEF A!Fail, A!Becomes
  <2>6. CASE id = ajob.id /\ s # ajob.item
    <3>1. aroot'[s] = aroot[s]
      BY <1>0, <2>1, <2>5, <2>6, ApplyBreaks, ApplyPuts
    <3>2. ~ A!Replaced(id, s) => aroot[s] = aruns[id].before[s]
      BY <1>u, <1>w, <2>6
    <3> QED
      BY <2>2, <2>3, <2>6, <3>1, <3>2 DEF Same, A!AsBefore
  <2>7. CASE id = ajob.id /\ s = ajob.item
    <3>1. A!InHand(s) /\ ~ A!Replaced(id, s)
      BY <1>0, <2>1, <2>7 DEF A!InHand, A!HeldAsBefore
    <3>2. /\ ajob.had <=> aruns[id].before[s] # Absent
          /\ ajob.had /\ ajob.step # "backup" =>
                aruns[id].backup[s] = A!Copied(aruns[id].before[s])
          /\ ajob.step = "rename" => aroot[s] = Absent
          /\ ajob.step # "rename" => aroot[s] = aruns[id].before[s]
      BY <1>0, <1>m, <1>u, <1>w, <2>1, <2>7, <3>1 DEF A!HeldAsBefore, A!Current
    <3>3. aruns[id].before[s] \in A!Entry /\ aruns[id].backup[s] \in A!Entry
      BY <1>0, ApplyCopies DEF A!ApplyTypeOK, A!Run
    <3>4. CASE left \in A!HalfReplaced
      <4>1. ajob.had /\ ajob.step # "backup"
        BY <1>0, <2>7, <3>2, <3>4, ApplyBreaks
      <4>2. aroot'[s] = A!Part
        BY <1>0, <2>5, <2>7, <3>4, ApplyBreaks, ApplyPuts
      <4> QED
        BY <2>2, <2>7, <3>2, <4>1, <4>2 DEF Same, A!OnlyInBackup
    <3>5. CASE left = A!PutBack /\ A!PutBack = aroot
      <4>1. aroot'[s] = aruns[id].before[s]
        <5>1. CASE ajob.step # "rename"
          BY <2>5, <3>2, <3>5, <5>1
        <5>2. CASE ajob.step = "rename" /\ ~ ajob.had
          BY <2>5, <3>2, <3>5, <5>2
        <5>3. CASE ajob.step = "rename" /\ ajob.had
          <6>1. A!PutBack = A!Put(s, aruns[id].backup[s]) /\ aruns[id].backup[s] # Absent
            BY <2>7, <3>2, <3>3, <5>3, ApplyCopies DEF A!PutBack, A!Current
          <6>2. A!PutBack[s] # Absent
            BY <1>0, <3>3, <6>1, ApplyPuts
          <6> QED
            BY <3>2, <3>5, <5>3, <6>2
        <5> QED
          BY <5>1, <5>2, <5>3
      <4> QED
        BY <2>2, <2>7, <4>1 DEF Same, A!AsBefore
    <3>6. CASE left = A!PutBack /\ A!PutBack # aroot
      <4>1. /\ ajob.had /\ aroot[s] = Absent
            /\ A!PutBack = A!Put(s, aruns[id].backup[s])
        BY <2>7, <3>6 DEF A!PutBack, A!Current
      <4>2. aroot'[s] = aruns[id].backup[s] /\ ajob.step # "backup"
        BY <1>0, <2>5, <3>2, <3>3, <3>6, <4>1, ApplyPuts
      <4>3. A!Copied(aroot'[s]) = A!Copied(aruns[id].before[s])
        BY <3>2, <3>3, <4>1, <4>2, ApplyCopies
      <4> QED
        BY <2>2, <2>7, <4>3 DEF Same, A!AsBefore
    <3> QED
      BY <2>5, <3>4, <3>5, <3>6
  <2> QED
    BY <2>4, <2>6, <2>7
<1>8. ASSUME A!Complete PROVE Same
  <2>1. /\ aroot' = aroot /\ ajob.step = "items" /\ ajob # A!Idle
        /\ aruns'[id].before = aruns[id].before /\ aruns'[id].applied = aruns[id].applied
        /\ id # ajob.id => aruns'[id] = aruns[id]
        /\ id = ajob.id => aruns'[id].status = "complete"
    BY <1>0, <1>8, ApplyRunMoves, ApplyOneGoesOn DEF A!Complete
  <2> QED
    BY <1>u, <1>w, <2>1 DEF Same, A!Replaced, A!AsBefore, A!OnlyInBackup
<1>9. ASSUME A!Crash PROVE Same
  <2>1. /\ aruns'[id].before = aruns[id].before /\ aruns'[id].applied = aruns[id].applied
        /\ aruns'[id].backup = aruns[id].backup
        /\ id # ajob.id \/ ajob = A!Idle => aruns'[id] = aruns[id]
        /\ id = ajob.id /\ ajob # A!Idle => aruns'[id].status = "dead"
    BY <1>0, <1>9, ApplyRunMoves
  <2>2. A!Replaced(id, s)' <=> A!Replaced(id, s)
    BY <2>1 DEF A!Replaced
  <2>3. CASE id # ajob.id /\ id # aundo.id
    <3>1. aroot'[s] = aroot[s]
      BY <1>s, <2>3, ApplyRootMoves
    <3> QED
      BY <1>u, <1>w, <2>1, <2>2, <2>3, <3>1 DEF Same, A!AsBefore, A!OnlyInBackup
  <2>4. CASE id = ajob.id
    <3>1. ajob # A!Idle
      BY <2>4, ApplyOneGoesOn
    <3> QED
      BY <2>1, <2>4, <3>1 DEF Same
  <2>5. CASE id # ajob.id /\ id = aundo.id
    <3>1. aundo # A!NoUndo
      BY <2>5, ApplyOneGoesOn
    <3>2. aundo.step # "idle" /\ ajob = A!Idle
      BY <3>1, ApplyOneGoesOn
    <3>3. A!Last.skill \in Skills /\ A!Replaced(id, A!Last.skill)
      BY <1>0, <2>5, <3>2, ApplyAt DEF A!Replaced, A!Applied
    <3>4. s # A!Last.skill => aroot'[s] = aroot[s]
      <4>1. PICK left \in {aroot} \cup A!HalfUndone : aroot' = left
        BY <1>9, <3>2 DEF A!Crash, A!Becomes
      <4>2. left = aroot \/ left = A!Put(A!Last.skill, A!Part)
        BY <1>0, <3>2, <4>1, ApplyBreaks
      <4> QED
        BY <1>0, <4>1, <4>2 DEF A!Put, A!ApplyTypeOK
    <3> QED
      BY <1>u, <1>w, <2>1, <2>2, <2>5, <3>2, <3>3, <3>4
      DEF Same, A!AsBefore, A!OnlyInBackup
  <2> QED
    BY <2>3, <2>4, <2>5
<1>10. ASSUME NEW t \in Skills, NEW e \in RootEdits, A!Edit(t, e) PROVE Same
  <2>1. aruns' = aruns /\ ajob'.step = ajob.step /\ ajob'.item = ajob.item
    BY <1>0, <1>10, ApplyJobMoves DEF A!Edit
  <2>2. aroot'[s] = aroot[s]
    BY <1>s, <1>10, ApplyRootMoves
  <2> QED
    BY <1>u, <2>1, <2>2 DEF Same, A!Replaced, A!AsBefore, A!OnlyInBackup
<1>11. ASSUME A!UndoRemove \/ A!UndoCopy PROVE Same
  <2>1. aruns' = aruns /\ ajob' = ajob /\ aundo.step # "idle" /\ ajob = A!Idle
    BY <1>11, ApplyOneGoesOn DEF A!UndoRemove, A!UndoCopy
  <2>2. A!Last.skill \in Skills /\ aundo.id \in A!RunIds
    BY <1>0, <2>1, ApplyAt DEF A!Applied
  <2>3. A!Replaced(aundo.id, A!Last.skill)
    BY <1>0, <2>1, ApplyAt DEF A!Replaced
  <2>4. s # A!Last.skill => aroot'[s] = aroot[s]
    <3>1. aroot' = A!Put(A!Last.skill, Absent) \/ aroot' = A!Put(A!Last.skill, A!Restored)
      BY <1>11 DEF A!UndoRemove, A!UndoCopy, A!Becomes
    <3> QED
      BY <1>0, <3>1 DEF A!Put, A!ApplyTypeOK
  <2>5. id # aundo.id => aroot'[s] = aroot[s]
    BY <1>s, <2>1, ApplyRootMoves, ApplyOneGoesOn
  <2>6. A!Replaced(id, s)' <=> A!Replaced(id, s)
    BY <2>1 DEF A!Replaced
  <2>7. aruns[id].status # "running"
    BY <1>w, <2>1, ApplyOneGoesOn
  <2> QED
    BY <1>u, <2>1, <2>3, <2>4, <2>5, <2>6, <2>7 DEF Same, A!AsBefore, A!OnlyInBackup
<1>12. ASSUME A!UndoStops \/ (\E k \in A!RunIds : A!Rollback(k)) PROVE Same
  <2>1. aruns' = aruns /\ ajob' = ajob /\ aroot' = aroot
    BY <1>12 DEF A!UndoStops, A!Rollback
  <2> QED
    BY <1>u, <2>1 DEF Same, A!Replaced, A!AsBefore, A!OnlyInBackup
<1> QED
  <2>1. Same
    BY <1>1, <1>2, <1>3, <1>4, <1>5, <1>6, <1>7, <1>8, <1>9, <1>10, <1>11, <1>12 DEF A!Next
  <2> QED
    BY <2>1 DEF Same, A!AsBefore, A!OnlyInBackup


LEMMA ApplyHeldNext == A!ApplyInv /\ [A!Next]_avars => A!HeldAsBefore'
<1> SUFFICES ASSUME A!ApplyInv, [A!Next]_avars PROVE A!HeldAsBefore'
  OBVIOUS
<1>0. /\ A!ApplyTypeOK /\ A!OneAtATime /\ A!JobIsSound /\ A!RunsAreSound
      /\ A!OthersAsBefore /\ A!HeldAsBefore
  BY DEF A!ApplyInv, A!OneAtATime
<1>s. SUFFICES ASSUME NEW s \in Skills, NEW k \in A!RunIds, ajob' # A!Idle, k = ajob'.id
               PROVE  /\ A!Replaced(k, s)' => s \notin ajob'.todo
                      /\ s \notin asince'[k] =>
                            /\ A!InHand(s)' => (ajob'.had <=> aruns'[k].before[s] # Absent)
                            /\ A!InHand(s)' /\ ajob'.had /\ ajob'.step # "backup" =>
                                  aruns'[k].backup[s] = A!Copied(aruns'[k].before[s])
                            /\ ajob'.step = "rename" /\ s = ajob'.item => aroot'[s] = Absent
  BY ApplySoundNext DEF A!HeldAsBefore, A!Current, A!Replaced, A!OneAtATime, A!JobIsSound
<1> DEFINE Going == /\ A!Replaced(k, s)' => s \notin ajob'.todo
                    /\ s \notin asince'[k] =>
                          /\ A!InHand(s)' => (ajob'.had <=> aruns'[k].before[s] # Absent)
                          /\ A!InHand(s)' /\ ajob'.had /\ ajob'.step # "backup" =>
                                aruns'[k].backup[s] = A!Copied(aruns'[k].before[s])
                          /\ ajob'.step = "rename" /\ s = ajob'.item => aroot'[s] = Absent
           Went == /\ A!Replaced(k, s) => s \notin ajob.todo
                   /\ s \notin asince'[k] =>
                         /\ A!InHand(s) => (ajob.had <=> aruns[k].before[s] # Absent)
                         /\ A!InHand(s) /\ ajob.had /\ ajob.step # "backup" =>
                               aruns[k].backup[s] = A!Copied(aruns[k].before[s])
                         /\ ajob.step = "rename" /\ s = ajob.item => aroot[s] = Absent
<1>m. s \notin asince'[k] => s \notin asince[k]
  BY ApplyRootMoves
<1>u. ajob # A!Idle /\ ajob.id = k => Went
  BY <1>0, <1>m DEF A!HeldAsBefore, A!Current, A!Replaced
<1> HIDE DEF Going, Went
<1>w. ajob # A!Idle => /\ ajob.id \in A!RunIds /\ aruns[ajob.id].status = "running"
                       /\ aundo = A!NoUndo
  BY <1>0 DEF A!RunsAreSound, A!JobIsSound
<1>1. ASSUME UNCHANGED avars PROVE Going
  <2>1. aruns' = aruns /\ aroot' = aroot /\ ajob' = ajob /\ asince' = asince
    BY <1>1 DEF avars
  <2> QED
    BY <1>s, <1>u, <2>1 DEF Going, Went, A!InHand, A!Replaced
<1>2. ASSUME NEW target \in A!Targets, NEW ids \in SUBSET Skills, A!Apply(target, ids)
      PROVE  Going
  <2>1. acounts.runs + 1 \in A!RunIds /\ acounts.runs \in Nat
    BY <1>0, <1>2, LocalBoundAssumption DEF A!Apply, A!ApplyTypeOK, A!Counts
  <2>2. aruns[acounts.runs + 1] = A!Unused
    BY <1>0, <2>1 DEF A!RunsAreSound
  <2>3. aruns'[acounts.runs + 1].applied = <<>>
    BY <1>0, <1>2, <2>1, <2>2, ApplyRunMoves DEF A!Unused
  <2>4. ajob'.id = acounts.runs + 1 /\ ajob'.step = "items"
    BY <1>0, <1>2, ApplyJobMoves
  <2>5. ~ A!Replaced(k, s)'
    BY <1>s, <2>3, <2>4 DEF A!Replaced
  <2> QED
    BY <2>4, <2>5 DEF Going, A!InHand
<1>3. ASSUME NEW t \in Skills, A!CopyToTemp(t) PROVE Going
  <2>1. /\ ajob.step = "items" /\ ajob # A!Idle /\ t \in ajob.todo /\ aruns' = aruns
        /\ aroot' = aroot /\ asince' = asince
        /\ ajob'.step = "backup" /\ ajob'.item = t /\ (ajob'.had <=> aroot[t] # Absent)
        /\ ajob'.id = ajob.id /\ ajob'.todo = ajob.todo
    BY <1>0, <1>3, ApplyJobMoves, ApplyOneGoesOn DEF A!CopyToTemp
  <2>2. k = ajob.id /\ aruns[k].status = "running"
    BY <1>s, <1>w, <2>1
  <2>3. ~ A!Replaced(k, t)
    BY <1>0, <2>1, <2>2 DEF A!HeldAsBefore
  <2>4. s = t /\ s \notin asince'[k] => aroot[s] = aruns[k].before[s]
    BY <1>0, <1>m, <2>1, <2>2, <2>3 DEF A!OthersAsBefore
  <2>5. A!Replaced(k, s)' <=> A!Replaced(k, s)
    BY <2>1 DEF A!Replaced
  <2> QED
    BY <1>u, <2>1, <2>2, <2>4, <2>5 DEF Going, Went, A!InHand
<1>4. ASSUME A!BackUp PROVE Going
  <2>1. /\ ajob.step = "backup" /\ ajob # A!Idle /\ ajob.item \in ajob.todo
        /\ aroot' = aroot /\ asince' = asince
        /\ ajob'.step = "remove" /\ ajob'.item = ajob.item /\ ajob'.had = ajob.had
        /\ ajob'.id = ajob.id /\ ajob'.todo = ajob.todo
    BY <1>0, <1>4, ApplyJobMoves, ApplyOneGoesOn DEF A!BackUp, A!JobIsSound
  <2>2. k = ajob.id /\ aruns[k].status = "running" /\ ajob.item \in Skills
    BY <1>0, <1>s, <1>w, <2>1, ApplyAt
  <2>3. /\ aruns'[k].before = aruns[k].before
        /\ aruns'[k].applied = aruns[k].applied
        /\ ajob.had => aruns'[k].backup[ajob.item] = A!Copied(aroot[ajob.item])
    BY <1>0, <1>4, <2>2, ApplyRunMoves
  <2>4. ~ A!Replaced(k, ajob.item)
    BY <1>0, <2>1, <2>2 DEF A!HeldAsBefore
  <2>5. s = ajob.item /\ s \notin asince'[k] => aroot[s] = aruns[k].before[s]
    BY <1>0, <1>m, <2>1, <2>2, <2>4 DEF A!OthersAsBefore
  <2>6. A!Replaced(k, s)' <=> A!Replaced(k, s)
    BY <2>3 DEF A!Replaced
  <2> QED
    BY <1>u, <2>1, <2>2, <2>3, <2>5, <2>6 DEF Going, Went, A!InHand
<1>5. ASSUME A!Remove PROVE Going
  <2>1. /\ ajob.step = "remove" /\ ajob # A!Idle /\ ajob.item \in Skills /\ aruns' = aruns
        /\ ajob'.step = "rename" /\ ajob'.item = ajob.item /\ ajob'.had = ajob.had
        /\ ajob'.id = ajob.id /\ ajob'.todo = ajob.todo
    BY <1>0, <1>5, ApplyJobMoves, ApplyOneGoesOn, ApplyAt DEF A!Remove
  <2>2. aroot'[ajob.item] = Absent
    BY <1>0, <1>5, <2>1, ApplyPuts, ApplyStart DEF A!Remove, A!Becomes
  <2> QED
    BY <1>s, <1>u, <2>1, <2>2 DEF Going, Went, A!InHand, A!Replaced
<1>6. ASSUME A!Rename PROVE Going
  <2>1. /\ ajob.step = "rename" /\ ajob # A!Idle
        /\ ajob'.step = "items" /\ ajob'.id = ajob.id /\ ajob'.todo = ajob.todo \ {ajob.item}
    BY <1>0, <1>6, ApplyJobMoves, ApplyOneGoesOn DEF A!Rename
  <2>2. A!Replaced(k, s)' => A!Replaced(k, s) \/ s = ajob.item
    BY <1>6, <1>s, <2>1, ApplyReplaced
  <2> QED
    BY <1>s, <1>u, <2>1, <2>2 DEF Going, Went, A!InHand
<1>7. ASSUME NEW t \in Skills, NEW e \in RootEdits, A!Edit(t, e) PROVE Going
  <2>1. /\ ajob # A!Idle /\ aruns' = aruns
        /\ ajob'.step = ajob.step /\ ajob'.item = ajob.item /\ ajob'.had = ajob.had
        /\ ajob'.id = ajob.id /\ ajob'.todo = ajob.todo
    BY <1>0, <1>7, <1>s, ApplyJobMoves DEF A!Edit
  <2>2. s \notin asince'[k] => aroot'[s] = aroot[s]
    BY <1>7, ApplyRootMoves
  <2> QED
    BY <1>s, <1>u, <2>1, <2>2 DEF Going, Went, A!InHand, A!Replaced
<1>8. ASSUME A!UndoRemove \/ A!UndoCopy \/ A!UndoStops \/ \E r \in A!RunIds : A!Rollback(r)
      PROVE  FALSE
  <2>1. ajob' = ajob /\ (aundo.step # "idle" \/ ajob = A!Idle)
    BY <1>8 DEF A!UndoRemove, A!UndoCopy, A!UndoStops, A!Rollback
  <2> QED
    BY <1>s, <2>1, ApplyOneGoesOn
<1> QED
  <2>1. Going
    BY <1>s, <1>1, <1>2, <1>3, <1>4, <1>5, <1>6, <1>7, <1>8
    DEF A!Next, A!Fail, A!Complete, A!Crash
  <2> QED
    BY <2>1 DEF Going

LEMMA ApplyRestoredNext == A!ApplyInv /\ [A!Next]_avars => A!RestoredSoFar'
<1> SUFFICES ASSUME A!ApplyInv, [A!Next]_avars PROVE A!RestoredSoFar'
  OBVIOUS
<1>0. /\ A!ApplyTypeOK /\ A!OneAtATime /\ A!JobIsSound /\ A!UndoIsSound
      /\ A!Remembered /\ A!RestoredSoFar
  BY DEF A!ApplyInv, A!OneAtATime
<1>t. aundo \in A!Undo /\ aruns \in [A!RunIds -> A!Run]
  BY <1>0 DEF A!ApplyTypeOK
<1> DEFINE last == aundo.left[Len(aundo.left)].skill
           last1 == aundo'.left[Len(aundo'.left)].skill
           Back(s) == /\ aundo'.step = "copy" /\ s = last1 => aroot'[s] = Absent
                      /\ ~ (aundo'.step = "copy" /\ s = last1) =>
                            \A i \in 1..Len(aruns'[aundo'.id].applied) :
                               i > Len(aundo'.left) /\ aruns'[aundo'.id].applied[i].skill = s =>
                                  A!Copied(aroot'[s]) = A!Copied(aruns'[aundo'.id].before[s])
           Was(s) == /\ aundo.step = "copy" /\ s = last => aroot[s] = Absent
                     /\ ~ (aundo.step = "copy" /\ s = last) =>
                           \A i \in 1..Len(aruns[aundo.id].applied) :
                              i > Len(aundo.left) /\ aruns[aundo.id].applied[i].skill = s =>
                                 A!Copied(aroot[s]) = A!Copied(aruns[aundo.id].before[s])
<1>s. SUFFICES ASSUME NEW s \in Skills, aundo' # A!NoUndo, s \notin asince'[aundo'.id]
               PROVE  Back(s)
  BY DEF A!RestoredSoFar, A!Last
<1>1. ASSUME NEW k \in A!RunIds, A!Rollback(k) PROVE Back(s)
  <2>1. /\ aundo'.step = "remove" /\ aundo'.id = k /\ aundo'.left = aruns[k].applied
        /\ aruns' = aruns
    BY <1>1 DEF A!Rollback
  <2>2. Len(aruns[k].applied) \in Nat
    BY <1>t DEF A!Run
  <2>3. \A i \in 1..Len(aruns[k].applied) : ~ (i > Len(aruns[k].applied))
    BY <2>2
  <2> QED
    BY <2>1, <2>3
<1>u. aundo # A!NoUndo /\ aundo'.id = aundo.id =>
         /\ aundo.id \in A!RunIds /\ s \notin asince[aundo.id]
         /\ Was(s)
  <2>1. SUFFICES ASSUME aundo # A!NoUndo, aundo'.id = aundo.id
                 PROVE  /\ aundo.id \in A!RunIds /\ s \notin asince[aundo.id]
                        /\ Was(s)
    OBVIOUS
  <2>2. aundo.id \in A!RunIds
    BY <1>0, <2>1 DEF A!UndoIsSound
  <2>3. s \notin asince[aundo.id]
    BY <1>s, <2>1, <2>2, ApplyRootMoves
  <2> QED
    BY <1>0, <2>1, <2>2, <2>3 DEF A!RestoredSoFar, A!Last
<1> HIDE DEF Back, Was
<1>2. ASSUME UNCHANGED <<aundo, aruns>>, aroot'[s] = aroot[s] PROVE Back(s)
  BY <1>s, <1>u, <1>2 DEF Back, Was
<1>3. ASSUME A!UndoRemove PROVE Back(s)
  <2>1. /\ aundo.step = "remove" /\ aundo'.step = "copy" /\ aundo'.id = aundo.id
        /\ aundo'.left = aundo.left /\ aruns' = aruns /\ aundo # A!NoUndo
    BY <1>3, <1>t, ApplyOneGoesOn DEF A!UndoRemove, A!Undo
  <2>2. last \in Skills /\ aroot' = A!Put(last, Absent)
    BY <1>0, <1>3, <2>1, ApplyAt DEF A!UndoRemove, A!Becomes, A!Last, A!Applied
  <2>3. aroot'[last] = Absent /\ (s # last => aroot'[s] = aroot[s])
    BY <1>0, <2>2, ApplyPuts, ApplyStart
  <2> QED
    BY <1>u, <2>1, <2>3 DEF Back, Was
<1>4. ASSUME A!UndoCopy PROVE Back(s)
  <2>1. /\ aundo.step = "copy" /\ aundo'.step = "remove" /\ aundo'.id = aundo.id
        /\ aundo'.left = SubSeq(aundo.left, 1, Len(aundo.left) - 1)
        /\ aruns' = aruns /\ aundo # A!NoUndo
    BY <1>4, <1>s, <1>t, ApplyOneGoesOn DEF A!UndoCopy, A!Undo
  <2>2. /\ A!Last \in A!Applied /\ A!Last.skill = last
        /\ Len(aundo.left) \in 1..Len(aruns[aundo.id].applied)
        /\ A!Last = aruns[aundo.id].applied[Len(aundo.left)]
    BY <1>0, <2>1, ApplyAt DEF A!Last, A!UndoIsSound
  <2>3. Len(aundo'.left) = Len(aundo.left) - 1
    <3>1. aundo.left \in Seq(A!Applied)
      BY <1>t DEF A!Undo
    <3>2. Len(aundo.left) \in Nat \ {0}
      BY <1>0, <2>1, ApplyAt
    <3> QED
      BY <2>1, <3>1, <3>2
  <2>4. last \in Skills /\ A!Restored \in A!Entry
    <3>1. last \in Skills
      BY <2>2 DEF A!Applied
    <3>2. aruns[aundo.id].backup[last] \in A!Directory
      BY <1>u, <1>t, <2>1, <3>1 DEF A!Run
    <3> QED
      BY <2>2, <3>1, <3>2, ApplyCopies, ApplyStart DEF A!Restored
  <2>5. aroot'[last] = A!Restored /\ (s # last => aroot'[s] = aroot[s])
    <3>1. aroot' = A!Put(last, A!Restored)
      BY <1>4, <2>2 DEF A!UndoCopy, A!Becomes
    <3> QED
      BY <1>0, <2>4, <3>1, ApplyPuts
  <2>6. s = last => A!Copied(aroot'[s]) = A!Copied(aruns[aundo.id].before[s])
    <3>1. SUFFICES ASSUME s = last
                   PROVE  A!Copied(A!Restored) = A!Copied(aruns[aundo.id].before[s])
      BY <2>5
    <3>2. /\ A!Last.had <=> aruns[aundo.id].before[s] # Absent
          /\ A!Last.had => aruns[aundo.id].backup[s] = A!Copied(aruns[aundo.id].before[s])
      BY <1>0, <1>u, <2>1, <2>2, <3>1 DEF A!Remembered
    <3>3. aruns[aundo.id].before[s] \in A!Entry
      BY <1>u, <1>t, <2>1 DEF A!Run
    <3>4. CASE A!Last.had
      BY <2>2, <3>1, <3>2, <3>3, <3>4, ApplyCopies DEF A!Restored
    <3>5. CASE ~ A!Last.had
      BY <3>2, <3>5 DEF A!Restored
    <3> QED
      BY <3>4, <3>5
  <2>7. ASSUME s # last, NEW i \in 1..Len(aruns[aundo.id].applied), i > Len(aundo'.left),
               aruns[aundo.id].applied[i].skill = s
        PROVE  i > Len(aundo.left)
    <3>1. i # Len(aundo.left)
      BY <2>2, <2>7
    <3>2. Len(aundo.left) \in Nat /\ i \in Nat
      BY <1>0, <2>1, ApplyAt
    <3> QED
      BY <2>3, <2>7, <3>1, <3>2
  <2> QED
    BY <1>u, <2>1, <2>5, <2>6, <2>7 DEF Back, Was
<1>5. ASSUME NEW t \in Skills, NEW e \in RootEdits, A!Edit(t, e) PROVE Back(s)
  <2>1. aundo' = aundo /\ aruns' = aruns
    BY <1>5 DEF A!Edit
  <2>2. aundo'.id \in A!RunIds
    BY <1>s, <1>u, <2>1
  <2> QED
    BY <1>2, <1>5, <1>s, <2>1, <2>2, ApplyRootMoves
<1>6. ASSUME ajob.step # "idle", aundo' = aundo PROVE FALSE
  BY <1>6, <1>s, ApplyOneGoesOn
<1> QED
  BY <1>s, <1>1, <1>2, <1>3, <1>4, <1>5, <1>6
  DEF A!Next, avars, A!Apply, A!CopyToTemp, A!BackUp, A!Remove, A!Rename, A!Fail, A!Complete,
      A!UndoStops, A!Crash


LEMMA ApplyInvInit == A!Init => A!ApplyInv
<1> SUFFICES ASSUME A!Init PROVE A!ApplyInv
  OBVIOUS
<1>1. A!ApplyTypeOK
  BY ApplyTypeInit
<1>2. ajob = A!Idle /\ aundo = A!NoUndo /\ aruns = [id \in A!RunIds |-> A!Unused]
  BY DEF A!Init
<1>3. /\ A!Idle.step = "idle" /\ A!Idle.todo = {} /\ A!Idle.id = 0
      /\ A!Unused.status = "none" /\ A!Unused.applied = <<>> /\ A!NoUndo.step = "idle"
  BY DEF A!Idle, A!Unused, A!NoUndo
<1>4. 0 \notin A!RunIds
  BY LocalBoundAssumption DEF A!RunIds
<1>5. A!OneAtATime
  BY <1>2, <1>3, <1>4 DEF A!OneAtATime, A!JobIsSound, A!RunsAreSound, A!UndoIsSound
<1>6. A!InPlace /\ A!OthersAsBefore /\ A!HeldAsBefore /\ A!RestoredSoFar
  BY <1>2, <1>3 DEF A!InPlace, A!InHand, A!OthersAsBefore, A!HeldAsBefore, A!RestoredSoFar
<1>7. A!Remembered
  BY <1>2, <1>3 DEF A!Remembered
<1> QED
  BY <1>1, <1>5, <1>6, <1>7 DEF A!ApplyInv

LEMMA ApplyInvNext == A!ApplyInv /\ [A!Next]_avars => A!ApplyInv'
BY ApplyTypeNext, ApplySoundNext, ApplyInPlaceNext, ApplyRememberedNext, ApplyOthersNext,
   ApplyHeldNext, ApplyRestoredNext
DEF A!ApplyInv

\* However runs, rollbacks, failures, deaths and edits follow each other: one
\* at a time is under way, a record tells what the run found, and what was not
\* replaced is as it was (apply.py).
THEOREM ApplyInvariance == A!Spec => []A!ApplyInv
<1>1. A!Init => A!ApplyInv
  BY ApplyInvInit
<1>2. A!ApplyInv /\ [A!Next]_A!vars => A!ApplyInv'
  BY ApplyInvNext DEF avars, A!vars
<1> QED
  BY <1>1, <1>2, PTL DEF A!Spec

LEMMA ApplyReplacedIsBackedUp ==
    ASSUME A!ApplyInv, [A!Next]_A!vars, NEW s \in Skills,
           ajob.id # 0, aroot[s] # Absent, aroot'[s] # aroot[s],
           acounts'.edits = acounts.edits, s \notin ajob.touched
    PROVE  A!Current.backup[s] = A!Copied(aroot[s])
<1>0. A!ApplyTypeOK /\ A!OneAtATime /\ A!InPlace
  BY DEF A!ApplyInv
<1>1. ajob # A!Idle /\ aundo = A!NoUndo
  BY ApplyOneGoesOn
<1>2. ~ A!UndoRemove /\ ~ A!UndoCopy /\ ~ UNCHANGED aroot
  BY <1>1, ApplyOneGoesOn DEF A!UndoRemove, A!UndoCopy
<1>3. ASSUME NEW t \in Skills, NEW e \in RootEdits, A!Edit(t, e) PROVE FALSE
  BY <1>0, <1>3, LocalBoundAssumption DEF A!Edit, A!ApplyTypeOK, A!Counts
<1>4. CASE A!Remove
  <2>1. aroot' = A!Put(ajob.item, Absent) /\ ajob.step = "remove" /\ ajob.item \in Skills
    BY <1>0, <1>4, ApplyAt DEF A!Remove, A!Becomes
  <2>2. s = ajob.item
    BY <1>0, <2>1, ApplyPuts, ApplyStart
  <2>3. A!InHand(s)
    BY <2>1, <2>2 DEF A!InHand
  <2> QED
    BY <1>0, <2>1, <2>3 DEF A!InPlace
<1>5. CASE A!Rename
  <2>1. /\ aroot' = A!Put(ajob.item, A!Dir(Staged[ajob.item])) /\ aroot[ajob.item] = Absent
        /\ ajob.item \in Skills
    BY <1>0, <1>5, ApplyAt DEF A!Rename, A!Becomes
  <2> QED
    BY <1>0, <2>1 DEF A!Put, A!ApplyTypeOK
<1>7. ASSUME NEW left \in A!HalfReplaced, aroot' = left
      PROVE  A!Current.backup[s] = A!Copied(aroot[s])
  <2>1. aroot' = A!Put(ajob.item, A!Part) /\ ajob.item \in Skills
    BY <1>0, <1>7, ApplyBreaks
  <2>2. s = ajob.item
    BY <1>0, <2>1 DEF A!Put, A!ApplyTypeOK
  <2>3. ajob.step = "remove"
    BY <1>0, <1>7, <2>2, ApplyBreaks
  <2>4. A!InHand(s)
    BY <2>2, <2>3 DEF A!InHand
  <2> QED
    BY <1>0, <2>3, <2>4 DEF A!InPlace
<1>6. CASE A!Fail
  <2>1. PICK left \in {A!PutBack} \cup A!HalfReplaced : aroot' = left
    BY <1>6 DEF A!Fail, A!Becomes
  <2>2. CASE left = A!PutBack
    <3>1. aroot' = aroot \/ (aroot[ajob.item] = Absent
                              /\ aroot' = A!Put(ajob.item, A!Current.backup[ajob.item]))
      BY <2>1, <2>2 DEF A!PutBack
    <3> QED
      BY <1>0, <3>1 DEF A!Put, A!ApplyTypeOK
  <2> QED
    BY <2>1, <2>2, <1>7
<1>8. CASE A!Crash
  <2>1. PICK left \in {aroot} \cup A!HalfReplaced : aroot' = left
    BY <1>1, <1>8 DEF A!Crash, A!Becomes
  <2> QED
    BY <2>1, <1>7
<1> QED
  BY <1>2, <1>3, <1>4, <1>5, <1>6, <1>8
  DEF A!Next, A!vars, A!Apply, A!CopyToTemp, A!BackUp, A!Complete, A!Rollback, A!UndoStops

LEMMA ApplyFailedPutsBack ==
    ASSUME A!ApplyInv, [A!Next]_A!vars, NEW id \in A!RunIds, NEW s \in Skills,
           aruns[id].status = "running", aruns'[id].status = "failed", s \notin asince[id],
           ~ A!Replaced(id, s)
    PROVE  A!AsBefore(id, s, aroot'[s]) \/ A!OnlyInBackup(id, s, aroot'[s])
<1>0. A!ApplyTypeOK /\ A!OneAtATime /\ A!RunsAreSound
  BY DEF A!ApplyInv, A!OneAtATime
<1>3. ajob.id = id
  BY <1>0 DEF A!RunsAreSound
<1>4. A!Fail
  <2>1. aruns' # aruns /\ ajob # A!Idle
    BY <1>3, ApplyOneGoesOn
  <2>2. ~ A!BackUp /\ ~ A!Rename /\ ~ A!Complete /\ ~ A!Crash
    BY <1>0, <1>3, <2>1, ApplyRunMoves
  <2>3. ASSUME NEW target \in A!Targets, NEW ids \in SUBSET Skills, A!Apply(target, ids)
        PROVE  FALSE
    BY <2>1, <2>3 DEF A!Apply
  <2> QED
    BY <2>1, <2>2, <2>3
    DEF A!Next, A!vars, A!CopyToTemp, A!Edit, A!Remove, A!Rollback, A!UndoRemove, A!UndoCopy,
        A!UndoStops
<1>5. /\ aruns'[id].applied = aruns[id].applied /\ aruns'[id].before = aruns[id].before
      /\ aruns'[id].backup = aruns[id].backup
  BY <1>0, <1>4, ApplyRunMoves
<1>6. asince'[id] = asince[id]
  BY <1>0, <1>3, <1>4 DEF A!Fail, A!Becomes, A!ApplyTypeOK
<1>7. A!OthersAsBefore'
  BY ApplyOthersNext DEF A!vars, avars
<1> QED
  BY <1>5, <1>6, <1>7 DEF A!OthersAsBefore, A!Replaced, A!AsBefore, A!OnlyInBackup

LEMMA ApplyRollbackRestores ==
    ASSUME A!ApplyInv, [A!Next]_A!vars, Len(aundo.left) = 1, aundo' = A!NoUndo,
           acounts' = acounts, NEW s \in Skills, s \notin asince'[aundo.id]
    PROVE  \/ A!AsBefore(aundo.id, s, aroot'[s])
           \/ ~ A!Replaced(aundo.id, s) /\ A!OnlyInBackup(aundo.id, s, aroot'[s])
<1>0. /\ A!ApplyTypeOK /\ A!OneAtATime /\ A!UndoIsSound /\ A!Remembered
      /\ A!OthersAsBefore /\ A!RestoredSoFar
  BY DEF A!ApplyInv, A!OneAtATime
<1>t. aruns \in [A!RunIds -> A!Run] /\ acounts \in A!Counts
  BY <1>0 DEF A!ApplyTypeOK
<1>1. aundo # A!NoUndo
  <2>1. A!NoUndo.left = <<>>
    BY DEF A!NoUndo
  <2> QED
    BY <2>1
<1>2. PICK k \in A!RunIds : k = aundo.id
  BY <1>0, <1>1 DEF A!UndoIsSound
<1>3. s \notin asince[k]
  BY <1>2, ApplyRootMoves DEF A!vars, avars
<1>4. /\ aundo.step # "idle" /\ ajob = A!Idle
      /\ aruns[k].status \in {"complete", "failed"}
      /\ A!Last = aruns[k].applied[1] /\ A!Last.skill \in Skills
  BY <1>0, <1>1, <1>2, ApplyOneGoesOn, ApplyAt DEF A!UndoIsSound, A!Applied
<1>5. aruns[k].before[s] \in A!Entry /\ aruns[k].backup[s] \in A!Directory
      /\ aruns[k].applied \in Seq(A!Applied)
  BY <1>t DEF A!Run
<1>6. s # A!Last.skill =>
         \/ A!AsBefore(k, s, aroot[s])
         \/ ~ A!Replaced(k, s) /\ A!OnlyInBackup(k, s, aroot[s])
  <2>1. SUFFICES ASSUME s # A!Last.skill
                 PROVE  \/ A!AsBefore(k, s, aroot[s])
                        \/ ~ A!Replaced(k, s) /\ A!OnlyInBackup(k, s, aroot[s])
    OBVIOUS
  <2>2. CASE A!Replaced(k, s)
    <3>1. PICK i \in 1..Len(aruns[k].applied) : aruns[k].applied[i].skill = s
      BY <2>2 DEF A!Replaced
    <3>2. Len(aruns[k].applied) \in Nat
      BY <1>5
    <3>3. i # 1
      BY <1>4, <2>1, <3>1
    <3>4. i > Len(aundo.left)
      BY <3>2, <3>3
    <3> QED
      BY <1>0, <1>1, <1>2, <1>3, <2>1, <3>1, <3>4 DEF A!RestoredSoFar, A!AsBefore
  <2>3. CASE ~ A!Replaced(k, s)
    BY <1>0, <1>3, <1>4, <2>3 DEF A!OthersAsBefore
  <2> QED
    BY <2>2, <2>3
<1>7. CASE A!UndoCopy
  <2>1. /\ aroot' = A!Put(A!Last.skill, A!Restored)
    BY <1>7 DEF A!UndoCopy, A!Becomes
  <2>2. CASE s # A!Last.skill
    <3>1. aroot'[s] = aroot[s]
      BY <1>0, <2>1, <2>2 DEF A!Put, A!ApplyTypeOK
    <3> QED
      BY <1>2, <1>6, <2>2, <3>1
  <2>3. CASE s = A!Last.skill
    <3>1. aroot'[s] = A!Restored
      BY <1>0, <2>1, <2>3 DEF A!Put, A!ApplyTypeOK
    <3>2. 1 \in 1..Len(aruns[k].applied)
      <4>1. Len(aundo.left) \in 1..Len(aruns[k].applied)
        BY <1>0, <1>1, <1>2 DEF A!UndoIsSound
      <4> QED
        BY <4>1
    <3>3. /\ A!Last.had <=> aruns[k].before[s] # Absent
          /\ A!Last.had => aruns[k].backup[s] = A!Copied(aruns[k].before[s])
      BY <1>0, <1>3, <1>4, <2>3, <3>2 DEF A!Remembered
    <3>4. CASE A!Last.had
      BY <1>2, <1>5, <2>3, <3>1, <3>3, <3>4, ApplyCopies DEF A!Restored, A!AsBefore
    <3>5. CASE ~ A!Last.had
      BY <1>2, <3>1, <3>3, <3>5 DEF A!Restored, A!AsBefore
    <3> QED
      BY <3>4, <3>5
  <2> QED
    BY <2>2, <2>3
<1>8. CASE A!UndoStops
  <2>1. aroot' = aroot /\ aundo.step = "copy" /\ aroot[A!Last.skill] # Absent
    BY <1>8 DEF A!UndoStops
  <2>2. s # A!Last.skill
    BY <1>0, <1>1, <1>2, <1>3, <2>1 DEF A!RestoredSoFar
  <2> QED
    BY <1>2, <1>6, <2>1, <2>2
<1>9. ASSUME NEW t \in Skills, NEW e \in RootEdits, A!Edit(t, e) PROVE FALSE
  BY <1>1, <1>9 DEF A!Edit
<1>10. ~ A!Crash
  BY <1>t, LocalBoundAssumption DEF A!Crash, A!Counts
<1>11. ~ A!UndoRemove
  <2>1. A!NoUndo.step = "idle"
    BY DEF A!NoUndo
  <2>2. A!UndoRemove => aundo'.step = "copy"
    BY <1>0 DEF A!UndoRemove, A!ApplyTypeOK, A!Undo
  <2> QED
    BY <2>1, <2>2
<1> QED
  BY <1>1, <1>7, <1>8, <1>9, <1>10, <1>11
  DEF A!Next, A!vars, A!Apply, A!CopyToTemp, A!BackUp, A!Remove, A!Rename, A!Fail, A!Complete,
      A!Rollback

\* Whatever a run meets - a copy that fails, a removal that breaks off half-way,
\* a rename onto something that came back, its own death, edits by users and
\* fan-out - the content it removes is in its backups, a failure puts back what
\* it does not record or leaves it in its backup, a rollback restores the skills
\* of its record nobody else changed, and the links of fan-out stay
\* (apply.py:279-398).
THEOREM ApplyKeepsContentEver == LocalSpec => ApplyKeepsContent
<1>1. A!ApplyInv /\ [A!Next]_A!vars =>
         [\A s \in Skills :
            ajob.id # 0 /\ aroot[s] # Absent /\ aroot'[s] # aroot[s]
            /\ acounts'.edits = acounts.edits /\ s \notin ajob.touched
               => A!Current.backup[s] = A!Copied(aroot[s])]_A!vars
  BY ApplyReplacedIsBackedUp
<1>2. A!ApplyInv /\ [A!Next]_A!vars =>
         [\A id \in A!RunIds, s \in Skills :
            aruns[id].status = "running" /\ aruns'[id].status = "failed"
            /\ s \notin asince[id] /\ ~ A!Replaced(id, s)
               => A!AsBefore(id, s, aroot'[s]) \/ A!OnlyInBackup(id, s, aroot'[s])]_A!vars
  BY ApplyFailedPutsBack
<1>3. A!ApplyInv /\ [A!Next]_A!vars =>
         [Len(aundo.left) = 1 /\ aundo' = A!NoUndo /\ acounts' = acounts =>
            \A s \in Skills \ asince'[aundo.id] :
               \/ A!AsBefore(aundo.id, s, aroot'[s])
               \/ ~ A!Replaced(aundo.id, s)
                  /\ A!OnlyInBackup(aundo.id, s, aroot'[s])]_A!vars
  BY ApplyRollbackRestores
<1>4. A!ApplyInv /\ [A!Next]_A!vars =>
         [ajob.step = "remove" /\ ajob.target = "tool"
          /\ aroot[ajob.item] # Absent /\ aroot[ajob.item].kind = "canonical"
             => ajob.item \in ajob.moved]_A!vars
  <2>1. A!ApplyInv => (ajob.step = "remove" => ajob.item \in ajob.todo /\ ajob.item \in Skills)
    BY ApplyAt DEF A!ApplyInv, A!OneAtATime, A!JobIsSound
  <2> QED
    BY <2>1 DEF A!ApplyInv, A!InPlace, A!LinkedToCanonical
<1> QED
  BY <1>1, <1>2, <1>3, <1>4, ApplyInvariance, PTL
  DEF LocalSpec, ApplyKeepsContent, A!Spec, A!ReplacedIsBackedUp, A!FailedPutsBack,
      A!RollbackRestores, A!CanonicalLinksStay


-----------------------------------------------------------------------------
(* local_skill.py, and the removals of operator_executor.py *)

\* The parts of the type invariant.
LEMMA InstallTyped ==
    I!InstallTypeOK <=>
       /\ ientry \in [Tools -> I!Entry \cup {I!NoRoot}] /\ isource \in I!Source
       /\ ibackups \in [Tools -> SUBSET (I!Entry \ {Absent})]
       /\ ijob \in I!Job /\ icounts \in I!Counts
       /\ irecords \subseteq SUBSET Tools /\ imoved \subseteq Tools \cup {"source"}
BY DEF I!InstallTypeOK

LEMMA InstallStart ==
    /\ I!Idle \in I!Job /\ Absent \in I!Entry /\ I!NoRoot \notin I!Entry
    /\ I!Idle.step = "idle" /\ I!Idle.todo = {} /\ I!Idle.done = {}
    /\ \A t \in Tools : I!Idle.action[t] = "noop"
<1>1. I!NoRoot \notin I!Entry
  BY InstallAssumption DEF I!NoRoot, I!Entry, I!Kinds
<1>2. [t \in Tools |-> "noop"] \in [Tools -> I!ActionNames]
  BY DEF I!ActionNames
<1>3. [t \in Tools |-> Absent] \in [Tools -> I!Entry \cup {I!NoRoot}]
  BY DEF I!Entry
<1>4. I!Idle \in I!Job
  BY <1>2, <1>3 DEF I!Idle, I!Job, I!Entry
<1> QED
  BY <1>1, <1>4 DEF I!Idle, I!Entry

\* What is there is read as a record, a copy of it as a directory.
LEMMA InstallEntries ==
    ASSUME NEW e \in I!Entry, e # Absent
    PROVE  /\ e \in [kind: I!Kinds, body: Versions, manifest: BOOLEAN, secret: BOOLEAN]
           /\ e.body \in Versions /\ e.manifest \in BOOLEAN /\ e.secret \in BOOLEAN
           /\ I!Directory(e) \in I!Entry \ {Absent}
           /\ [e EXCEPT !.manifest = TRUE] \in I!Entry \ {Absent}
           /\ [e EXCEPT !.manifest = TRUE].body = e.body
           /\ [e EXCEPT !.manifest = TRUE].secret = e.secret
           /\ [e EXCEPT !.manifest = TRUE].manifest
<1>1. e \in [kind: I!Kinds, body: Versions, manifest: BOOLEAN, secret: BOOLEAN]
  BY DEF I!Entry
<1>2. [e EXCEPT !.kind = "dir"] \in [kind: I!Kinds, body: Versions, manifest: BOOLEAN,
                                     secret: BOOLEAN]
  BY <1>1 DEF I!Kinds
<1>3. [e EXCEPT !.manifest = TRUE] \in [kind: I!Kinds, body: Versions, manifest: BOOLEAN,
                                        secret: BOOLEAN]
  BY <1>1
<1> QED
  BY <1>1, <1>2, <1>3, InstallAssumption DEF I!Directory, I!Entry

LEMMA InstallPacked ==
    ASSUME isource \in I!Source
    PROVE  /\ I!Packed \in I!Entry \ {Absent}
           /\ I!Packed.body = isource.body /\ I!Packed.manifest
           /\ I!Packed.secret = isource.secret
<1>1. I!Packed \in [kind: I!Kinds, body: Versions, manifest: BOOLEAN, secret: BOOLEAN]
  BY DEF I!Packed, I!SkillOf, I!Source, I!Kinds
<1> QED
  BY <1>1, InstallAssumption DEF I!Entry, I!Packed, I!SkillOf

\* A root that is the source changes the source with it.
LEMMA InstallPuts ==
    ASSUME I!InstallTypeOK, I!Tied, NEW t \in Tools, NEW e \in I!Entry, I!Put(t, e)
    PROVE  /\ ientry' \in [Tools -> I!Entry \cup {I!NoRoot}]
           /\ ientry'[t] = e
           /\ \A u \in Tools \ {t} : ientry'[u] = ientry[u]
           /\ isource' \in I!Source /\ isource'.at = isource.at
           /\ I!IsSource(t) /\ e # Absent =>
                 /\ isource'.body = e.body /\ isource'.manifest = e.manifest
                 /\ isource'.secret = e.secret
           /\ ~ I!IsSource(t) \/ e = Absent => isource' = isource
           /\ I!Tied'
<1>0. ientry \in [Tools -> I!Entry \cup {I!NoRoot}] /\ isource \in I!Source
  BY InstallTyped
<1>1. /\ ientry' \in [Tools -> I!Entry \cup {I!NoRoot}]
      /\ ientry'[t] = e
      /\ \A u \in Tools \ {t} : ientry'[u] = ientry[u]
  BY <1>0 DEF I!Put
<1>2. isource' \in I!Source /\ isource'.at = isource.at
  <2>1. CASE I!IsSource(t) /\ e # Absent
    <3>1. isource' = [isource EXCEPT !.body = e.body, !.manifest = e.manifest,
                                     !.secret = e.secret]
      BY <2>1 DEF I!Put
    <3> QED
      BY <1>0, <2>1, <3>1, InstallEntries DEF I!Source
  <2>2. CASE ~ (I!IsSource(t) /\ e # Absent)
    BY <1>0, <2>2 DEF I!Put
  <2> QED
    BY <2>1, <2>2
<1>3. I!IsSource(t) /\ e # Absent =>
         /\ isource'.body = e.body /\ isource'.manifest = e.manifest
         /\ isource'.secret = e.secret
  BY <1>0 DEF I!Put, I!Source
<1>4. ~ I!IsSource(t) \/ e = Absent => isource' = isource
  BY DEF I!Put
<1>5. I!Tied'
  <2>1. SUFFICES ASSUME isource'.at \in Tools, ientry'[isource'.at] # Absent
                 PROVE  I!Directory(ientry'[isource'.at]) = I!SkillOf(isource')
    BY DEF I!Tied, I!Directory, I!SkillOf
  <2>2. CASE isource.at = t
    <3>1. e # Absent /\ ientry'[isource'.at] = e /\ I!IsSource(t)
      BY <1>1, <1>2, <2>1, <2>2 DEF I!IsSource
    <3>2. e \in [kind: I!Kinds, body: Versions, manifest: BOOLEAN, secret: BOOLEAN]
      BY <3>1, InstallEntries
    <3>3. [e EXCEPT !.kind = "dir"] = [kind |-> "dir", body |-> e.body,
                                       manifest |-> e.manifest, secret |-> e.secret]
      BY <3>2
    <3> QED
      BY <1>3, <3>1, <3>3 DEF I!Directory, I!SkillOf
  <2>3. CASE isource.at # t
    BY <1>1, <1>2, <1>4, <2>1, <2>3 DEF I!Tied, I!IsSource
  <2> QED
    BY <2>2, <2>3
<1> QED
  BY <1>1, <1>2, <1>3, <1>4, <1>5

\* What the steps do to the installation under way.
LEMMA InstallJobMoves ==
    ASSUME I!InstallTypeOK
    PROVE  /\ \A selected \in SUBSET Tools : I!Install(selected) =>
                 /\ ijob'.step = "targets" /\ ijob'.done = {}
                 /\ ijob'.todo = {t \in selected : I!Allowed(t)} /\ ijob'.was = ientry
                 /\ \A t \in Tools :
                       /\ ijob'.action[t] = IF t \in selected THEN I!TargetAction(t) ELSE "noop"
           /\ \A t \in Tools : I!WriteManifest(t) =>
                 /\ ijob'.step = "targets" /\ ijob.step = "targets"
                 /\ ijob'.todo = ijob.todo \ {t} /\ ijob'.done = ijob.done \cup {t}
                 /\ ijob'.action = ijob.action /\ ijob'.was = ijob.was
           /\ \A t \in Tools : I!CopyToTemp(t) =>
                 /\ ijob'.step = "backup" /\ ijob.step = "targets" /\ ijob'.at = t
                 /\ ijob'.temp = I!Packed
                 /\ ijob'.todo = ijob.todo /\ ijob'.done = ijob.done
                 /\ ijob'.action = ijob.action /\ ijob'.was = ijob.was
           /\ I!BackUp \/ I!Remove =>
                 /\ I!BackUp => ijob.step = "backup" /\ ijob'.step = IF ijob.had THEN "remove" ELSE "replace"
                 /\ I!Remove => ijob.step = "remove" /\ ijob'.step = "replace"
                 /\ ijob'.at = ijob.at /\ ijob'.temp = ijob.temp
                 /\ ijob'.todo = ijob.todo /\ ijob'.done = ijob.done
                 /\ ijob'.action = ijob.action /\ ijob'.was = ijob.was
           /\ I!Replace =>
                 /\ ijob.step = "replace" /\ ijob'.step = "targets"
                 /\ ijob'.todo = ijob.todo \ {ijob.at} /\ ijob'.done = ijob.done \cup {ijob.at}
                 /\ ijob'.action = ijob.action /\ ijob'.was = ijob.was
           /\ \A t \in Tools : I!Uninstall(t) =>
                 /\ ijob'.step = "move" /\ ijob'.at = t
                 /\ ijob'.todo = {} /\ ijob'.done = {}
                 /\ \A u \in Tools : ijob'.action[u] = "noop"
<1>0. ijob \in I!Job /\ I!Idle \in I!Job
  BY InstallTyped, InstallStart
<1>1. ASSUME NEW selected \in SUBSET Tools, I!Install(selected)
      PROVE  /\ ijob'.step = "targets" /\ ijob'.done = {}
             /\ ijob'.todo = {t \in selected : I!Allowed(t)} /\ ijob'.was = ientry
             /\ \A t \in Tools :
                   /\ ijob'.action[t] = IF t \in selected THEN I!TargetAction(t) ELSE "noop"
  BY <1>0, <1>1, InstallStart DEF I!Install, I!Job
<1>2. ASSUME NEW t \in Tools, I!WriteManifest(t)
      PROVE  /\ ijob'.step = "targets" /\ ijob.step = "targets"
             /\ ijob'.todo = ijob.todo \ {t} /\ ijob'.done = ijob.done \cup {t}
             /\ ijob'.action = ijob.action /\ ijob'.was = ijob.was
  BY <1>0, <1>2 DEF I!WriteManifest, I!Job
<1>3. ASSUME NEW t \in Tools, I!CopyToTemp(t)
      PROVE  /\ ijob'.step = "backup" /\ ijob.step = "targets" /\ ijob'.at = t
             /\ ijob'.temp = I!Packed
             /\ ijob'.todo = ijob.todo /\ ijob'.done = ijob.done
             /\ ijob'.action = ijob.action /\ ijob'.was = ijob.was
  BY <1>0, <1>3 DEF I!CopyToTemp, I!Job
<1>4. ASSUME I!BackUp
      PROVE  /\ ijob.step = "backup" /\ ijob'.step = IF ijob.had THEN "remove" ELSE "replace"
             /\ ijob'.at = ijob.at /\ ijob'.temp = ijob.temp
             /\ ijob'.todo = ijob.todo /\ ijob'.done = ijob.done
             /\ ijob'.action = ijob.action /\ ijob'.was = ijob.was
  BY <1>0, <1>4 DEF I!BackUp, I!Job
<1>5. ASSUME I!Remove
      PROVE  /\ ijob.step = "remove" /\ ijob'.step = "replace"
             /\ ijob'.at = ijob.at /\ ijob'.temp = ijob.temp
             /\ ijob'.todo = ijob.todo /\ ijob'.done = ijob.done
             /\ ijob'.action = ijob.action /\ ijob'.was = ijob.was
  BY <1>0, <1>5 DEF I!Remove, I!Job
<1>6. ASSUME I!Replace
      PROVE  /\ ijob.step = "replace" /\ ijob'.step = "targets"
             /\ ijob'.todo = ijob.todo \ {ijob.at} /\ ijob'.done = ijob.done \cup {ijob.at}
             /\ ijob'.action = ijob.action /\ ijob'.was = ijob.was
  BY <1>0, <1>6 DEF I!Replace, I!Job
<1>7. ASSUME NEW t \in Tools, I!Uninstall(t)
      PROVE  /\ ijob'.step = "move" /\ ijob'.at = t
             /\ ijob'.todo = {} /\ ijob'.done = {}
             /\ \A u \in Tools : ijob'.action[u] = "noop"
  BY <1>0, <1>7, InstallStart DEF I!Uninstall, I!Job
<1>8. I!BackUp => ~ I!Remove
  BY DEF I!BackUp, I!Remove
<1> QED
  BY <1>1, <1>2, <1>3, <1>4, <1>5, <1>6, <1>7, <1>8


\* The tool at hand.
LEMMA InstallAt ==
    ASSUME I!InstallInv
    PROVE  /\ I!Copying => /\ ijob.at \in Tools /\ ijob.at \in ijob.todo
                           /\ ientry[ijob.at] \in I!Entry
                           /\ ~ I!IsSource(ijob.at) /\ ijob.temp \in I!Entry \ {Absent}
                           /\ ijob.action[ijob.at] \in I!Copies
           /\ ijob # I!Idle <=> ijob.step # "idle"
           /\ ijob.step = "move" => /\ ijob.at \in Tools /\ ientry[ijob.at] \in I!Entry
                                    /\ ijob.todo = {}
           /\ ijob.todo \subseteq Tools /\ ijob.done \subseteq Tools
           /\ \A t \in ijob.todo : ientry[t] \in I!Entry
<1>1. /\ ientry \in [Tools -> I!Entry \cup {I!NoRoot}] /\ ijob \in I!Job
  BY InstallTyped DEF I!InstallInv
<1>2. /\ ijob.todo \subseteq Tools /\ ijob.done \subseteq Tools /\ ijob.temp \in I!Entry
  BY <1>1 DEF I!Job
<1> QED
  BY <1>1, <1>2 DEF I!InstallInv, I!TargetsAreSound

LEMMA InstallTypeNext == I!InstallInv /\ [I!Next]_ivars => I!InstallTypeOK' /\ I!Tied'
<1> SUFFICES ASSUME I!InstallInv, [I!Next]_ivars PROVE I!InstallTypeOK' /\ I!Tied'
  OBVIOUS
<1>0. I!InstallTypeOK /\ I!Tied
  BY DEF I!InstallInv
<1>t. /\ ientry \in [Tools -> I!Entry \cup {I!NoRoot}] /\ isource \in I!Source
      /\ ibackups \in [Tools -> SUBSET (I!Entry \ {Absent})]
      /\ ijob \in I!Job /\ icounts \in I!Counts
      /\ irecords \subseteq SUBSET Tools /\ imoved \subseteq Tools \cup {"source"}
  BY <1>0, InstallTyped
<1> USE <1>0, <1>t
<1> DEFINE Held == /\ ientry' \in [Tools -> I!Entry \cup {I!NoRoot}] /\ isource' \in I!Source
                   /\ I!Tied'
           Typed == /\ ibackups' \in [Tools -> SUBSET (I!Entry \ {Absent})]
                    /\ ijob' \in I!Job /\ icounts' \in I!Counts
                    /\ irecords' \subseteq SUBSET Tools /\ imoved' \subseteq Tools \cup {"source"}
<1>s. SUFFICES Held /\ Typed
  BY DEF I!InstallTypeOK
<1>r. ASSUME UNCHANGED <<ientry, isource>> PROVE Held
  BY <1>r DEF I!Tied, I!SkillOf, I!Directory
<1>p. ASSUME NEW t \in Tools, NEW e \in I!Entry, I!Put(t, e) PROVE Held
  BY <1>p, InstallPuts
<1>1. CASE UNCHANGED ivars
  BY <1>1, <1>r DEF ivars
<1>2. ASSUME NEW selected \in SUBSET Tools, I!Install(selected) PROVE Held /\ Typed
  <2>1. ijob' \in I!Job
    <3>1. \A t \in Tools : I!TargetAction(t) \in I!ActionNames
      BY DEF I!TargetAction, I!ActionNames
    <3>2. [t \in Tools |-> IF t \in selected THEN I!TargetAction(t) ELSE "noop"]
             \in [Tools -> I!ActionNames]
      BY <3>1 DEF I!ActionNames
    <3>3. {t \in selected : I!Allowed(t)} \in SUBSET Tools
      OBVIOUS
    <3>4. ijob' = [I!Idle EXCEPT !.step = "targets",
                     !.action = [t \in Tools |-> IF t \in selected THEN I!TargetAction(t) ELSE "noop"],
                     !.todo = {t \in selected : I!Allowed(t)}, !.was = ientry]
      BY <1>2 DEF I!Install
    <3> HIDE DEF Held, Typed
    <3> QED
      BY <3>2, <3>3, <3>4, InstallStart DEF I!Job
  <2>2. icounts' \in I!Counts
    BY <1>2, LocalBoundAssumption DEF I!Install, I!Counts
  <2> QED
    BY <1>2, <1>r, <2>1, <2>2 DEF I!Install
<1>3. ASSUME NEW t \in Tools, I!WriteManifest(t) PROVE Held /\ Typed
  <2>1. ientry[t] \in I!Entry \ {Absent}
    BY <1>3, InstallAt DEF I!WriteManifest
  <2>2. [ientry[t] EXCEPT !.manifest = TRUE] \in I!Entry
    BY <2>1, InstallEntries
  <2>3. Held
    BY <1>3, <1>p, <2>2 DEF I!WriteManifest
  <2>4. ijob' \in I!Job
    BY <1>3 DEF I!WriteManifest, I!Job
  <2> QED
    BY <1>3, <2>3, <2>4 DEF I!WriteManifest
<1>4. ASSUME NEW t \in Tools, I!CopyToTemp(t) PROVE Held /\ Typed
  <2>1. ijob' \in I!Job
    BY <1>4, InstallPacked DEF I!CopyToTemp, I!Job
  <2> QED
    BY <1>4, <1>r, <2>1 DEF I!CopyToTemp
<1>5. CASE I!BackUp
  <2>1. ijob' \in I!Job
    BY <1>5 DEF I!BackUp, I!Job
  <2>2. ijob.at \in Tools /\ ientry[ijob.at] \in I!Entry
    BY <1>5, InstallAt DEF I!BackUp, I!Copying
  <2>3. ibackups' \in [Tools -> SUBSET (I!Entry \ {Absent})]
    <3>1. CASE ~ I!Kept
      BY <1>5, <3>1 DEF I!BackUp
    <3>2. CASE I!Kept
      <4>1. I!Directory(ientry[ijob.at]) \in I!Entry \ {Absent}
        BY <1>5, <2>2, <3>2, InstallEntries DEF I!BackUp
      <4>2. ibackups' = [ibackups EXCEPT ![ijob.at] = @ \cup {I!Directory(ientry[ijob.at])}]
        BY <1>5, <3>2 DEF I!BackUp
      <4> QED
        BY <2>2, <4>1, <4>2
    <3> QED
      BY <3>1, <3>2
  <2> QED
    BY <1>5, <1>r, <2>1, <2>3 DEF I!BackUp
<1>6. CASE I!Remove
  <2>1. ijob.at \in Tools
    BY <1>6, InstallAt DEF I!Remove, I!Copying
  <2>2. ijob' \in I!Job
    BY <1>6 DEF I!Remove, I!Job
  <2>3. Held
    BY <1>6, <1>p, <2>1, InstallStart DEF I!Remove
  <2> QED
    BY <1>6, <2>2, <2>3 DEF I!Remove
<1>7. CASE I!Replace
  <2>1. ijob.at \in Tools /\ ijob.temp \in I!Entry
    BY <1>7, InstallAt DEF I!Replace, I!Copying
  <2>2. ijob' \in I!Job
    BY <1>7, <2>1, InstallStart DEF I!Replace, I!Job
  <2>3. Held
    BY <1>7, <1>p, <2>1 DEF I!Replace
  <2> QED
    BY <1>7, <2>2, <2>3 DEF I!Replace
<1>8. CASE I!WriteRecord
  <2>1. ijob.done \in SUBSET Tools
    BY DEF I!Job
  <2>2. irecords' \subseteq SUBSET Tools
    BY <1>8, <2>1 DEF I!WriteRecord
  <2> QED
    BY <1>8, <1>r, <2>2, InstallStart DEF I!WriteRecord
<1>9. CASE I!InstallFails
  <2>1. icounts' \in I!Counts
    BY <1>9, LocalBoundAssumption DEF I!InstallFails, I!Counts
  <2> QED
    BY <1>9, <1>r, <2>1, InstallStart DEF I!InstallFails
<1>10. ASSUME NEW t \in Tools, I!Uninstall(t) PROVE Held /\ Typed
  <2>1. ijob' \in I!Job
    BY <1>10, InstallStart DEF I!Uninstall, I!Job
  <2>2. icounts' \in I!Counts
    BY <1>10, LocalBoundAssumption DEF I!Uninstall, I!Counts
  <2> QED
    BY <1>10, <1>r, <2>1, <2>2 DEF I!Uninstall
<1>11. CASE I!MoveAside
  <2>1. ijob.at \in Tools /\ ientry[ijob.at] \in I!Entry \ {Absent}
    BY <1>11, InstallAt DEF I!MoveAside
  <2>2. ibackups' \in [Tools -> SUBSET (I!Entry \ {Absent})]
    BY <1>11, <2>1 DEF I!MoveAside, I!Moved
  <2>3. Held
    BY <1>11, <1>p, <2>1, InstallStart DEF I!MoveAside
  <2> QED
    BY <1>11, <2>2, <2>3, InstallStart DEF I!MoveAside
<1>12. CASE I!MoveFails
  BY <1>12, <1>r, InstallStart DEF I!MoveFails
<1>13. ASSUME NEW t \in Tools, NEW e \in ToolEdits, I!EditEntry(t, e) PROVE Held /\ Typed
  <2>1. Held
    BY <1>13, <1>p, InstallAssumption DEF I!EditEntry
  <2>2. icounts' \in I!Counts
    BY <1>13, LocalBoundAssumption DEF I!EditEntry, I!Others, I!Counts
  <2> QED
    BY <1>13, <2>1, <2>2 DEF I!EditEntry, I!Others
<1>14. ASSUME NEW v \in Versions, NEW secret \in BOOLEAN, I!EditSource(v, secret)
       PROVE  Held /\ Typed
  <2>1. isource' \in I!Source /\ isource'.at = Absent
    BY <1>14 DEF I!EditSource, I!Source
  <2>2. Held
    BY <1>14, <2>1, InstallAssumption DEF I!EditSource, I!Tied
  <2>3. icounts' \in I!Counts
    BY <1>14, LocalBoundAssumption DEF I!EditSource, I!Others, I!Counts
  <2> QED
    BY <1>14, <2>2, <2>3 DEF I!EditSource, I!Others
<1> HIDE DEF Held, Typed
<1> QED
  BY <1>1, <1>2, <1>3, <1>4, <1>5, <1>6, <1>7, <1>8, <1>9, <1>10, <1>11, <1>12,
     <1>13, <1>14
  DEF I!Next, Held, Typed


\* What the steps do to the roots and the source.
LEMMA InstallMoves ==
    ASSUME I!InstallInv
    PROVE  /\ \A t \in Tools : I!WriteManifest(t) =>
                 /\ ientry[t] \in I!Entry \ {Absent}
                 /\ ientry'[t] = [ientry[t] EXCEPT !.manifest = TRUE]
                 /\ \A u \in Tools \ {t} : ientry'[u] = ientry[u]
                 /\ isource'.body = isource.body /\ isource'.secret = isource.secret
                 /\ isource'.at = isource.at
                 /\ I!IsSource(t) => ientry[t].body = isource.body
           /\ I!Remove \/ I!MoveAside =>
                 /\ ijob.at \in Tools /\ ientry'[ijob.at] = Absent
                 /\ \A u \in Tools \ {ijob.at} : ientry'[u] = ientry[u]
                 /\ isource' = isource
           /\ I!Replace =>
                 /\ ijob.at \in Tools /\ ientry'[ijob.at] = ijob.temp
                 /\ \A u \in Tools \ {ijob.at} : ientry'[u] = ientry[u]
                 /\ isource' = isource
           /\ \A t \in Tools, e \in ToolEdits : I!EditEntry(t, e) =>
                 /\ ijob' = ijob /\ ibackups' = ibackups /\ icounts'.edits = icounts.edits + 1
                 /\ imoved \cup {t} \subseteq imoved'
                 /\ ientry'[t] \in I!Entry
                 /\ \A u \in Tools \ {t} : ientry'[u] = ientry[u]
                 /\ isource'.at = isource.at
                 /\ isource' = isource \/ "source" \in imoved'
           /\ \A v \in Versions, secret \in BOOLEAN : I!EditSource(v, secret) =>
                 /\ ijob' = ijob /\ ibackups' = ibackups /\ icounts'.edits = icounts.edits + 1
                 /\ ientry' = ientry /\ isource'.at = isource.at
                 /\ imoved \cup {"source"} \subseteq imoved'
<1>0. I!InstallTypeOK /\ I!Tied
  BY DEF I!InstallInv
<1>t. isource \in I!Source /\ icounts \in I!Counts
  BY <1>0, InstallTyped
<1>1. ASSUME NEW t \in Tools, I!WriteManifest(t)
      PROVE  /\ ientry[t] \in I!Entry \ {Absent}
             /\ ientry'[t] = [ientry[t] EXCEPT !.manifest = TRUE]
             /\ \A u \in Tools \ {t} : ientry'[u] = ientry[u]
             /\ isource'.body = isource.body /\ isource'.secret = isource.secret
             /\ isource'.at = isource.at
             /\ I!IsSource(t) => ientry[t].body = isource.body
  <2> DEFINE e == [ientry[t] EXCEPT !.manifest = TRUE]
  <2>1. ientry[t] \in I!Entry \ {Absent} /\ I!Put(t, e)
    BY <1>1, InstallAt DEF I!WriteManifest
  <2>2. /\ e \in I!Entry \ {Absent} /\ e.body = ientry[t].body /\ e.secret = ientry[t].secret
    BY <2>1, InstallEntries
  <2>3. I!IsSource(t) => ientry[t].body = isource.body /\ ientry[t].secret = isource.secret
    <3>1. SUFFICES ASSUME I!IsSource(t)
                   PROVE  ientry[t].body = isource.body /\ ientry[t].secret = isource.secret
      OBVIOUS
    <3>2. I!Directory(ientry[t]) = I!SkillOf(isource)
      BY <1>0, <2>1, <3>1 DEF I!Tied, I!IsSource
    <3>3. ientry[t] \in [kind: I!Kinds, body: Versions, manifest: BOOLEAN, secret: BOOLEAN]
      BY <2>1, InstallEntries
    <3>4. /\ I!Directory(ientry[t]).body = ientry[t].body
          /\ I!Directory(ientry[t]).secret = ientry[t].secret
      BY <2>1, <3>3 DEF I!Directory
    <3> QED
      BY <3>2, <3>4 DEF I!SkillOf
  <2> HIDE DEF e
  <2>4. /\ ientry'[t] = e
        /\ \A u \in Tools \ {t} : ientry'[u] = ientry[u]
        /\ isource'.at = isource.at
        /\ I!IsSource(t) => isource'.body = e.body /\ isource'.secret = e.secret
        /\ ~ I!IsSource(t) => isource' = isource
    BY <1>0, <2>1, <2>2, InstallPuts
  <2> QED
    BY <2>1, <2>2, <2>3, <2>4 DEF e
<1>2. ASSUME I!Remove \/ I!MoveAside
      PROVE  /\ ijob.at \in Tools /\ ientry'[ijob.at] = Absent
             /\ \A u \in Tools \ {ijob.at} : ientry'[u] = ientry[u]
             /\ isource' = isource
  <2>1. ijob.at \in Tools /\ I!Put(ijob.at, Absent)
    BY <1>2, InstallAt DEF I!Remove, I!MoveAside, I!Copying
  <2> QED
    BY <1>0, <2>1, InstallPuts, InstallStart
<1>3. ASSUME I!Replace
      PROVE  /\ ijob.at \in Tools /\ ientry'[ijob.at] = ijob.temp
             /\ \A u \in Tools \ {ijob.at} : ientry'[u] = ientry[u]
             /\ isource' = isource
  <2>1. /\ ijob.at \in Tools /\ I!Put(ijob.at, ijob.temp) /\ ijob.temp \in I!Entry
        /\ ~ I!IsSource(ijob.at)
    BY <1>3, InstallAt DEF I!Replace, I!Copying
  <2> QED
    BY <1>0, <2>1, InstallPuts
<1>4. ASSUME NEW t \in Tools, NEW e \in ToolEdits, I!EditEntry(t, e)
      PROVE  /\ ijob' = ijob /\ ibackups' = ibackups /\ icounts'.edits = icounts.edits + 1
             /\ imoved \cup {t} \subseteq imoved'
             /\ ientry'[t] \in I!Entry
             /\ \A u \in Tools \ {t} : ientry'[u] = ientry[u]
             /\ isource'.at = isource.at
             /\ isource' = isource \/ "source" \in imoved'
  <2>1. e \in I!Entry /\ I!Put(t, e)
    BY <1>4, InstallAssumption DEF I!EditEntry
  <2>2. /\ ientry'[t] = e
        /\ \A u \in Tools \ {t} : ientry'[u] = ientry[u]
        /\ isource'.at = isource.at
        /\ ~ I!IsSource(t) => isource' = isource
    BY <1>0, <2>1, InstallPuts
  <2>3. icounts'.edits = icounts.edits + 1
    BY <1>4, <1>t DEF I!EditEntry, I!Others, I!Counts
  <2> QED
    BY <1>4, <2>1, <2>2, <2>3 DEF I!EditEntry, I!Others
<1>5. ASSUME NEW v \in Versions, NEW secret \in BOOLEAN, I!EditSource(v, secret)
      PROVE  /\ ijob' = ijob /\ ibackups' = ibackups /\ icounts'.edits = icounts.edits + 1
             /\ ientry' = ientry /\ isource'.at = isource.at
             /\ imoved \cup {"source"} \subseteq imoved'
  BY <1>5, <1>t DEF I!EditSource, I!Others, I!Source, I!Counts
<1> QED
  BY <1>1, <1>2, <1>3, <1>4, <1>5

LEMMA InstallTargetsNext == I!InstallInv /\ [I!Next]_ivars => I!TargetsAreSound'
<1> SUFFICES ASSUME I!InstallInv, [I!Next]_ivars PROVE I!TargetsAreSound'
  OBVIOUS
<1>0. I!InstallTypeOK /\ I!TargetsAreSound
  BY DEF I!InstallInv
<1>t. /\ ientry \in [Tools -> I!Entry \cup {I!NoRoot}]
      /\ I!Idle.step = "idle" /\ I!Idle.todo = {} /\ I!Idle.done = {}
      /\ \A t \in Tools : I!Idle.action[t] \notin I!Copies
      /\ I!NoRoot \notin I!Entry /\ Absent \in I!Entry
  BY <1>0, InstallTyped, InstallStart DEF I!Copies
<1> USE <1>0, <1>t
<1> DEFINE Planned == /\ ijob'.step = "idle" <=> ijob' = I!Idle
                      /\ I!Copying' => /\ ijob'.at \in ijob'.todo
                                       /\ ijob'.action[ijob'.at] \in I!Copies
                                       /\ ijob'.temp # Absent
                      /\ ijob'.step = "move" => /\ ijob'.todo = {} /\ ijob'.at \in Tools
                                                /\ ientry'[ijob'.at] # I!NoRoot
                      /\ ijob'.done \cap ijob'.todo = {}
                      /\ \A t \in ijob'.todo : ientry'[t] # I!NoRoot
                      /\ \A t \in Tools : ijob'.action[t] \in I!Copies => isource'.at # t
<1>s. SUFFICES Planned
  BY DEF I!TargetsAreSound, I!IsSource
<1>1. CASE UNCHANGED <<ientry, isource, ijob>>
  BY <1>1 DEF I!TargetsAreSound, I!IsSource, I!Copying
<1>2. CASE ijob' = I!Idle
  BY <1>2 DEF I!Copying
<1>3. ASSUME NEW selected \in SUBSET Tools, I!Install(selected) PROVE Planned
  <2>1. ientry' = ientry /\ isource' = isource
    BY <1>3 DEF I!Install
  <2>2. \A t \in selected : I!Allowed(t) => ientry[t] # I!NoRoot
    BY DEF I!Allowed, I!TargetAction
  <2>3. \A t \in Tools : I!TargetAction(t) \in I!Copies => isource.at # t
    BY DEF I!TargetAction, I!Copies, I!IsSource
  <2>4. "noop" \notin I!Copies
    BY DEF I!Copies
  <2> QED
    <3>1. /\ ijob'.step = "targets" /\ ijob'.done = {}
          /\ ijob'.todo = {t \in selected : I!Allowed(t)}
          /\ \A t \in Tools :
                ijob'.action[t] = IF t \in selected THEN I!TargetAction(t) ELSE "noop"
      BY <1>3, InstallJobMoves
    <3>2. ~ I!Copying'
      BY <3>1 DEF I!Copying
    <3>3. \A t \in Tools : ijob'.action[t] \in I!Copies => isource'.at # t
      BY <2>1, <2>3, <2>4, <3>1
    <3>4. \A t \in ijob'.todo : ientry'[t] # I!NoRoot
      BY <2>1, <2>2, <3>1
    <3>5. ijob' # I!Idle
      BY <3>1
    <3> QED
      BY <3>1, <3>2, <3>3, <3>4, <3>5
<1>4. ASSUME NEW t \in Tools, I!WriteManifest(t) PROVE Planned
  <2>1. ientry'[t] # I!NoRoot
    <3>1. ientry[t] \in I!Entry \ {Absent} /\ ientry'[t] = [ientry[t] EXCEPT !.manifest = TRUE]
      BY <1>4, InstallMoves
    <3>2. [ientry[t] EXCEPT !.manifest = TRUE] \in I!Entry \ {Absent}
      BY <3>1, InstallEntries
    <3> QED
      BY <3>1, <3>2
  <2>2. /\ ijob'.step = "targets" /\ ijob'.todo = ijob.todo \ {t}
        /\ ijob'.done = ijob.done \cup {t} /\ ijob'.action = ijob.action
    BY <1>4, InstallJobMoves
  <2>3. isource'.at = isource.at /\ (\A u \in Tools \ {t} : ientry'[u] = ientry[u])
    BY <1>4, InstallMoves
  <2>4. ijob.todo \subseteq Tools
    BY InstallAt
  <2>5. ijob'.step # "move" /\ ijob' # I!Idle /\ ~ I!Copying'
    BY <2>2 DEF I!Copying
  <2>6. \A u \in ijob'.todo : ientry'[u] # I!NoRoot
    BY <2>2, <2>3, <2>4 DEF I!TargetsAreSound
  <2>7. ijob'.done \cap ijob'.todo = {}
    BY <2>2 DEF I!TargetsAreSound
  <2>8. \A u \in Tools : ijob'.action[u] \in I!Copies => isource'.at # u
    BY <2>2, <2>3 DEF I!TargetsAreSound, I!IsSource
  <2> QED
    BY <2>2, <2>5, <2>6, <2>7, <2>8
<1>5. ASSUME NEW t \in Tools, I!CopyToTemp(t) PROVE Planned
  <2>1. /\ ientry' = ientry /\ isource' = isource /\ I!Packed # Absent
        /\ t \in ijob.todo /\ ijob.action[t] \in I!Copies
    BY <1>5, InstallTyped, InstallPacked DEF I!CopyToTemp, I!Copies
  <2> QED
    BY <1>5, <2>1, InstallJobMoves DEF I!TargetsAreSound, I!Copying, I!IsSource
<1>6. CASE I!BackUp
  <2>1. ientry' = ientry /\ isource' = isource
    BY <1>6 DEF I!BackUp
  <2> QED
    BY <1>6, <2>1, InstallJobMoves DEF I!TargetsAreSound, I!Copying, I!IsSource
<1>7. CASE I!Remove
  <2>1. \A u \in Tools : ientry'[u] = ientry[u] \/ ientry'[u] = Absent
    BY <1>7, InstallMoves
  <2> QED
    BY <1>7, <2>1, InstallMoves, InstallJobMoves, InstallAt
    DEF I!TargetsAreSound, I!Copying, I!IsSource
<1>8. CASE I!Replace
  <2>1. \A u \in Tools : u # ijob.at => ientry'[u] = ientry[u]
    BY <1>8, InstallMoves
  <2> QED
    BY <1>8, <2>1, InstallMoves, InstallJobMoves, InstallAt
    DEF I!TargetsAreSound, I!Copying, I!IsSource
<1>9. ASSUME NEW t \in Tools, I!Uninstall(t) PROVE Planned
  <2>1. ientry' = ientry /\ isource' = isource /\ ientry[t] # I!NoRoot
    BY <1>9 DEF I!Uninstall
  <2> QED
    BY <1>9, <2>1, InstallJobMoves DEF I!Copying, I!Copies
<1>10. ASSUME NEW t \in Tools, NEW e \in ToolEdits, I!EditEntry(t, e) PROVE Planned
  <2>1. \A u \in Tools : ientry'[u] = ientry[u] \/ ientry'[u] \in I!Entry
    BY <1>10, InstallMoves
  <2> QED
    BY <1>10, <2>1, InstallMoves, InstallAt DEF I!TargetsAreSound, I!Copying, I!IsSource
<1>11. ASSUME NEW v \in Versions, NEW secret \in BOOLEAN, I!EditSource(v, secret)
       PROVE  Planned
  BY <1>11, InstallMoves DEF I!TargetsAreSound, I!Copying, I!IsSource
<1> QED
  BY <1>1, <1>2, <1>3, <1>4, <1>5, <1>6, <1>7, <1>8, <1>9, <1>10, <1>11
  DEF I!Next, ivars, I!WriteRecord, I!InstallFails, I!MoveAside, I!MoveFails


LEMMA InstallKeptNext == I!InstallInv /\ [I!Next]_ivars => I!KeptFirst'
<1> SUFFICES ASSUME I!InstallInv, [I!Next]_ivars,
                    ijob'.step = "remove", ijob'.at \notin imoved',
                    ientry'[ijob'.at] # Absent
             PROVE  I!Directory(ientry'[ijob'.at]) \in ibackups'[ijob'.at]
  BY DEF I!KeptFirst, I!Directory
<1>0. I!InstallTypeOK /\ I!KeptFirst
  BY DEF I!InstallInv
<1>t. ibackups \in [Tools -> SUBSET (I!Entry \ {Absent})] /\ I!Idle.step = "idle"
  BY <1>0, InstallTyped, InstallStart
<1>1. CASE UNCHANGED ivars
  BY <1>0, <1>1 DEF I!KeptFirst, ivars
<1>2. CASE I!BackUp
  <2>1. /\ ijob.at \in Tools /\ ijob'.at = ijob.at /\ ijob.had /\ ientry' = ientry
    BY <1>0, <1>2, InstallJobMoves, InstallAt DEF I!BackUp, I!Copying
  <2> QED
    BY <1>2, <1>t, <2>1 DEF I!BackUp, I!Kept
<1>3. ASSUME NEW t \in Tools, NEW e \in ToolEdits, I!EditEntry(t, e)
      PROVE  I!Directory(ientry'[ijob'.at]) \in ibackups'[ijob'.at]
  <2>1. ijob' = ijob /\ ijob.at \in Tools /\ ijob.at # t /\ ijob.at \notin imoved
    BY <1>3, InstallMoves, InstallAt DEF I!Copying
  <2>2. ientry'[ijob.at] = ientry[ijob.at] /\ ibackups' = ibackups
    BY <1>3, <2>1, InstallMoves
  <2> QED
    BY <1>0, <2>1, <2>2 DEF I!KeptFirst
<1>4. ASSUME NEW v \in Versions, NEW secret \in BOOLEAN, I!EditSource(v, secret)
      PROVE  I!Directory(ientry'[ijob'.at]) \in ibackups'[ijob'.at]
  <2>1. ijob' = ijob /\ ientry' = ientry /\ ibackups' = ibackups /\ ijob.at \notin imoved
    BY <1>4, InstallMoves
  <2> QED
    BY <1>0, <2>1 DEF I!KeptFirst
<1>5. \A t \in Tools : ~ I!WriteManifest(t) /\ ~ I!CopyToTemp(t) /\ ~ I!Uninstall(t)
  BY <1>0, InstallJobMoves
<1>6. \A selected \in SUBSET Tools : ~ I!Install(selected)
  BY <1>0, InstallJobMoves
<1>7. ~ I!Remove /\ ~ I!Replace
  BY <1>0, InstallJobMoves
<1>8. ~ I!WriteRecord /\ ~ I!InstallFails /\ ~ I!MoveAside /\ ~ I!MoveFails
  BY <1>t DEF I!WriteRecord, I!InstallFails, I!MoveAside, I!MoveFails
<1> QED
  BY <1>1, <1>2, <1>3, <1>4, <1>5, <1>6, <1>7, <1>8 DEF I!Next

\* Others' changes are remembered until the next command.
LEMMA InstallMoved ==
    ASSUME I!InstallInv, [I!Next]_ivars, "source" \notin imoved'
    PROVE  /\ isource'.body = isource.body /\ isource'.secret = isource.secret
           /\ \/ "source" \notin imoved
              \/ \E selected \in SUBSET Tools : I!Install(selected)
              \/ \E t \in Tools : I!Uninstall(t)
<1>0. I!InstallTypeOK
  BY DEF I!InstallInv
<1>1. CASE UNCHANGED ivars
  BY <1>1 DEF ivars
<1>2. ASSUME NEW t \in Tools, I!WriteManifest(t)
      PROVE  /\ isource'.body = isource.body /\ isource'.secret = isource.secret
             /\ "source" \notin imoved
  BY <1>2, InstallMoves DEF I!WriteManifest
<1>3. CASE I!BackUp
  <2>1. ijob.at # "source"
    BY <1>3, InstallAt, InstallAssumption DEF I!BackUp, I!Copying
  <2> QED
    BY <1>3, <2>1 DEF I!BackUp
<1>4. CASE I!Remove \/ I!MoveAside \/ I!Replace
  <2>1. isource' = isource
    BY <1>4, InstallMoves
  <2>2. imoved' = imoved
    BY <1>4 DEF I!Remove, I!MoveAside, I!Replace
  <2> QED
    BY <2>1, <2>2
<1>5. ASSUME NEW t \in Tools, NEW e \in ToolEdits, I!EditEntry(t, e)
      PROVE  isource' = isource /\ "source" \notin imoved
  BY <1>5, InstallMoves
<1>6. ASSUME NEW v \in Versions, NEW secret \in BOOLEAN, I!EditSource(v, secret) PROVE FALSE
  BY <1>6, InstallMoves
<1>7. ASSUME NEW selected \in SUBSET Tools, I!Install(selected) PROVE isource' = isource
  BY <1>7 DEF I!Install
<1>8. ASSUME NEW t \in Tools, I!Uninstall(t) PROVE isource' = isource
  BY <1>8 DEF I!Uninstall
<1>9. ASSUME NEW t \in Tools, I!CopyToTemp(t) PROVE isource' = isource /\ imoved' = imoved
  BY <1>9 DEF I!CopyToTemp
<1>10. CASE I!WriteRecord \/ I!InstallFails \/ I!MoveFails
  BY <1>10 DEF I!WriteRecord, I!InstallFails, I!MoveFails
<1> QED
  BY <1>1, <1>2, <1>3, <1>4, <1>5, <1>6, <1>7, <1>8, <1>9, <1>10 DEF I!Next

LEMMA InstallSecretsNext == I!InstallInv /\ [I!Next]_ivars => I!NoSecrets'
<1> SUFFICES ASSUME I!InstallInv, [I!Next]_ivars, "source" \notin imoved'
             PROVE  /\ ijob'.todo # {} => ~ isource'.secret
                    /\ I!Copying' => ~ ijob'.temp.secret
  BY DEF I!NoSecrets
<1>0. I!InstallTypeOK /\ I!NoSecrets
  BY DEF I!InstallInv
<1>t. /\ isource \in I!Source /\ isource'.secret = isource.secret
      /\ I!Idle.step = "idle" /\ I!Idle.todo = {}
  BY <1>0, InstallTyped, InstallStart, InstallMoved
<1> DEFINE Clean == /\ ijob'.todo # {} => ~ isource'.secret
                    /\ I!Copying' => ~ ijob'.temp.secret
<1>1. ASSUME NEW selected \in SUBSET Tools, I!Install(selected) PROVE Clean
  <2>1. \A t \in selected : I!Allowed(t) => ~ isource.secret
    BY DEF I!Allowed
  <2> QED
    BY <1>0, <1>1, <1>t, <2>1, InstallJobMoves DEF I!Copying
<1>2. ASSUME NEW t \in Tools, I!Uninstall(t) PROVE Clean
  BY <1>0, <1>2, InstallJobMoves DEF I!Copying
<1>3. CASE ijob' = I!Idle
  BY <1>3, <1>t DEF I!Copying
<1>4. CASE "source" \notin imoved
  <2>1. /\ ijob.todo # {} => ~ isource'.secret
        /\ I!Copying => ~ ijob.temp.secret
    BY <1>0, <1>4, <1>t DEF I!NoSecrets
  <2>2. CASE ijob' = ijob
    BY <2>1, <2>2 DEF I!Copying
  <2>3. ASSUME NEW t \in Tools, I!WriteManifest(t) PROVE Clean
    BY <1>0, <2>1, <2>3, InstallJobMoves DEF I!Copying, I!WriteManifest
  <2>4. ASSUME NEW t \in Tools, I!CopyToTemp(t) PROVE Clean
    <3>1. t \in ijob.todo /\ ~ isource.secret
      BY <1>t, <2>1, <2>4 DEF I!CopyToTemp
    <3> QED
      BY <1>0, <1>t, <2>4, <3>1, InstallJobMoves, InstallPacked
  <2>5. CASE I!BackUp \/ I!Remove
    BY <1>0, <2>1, <2>5, InstallJobMoves DEF I!Copying
  <2>6. CASE I!Replace
    <3>1. ijob.todo # {}
      BY <2>6, InstallAt DEF I!Replace, I!Copying
    <3> QED
      BY <1>0, <2>1, <2>6, <3>1, InstallJobMoves DEF I!Copying
  <2>7. ASSUME NEW t \in Tools, NEW e \in ToolEdits, I!EditEntry(t, e) PROVE ijob' = ijob
    BY <2>7, InstallMoves
  <2>8. ASSUME NEW v \in Versions, NEW secret \in BOOLEAN, I!EditSource(v, secret)
        PROVE  ijob' = ijob
    BY <2>8, InstallMoves
  <2> QED
    BY <1>1, <1>2, <1>3, <2>2, <2>3, <2>4, <2>5, <2>6, <2>7, <2>8
    DEF I!Next, ivars, I!WriteRecord, I!InstallFails, I!MoveAside, I!MoveFails
<1> QED
  BY <1>1, <1>2, <1>4, InstallMoved

LEMMA InstallLinksNext == I!InstallInv /\ [I!Next]_ivars => I!LinksSpared'
<1> SUFFICES ASSUME I!InstallInv, [I!Next]_ivars, NEW t \in ijob'.todo \ {Sidecar},
                    ijob'.was[t] # Absent
             PROVE  ijob'.was[t].kind # "canonical"
  BY DEF I!LinksSpared
<1>0. I!InstallTypeOK /\ I!LinksSpared
  BY DEF I!InstallInv
<1>t. I!Idle.todo = {}
  BY InstallStart
<1>1. ASSUME NEW selected \in SUBSET Tools, I!Install(selected)
      PROVE  ijob'.was[t].kind # "canonical"
  <2>1. t \in selected /\ I!Allowed(t) /\ ijob'.was = ientry
    BY <1>0, <1>1, InstallJobMoves
  <2>2. ~ I!LinkedToCanonical(t)
    BY <2>1 DEF I!Allowed, I!TargetAction
  <2> QED
    BY <2>1, <2>2 DEF I!LinkedToCanonical
<1>2. CASE ijob'.todo \subseteq ijob.todo /\ ijob'.was = ijob.was
  BY <1>0, <1>2 DEF I!LinksSpared
<1>3. ASSUME NEW u \in Tools, I!WriteManifest(u) \/ I!CopyToTemp(u)
      PROVE  ijob'.todo \subseteq ijob.todo /\ ijob'.was = ijob.was
  BY <1>0, <1>3, InstallJobMoves
<1>4. ASSUME NEW u \in Tools, I!Uninstall(u) PROVE FALSE
  BY <1>0, <1>4, InstallJobMoves
<1>5. ASSUME I!BackUp \/ I!Remove \/ I!Replace
      PROVE  ijob'.todo \subseteq ijob.todo /\ ijob'.was = ijob.was
  BY <1>0, <1>5, InstallJobMoves
<1>6. ASSUME NEW u \in Tools, NEW e \in ToolEdits, I!EditEntry(u, e) PROVE ijob' = ijob
  BY <1>6, InstallMoves
<1>7. ASSUME NEW v \in Versions, NEW secret \in BOOLEAN, I!EditSource(v, secret)
      PROVE  ijob' = ijob
  BY <1>7, InstallMoves
<1> QED
  BY <1>t, <1>1, <1>2, <1>3, <1>4, <1>5, <1>6, <1>7
  DEF I!Next, ivars, I!WriteRecord, I!InstallFails, I!MoveAside, I!MoveFails


LEMMA InstallSourceNext == I!InstallInv /\ [I!Next]_ivars => I!AsTheSource'
<1> SUFFICES ASSUME I!InstallInv, [I!Next]_ivars, "source" \notin imoved'
             PROVE  /\ \A t \in ijob'.done \ imoved' :
                          /\ ientry'[t].body = isource'.body
                          /\ ientry'[t].manifest = TRUE
                    /\ I!Copying' => ijob'.temp.body = isource'.body /\ ijob'.temp.manifest
                    /\ \A t \in ijob'.todo \ imoved' :
                          ijob'.action[t] = "write_manifest" => ientry'[t].body = isource'.body
  BY DEF I!AsTheSource, I!Hash, I!Desired
<1>0. I!InstallTypeOK /\ I!AsTheSource /\ I!TargetsAreSound /\ I!Tied
  BY DEF I!InstallInv
<1>t. /\ isource \in I!Source /\ isource'.body = isource.body
      /\ ientry \in [Tools -> I!Entry \cup {I!NoRoot}]
      /\ I!Idle.step = "idle" /\ I!Idle.todo = {} /\ I!Idle.done = {}
  BY <1>0, InstallTyped, InstallStart, InstallMoved
<1> DEFINE Same == /\ \A t \in ijob'.done \ imoved' :
                          /\ ientry'[t].body = isource'.body
                          /\ ientry'[t].manifest = TRUE
                   /\ I!Copying' => ijob'.temp.body = isource'.body /\ ijob'.temp.manifest
                   /\ \A t \in ijob'.todo \ imoved' :
                         ijob'.action[t] = "write_manifest" => ientry'[t].body = isource'.body
<1>1. ASSUME NEW selected \in SUBSET Tools, I!Install(selected) PROVE Same
  <2>1. /\ ijob'.step = "targets" /\ ijob'.done = {} /\ ijob'.todo \subseteq selected
        /\ \A t \in selected : ijob'.action[t] = I!TargetAction(t)
        /\ ientry' = ientry
    <3>1. /\ ijob'.step = "targets" /\ ijob'.done = {}
          /\ ijob'.todo = {t \in selected : I!Allowed(t)}
          /\ \A t \in Tools :
                ijob'.action[t] = IF t \in selected THEN I!TargetAction(t) ELSE "noop"
      BY <1>0, <1>1, InstallJobMoves
    <3>2. ijob'.todo \subseteq selected /\ ientry' = ientry
      BY <1>1, <3>1 DEF I!Install
    <3> QED
      BY <3>1, <3>2
  <2>2. ASSUME NEW t \in selected, I!TargetAction(t) = "write_manifest"
        PROVE  ientry[t].body = isource.body
    <3>1. ientry[t] \in I!Entry
      BY <1>t, <2>2 DEF I!TargetAction
    <3>2. CASE I!IsSource(t)
      <4>1. ientry[t] # Absent
        BY <1>1, <3>2, InstallAssumption DEF I!Install, I!SourceExists, I!IsSource
      <4>2. I!Directory(ientry[t]) = I!SkillOf(isource)
        BY <1>0, <3>2, <4>1 DEF I!Tied, I!IsSource
      <4>3. ientry[t] \in [kind: I!Kinds, body: Versions, manifest: BOOLEAN, secret: BOOLEAN]
        BY <3>1, <4>1, InstallEntries
      <4>4. I!Directory(ientry[t]).body = ientry[t].body
        BY <4>1, <4>3 DEF I!Directory
      <4> QED
        BY <4>2, <4>4 DEF I!SkillOf
    <3>3. CASE ~ I!IsSource(t)
      <4>1. I!Hash(ientry[t]) = I!Hash(isource)
        BY <2>2, <3>3 DEF I!TargetAction
      <4> QED
        BY <4>1 DEF I!Hash
    <3> QED
      BY <3>2, <3>3
  <2> QED
    BY <1>t, <2>1, <2>2 DEF I!Copying
<1>2. ASSUME NEW t \in Tools, I!Uninstall(t) PROVE Same
  BY <1>0, <1>2, InstallJobMoves DEF I!Copying
<1>3. CASE ijob' = I!Idle
  BY <1>3, <1>t DEF I!Copying
<1>4. CASE "source" \notin imoved
  <2>1. /\ \A t \in ijob.done \ imoved :
              /\ ientry[t].body = isource.body
              /\ ientry[t].manifest = TRUE
        /\ I!Copying => ijob.temp.body = isource.body /\ ijob.temp.manifest
        /\ \A t \in ijob.todo \ imoved :
              ijob.action[t] = "write_manifest" => ientry[t].body = isource.body
    BY <1>0, <1>4 DEF I!AsTheSource, I!Hash, I!Desired
  <2>0. ijob.todo \subseteq Tools /\ ijob.done \subseteq Tools /\ ijob.done \cap ijob.todo = {}
    BY <1>0, InstallAt DEF I!TargetsAreSound
  <2>2. CASE UNCHANGED <<ijob, ientry, imoved>>
    BY <1>t, <2>1, <2>2 DEF I!Copying
  <2>3. ASSUME NEW t \in Tools, I!WriteManifest(t) PROVE Same
    <3>1. /\ ijob'.step = "targets" /\ ijob'.todo = ijob.todo \ {t}
          /\ ijob'.done = ijob.done \cup {t} /\ ijob'.action = ijob.action
      BY <1>0, <2>3, InstallJobMoves
    <3>2. /\ t \in ijob.todo /\ ijob.action[t] = "write_manifest" /\ imoved' = imoved
      BY <2>3 DEF I!WriteManifest
    <3>3. /\ ientry[t] \in I!Entry \ {Absent}
          /\ ientry'[t] = [ientry[t] EXCEPT !.manifest = TRUE]
          /\ \A u \in Tools \ {t} : ientry'[u] = ientry[u]
      BY <2>3, InstallMoves
    <3>4. ientry'[t].body = ientry[t].body /\ ientry'[t].manifest = TRUE
      BY <3>3, InstallEntries
    <3>5. \A u \in ijob'.done \ imoved' :
             ientry'[u].body = isource'.body /\ ientry'[u].manifest = TRUE
      <4>1. ASSUME NEW u \in ijob'.done \ imoved', u # t
            PROVE  ientry'[u].body = isource'.body /\ ientry'[u].manifest = TRUE
        BY <1>t, <2>0, <2>1, <3>1, <3>2, <3>3, <4>1
      <4>2. t \notin imoved' => ientry'[t].body = isource'.body
        BY <1>t, <2>1, <3>2, <3>4
      <4> QED
        BY <3>4, <4>1, <4>2
    <3>6. \A u \in ijob'.todo \ imoved' :
             ijob'.action[u] = "write_manifest" => ientry'[u].body = isource'.body
      BY <1>t, <2>0, <2>1, <3>1, <3>2, <3>3
    <3> QED
      BY <3>1, <3>5, <3>6 DEF I!Copying
  <2>4. ASSUME NEW t \in Tools, I!CopyToTemp(t) PROVE Same
    <3>1. ientry' = ientry /\ imoved' = imoved
      BY <2>4 DEF I!CopyToTemp
    <3> QED
      BY <1>0, <1>t, <2>1, <2>4, <3>1, InstallJobMoves, InstallPacked
  <2>5. CASE I!BackUp
    <3>1. /\ ijob.at \in ijob.todo /\ ijob.action[ijob.at] # "write_manifest"
          /\ ientry' = ientry /\ imoved' = imoved \ {ijob.at} /\ I!Copying
      BY <2>5, InstallAt DEF I!BackUp, I!Copying, I!Copies
    <3>2. /\ ijob'.temp = ijob.temp /\ ijob'.todo = ijob.todo /\ ijob'.done = ijob.done
          /\ ijob'.action = ijob.action
      BY <1>0, <2>5, InstallJobMoves
    <3> QED
      BY <1>t, <2>0, <2>1, <3>1, <3>2
  <2>6. CASE I!Remove
    <3>1. /\ ijob.at \in ijob.todo /\ ijob.action[ijob.at] # "write_manifest"
          /\ imoved' = imoved /\ I!Copying
          /\ \A u \in Tools \ {ijob.at} : ientry'[u] = ientry[u]
      BY <2>6, InstallAt, InstallMoves DEF I!Remove, I!Copying, I!Copies
    <3>2. /\ ijob'.temp = ijob.temp /\ ijob'.todo = ijob.todo /\ ijob'.done = ijob.done
          /\ ijob'.action = ijob.action
      BY <1>0, <2>6, InstallJobMoves
    <3> QED
      BY <1>t, <2>0, <2>1, <3>1, <3>2
  <2>7. CASE I!Replace
    <3>1. /\ ijob.at \in ijob.todo /\ imoved' = imoved /\ I!Copying
          /\ ientry'[ijob.at] = ijob.temp
          /\ \A u \in Tools \ {ijob.at} : ientry'[u] = ientry[u]
          /\ ijob.temp \in I!Entry \ {Absent}
      BY <2>7, InstallAt, InstallMoves DEF I!Replace, I!Copying
    <3>2. /\ ijob'.step = "targets" /\ ijob'.todo = ijob.todo \ {ijob.at}
          /\ ijob'.done = ijob.done \cup {ijob.at} /\ ijob'.action = ijob.action
      BY <1>0, <2>7, InstallJobMoves
    <3>3. ijob.temp.manifest = TRUE /\ ijob.temp.body = isource.body
      BY <2>1, <3>1, InstallEntries
    <3> QED
      BY <1>t, <2>0, <2>1, <3>1, <3>2, <3>3 DEF I!Copying
  <2>8. ASSUME NEW t \in Tools, NEW e \in ToolEdits, I!EditEntry(t, e) PROVE Same
    <3>1. /\ ijob' = ijob /\ imoved \cup {t} \subseteq imoved'
          /\ \A u \in Tools \ {t} : ientry'[u] = ientry[u]
      BY <2>8, InstallMoves
    <3> QED
      BY <1>t, <2>0, <2>1, <3>1 DEF I!Copying
  <2>9. ASSUME NEW v \in Versions, NEW secret \in BOOLEAN, I!EditSource(v, secret) PROVE FALSE
    BY <2>9, InstallMoves
  <2> QED
    BY <1>1, <1>2, <1>3, <2>2, <2>3, <2>4, <2>5, <2>6, <2>7, <2>8, <2>9
    DEF I!Next, ivars, I!WriteRecord, I!InstallFails, I!MoveAside, I!MoveFails
<1> QED
  BY <1>1, <1>2, <1>4, InstallMoved

LEMMA InstallInvInit == I!Init => I!InstallInv
<1> SUFFICES ASSUME I!Init PROVE I!InstallInv
  OBVIOUS
<1>1. /\ ientry \in [Tools -> I!Entry \cup {I!NoRoot}] /\ isource \in I!Source
      /\ ijob = I!Idle /\ imoved = {}
  BY InstallAssumption DEF I!Init
<1>2. I!InstallTypeOK
  BY <1>1, InstallStart, LocalBoundAssumption DEF I!Init, I!InstallTypeOK, I!Counts
<1>3. I!Tied
  BY <1>1, InstallAssumption DEF I!Init, I!Tied
<1>4. I!TargetsAreSound
  BY <1>1, InstallStart DEF I!TargetsAreSound, I!Copying, I!Copies
<1>5. I!KeptFirst /\ I!NoSecrets /\ I!LinksSpared /\ I!AsTheSource
  BY <1>1, InstallStart DEF I!KeptFirst, I!NoSecrets, I!LinksSpared, I!AsTheSource, I!Copying
<1> QED
  BY <1>2, <1>3, <1>4, <1>5 DEF I!InstallInv

LEMMA InstallInvNext == I!InstallInv /\ [I!Next]_ivars => I!InstallInv'
BY InstallTypeNext, InstallTargetsNext, InstallKeptNext, InstallSecretsNext, InstallLinksNext,
   InstallSourceNext
DEF I!InstallInv

\* However installations, removals, failures and edits follow each other: what
\* is removed is in the backup first, no secret is being copied, and what an
\* installation did is as the source (local_skill.py).
THEOREM InstallInvariance == I!Spec => []I!InstallInv
<1>1. I!Init => I!InstallInv
  BY InstallInvInit
<1>2. I!InstallInv /\ [I!Next]_I!vars => I!InstallInv'
  BY InstallInvNext DEF ivars, I!vars
<1> QED
  BY <1>1, <1>2, PTL DEF I!Spec

LEMMA InstallTakenOut ==
    ASSUME I!InstallInv, [I!Next]_I!vars, NEW t \in Tools,
           ijob # I!Idle, icounts' = icounts, t \notin imoved,
           ientry[t] # Absent, ientry'[t] = Absent
    PROVE  {I!Directory(ientry[t]), ientry[t]} \cap ibackups'[t] # {}
<1>0. I!InstallTypeOK /\ I!KeptFirst
  BY DEF I!InstallInv
<1>t. icounts \in I!Counts /\ ibackups \in [Tools -> SUBSET (I!Entry \ {Absent})]
  BY <1>0, InstallTyped
<1>1. CASE I!Remove
  <2>1. t = ijob.at /\ ijob.step = "remove" /\ ibackups' = ibackups
    BY <1>1, InstallMoves DEF I!Remove
  <2>2. I!Directory(ientry[t]) \in ibackups[t]
    BY <1>0, <2>1 DEF I!KeptFirst
  <2> QED
    BY <2>1, <2>2
<1>2. CASE I!MoveAside
  <2>1. t = ijob.at
    BY <1>2, InstallMoves
  <2>2. ientry[t] \in ibackups'[t]
    BY <1>2, <1>t, <2>1 DEF I!MoveAside, I!Moved
  <2> QED
    BY <2>2
<1>3. CASE I!Replace
  BY <1>3, InstallMoves, InstallAt DEF I!Replace, I!Copying
<1>4. ASSUME NEW u \in Tools, I!WriteManifest(u) PROVE FALSE
  <2>1. /\ ientry[u] \in I!Entry \ {Absent} /\ ientry'[u] = [ientry[u] EXCEPT !.manifest = TRUE]
        /\ t # u => ientry'[t] = ientry[t]
    BY <1>4, InstallMoves
  <2>2. [ientry[u] EXCEPT !.manifest = TRUE] # Absent
    BY <2>1, InstallEntries
  <2> QED
    BY <2>1, <2>2
<1>5. ASSUME NEW u \in Tools, NEW e \in ToolEdits, I!EditEntry(u, e) PROVE FALSE
  BY <1>5, <1>t, InstallMoves, LocalBoundAssumption DEF I!Counts
<1>6. ASSUME ientry' = ientry PROVE FALSE
  BY <1>6
<1> QED
  BY <1>1, <1>2, <1>3, <1>4, <1>5, <1>6
  DEF I!Next, I!vars, I!Install, I!CopyToTemp, I!BackUp, I!WriteRecord, I!InstallFails,
      I!Uninstall, I!MoveFails, I!EditSource

LEMMA InstallSecretsStay ==
    ASSUME I!InstallInv, [I!Next]_I!vars, NEW t \in Tools,
           ijob # I!Idle, icounts' = icounts, ientry'[t] # ientry[t],
           ientry'[t] # Absent, ientry'[t].secret
    PROVE  ientry[t] # Absent \/ "source" \in imoved
<1>t. icounts \in I!Counts
  BY InstallTyped DEF I!InstallInv
<1>1. CASE I!Replace
  <2>1. ientry'[t] = ijob.temp /\ I!Copying
    BY <1>1, InstallMoves DEF I!Replace, I!Copying
  <2> QED
    BY <2>1 DEF I!InstallInv, I!NoSecrets
<1>2. ASSUME NEW u \in Tools, I!WriteManifest(u) PROVE ientry[t] # Absent
  BY <1>2, InstallMoves
<1>3. ASSUME I!Remove \/ I!MoveAside PROVE FALSE
  BY <1>3, InstallMoves
<1>5. ASSUME NEW u \in Tools, NEW e \in ToolEdits, I!EditEntry(u, e) PROVE FALSE
  BY <1>5, <1>t, InstallMoves, LocalBoundAssumption DEF I!Counts
<1>6. ASSUME ientry' = ientry PROVE FALSE
  BY <1>6
<1> QED
  BY <1>1, <1>2, <1>3, <1>5, <1>6
  DEF I!Next, I!vars, I!Install, I!CopyToTemp, I!BackUp, I!WriteRecord, I!InstallFails,
      I!Uninstall, I!MoveFails, I!EditSource

LEMMA InstallRecorded ==
    ASSUME I!InstallInv, [I!Next]_I!vars, NEW set \in irecords' \ irecords, NEW t \in set \ imoved
    PROVE  "source" \in imoved \/ I!Hash(ientry[t]) = I!Desired
<1>1. I!WriteRecord
  BY DEF I!Next, I!vars, I!Install, I!WriteManifest, I!CopyToTemp, I!BackUp, I!Remove, I!Replace,
         I!InstallFails, I!Uninstall, I!MoveAside, I!MoveFails, I!EditEntry, I!EditSource, I!Others
<1>2. set = ijob.done
  BY <1>1 DEF I!WriteRecord
<1> QED
  BY <1>2 DEF I!InstallInv, I!AsTheSource

\* Installing a skill or taking one out loses nothing that was there, brings no
\* secret in, leaves the links that fan-out keeps, and its record is true, as
\* long as nobody else touched what it is about (local_skill.py:97-482,
\* operator_executor.py:309-318).
THEOREM InstallKeepsContentEver == LocalSpec => InstallKeepsContent
<1>1. I!InstallInv /\ [I!Next]_I!vars =>
         [\A t \in Tools :
            ijob # I!Idle /\ icounts' = icounts /\ t \notin imoved
            /\ ientry[t] # Absent /\ ientry'[t] = Absent
               => {I!Directory(ientry[t]), ientry[t]} \cap ibackups'[t] # {}]_I!vars
  BY InstallTakenOut
<1>2. I!InstallInv /\ [I!Next]_I!vars =>
         [\A t \in Tools :
            ijob # I!Idle /\ icounts' = icounts /\ ientry'[t] # ientry[t]
            /\ ientry'[t] # Absent /\ ientry'[t].secret
               => ientry[t] # Absent \/ "source" \in imoved]_I!vars
  BY InstallSecretsStay
<1>3. I!InstallInv /\ [I!Next]_I!vars =>
         [\A t \in Tools \ {Sidecar} :
            ijob.step = "remove" /\ t = ijob.at
            /\ ijob.was[t] # Absent /\ ijob.was[t].kind = "canonical"
               => t \in imoved \/ ientry[t].kind # "canonical"]_I!vars
  BY InstallAt DEF I!InstallInv, I!LinksSpared, I!Copying
<1>4. I!InstallInv /\ [I!Next]_I!vars =>
         [\A set \in irecords' \ irecords : \A t \in set \ imoved :
            "source" \in imoved \/ I!Hash(ientry[t]) = I!Desired]_I!vars
  BY InstallRecorded
<1> QED
  BY <1>1, <1>2, <1>3, <1>4, InstallInvariance, PTL
  DEF LocalSpec, InstallKeepsContent, I!Spec, I!TakenOutIsKept, I!SecretsStay,
      I!FanoutLinksStay, I!RecordedIsInstalled

-----------------------------------------------------------------------------
(* hub_import.py *)

LEMMA ImportStart ==
    /\ H!Idle \in H!Job
    /\ H!NoPackage \in H!Package
    /\ Absent \notin Versions /\ Absent \notin H!Items
    /\ Absent \in H!Entry /\ Absent \in H!Held /\ H!Held \subseteq H!Entry
    /\ \A v \in Versions :
          H!Dir(v) \in H!Held /\ H!Dir(v) \notin {H!HubLink, Absent} /\ H!Dir(v).content = v
    /\ H!HubLink # Absent
    /\ H!Idle.step = "idle" /\ H!Idle.done = {} /\ H!Idle.todo = {}
<1>1. H!Idle \in H!Job
  <2>1. [i \in H!Items |-> Absent] \in [H!Items -> H!Contents]
    BY DEF H!Contents
  <2> QED
    BY <2>1 DEF H!Idle, H!Job, H!Contents
<1>2. H!NoPackage \in H!Package
  BY DEF H!NoPackage, H!Package, H!Contents
<1>3. Absent \notin Versions /\ Absent \notin H!Items
  BY ImportAssumption DEF H!Items
<1>4. \A v \in Versions :
         H!Dir(v) \in H!Held /\ H!Dir(v) \notin {H!HubLink, Absent} /\ H!Dir(v).content = v
  BY ImportAssumption DEF H!Dir, H!HubLink, H!Held, H!Contents
<1>5. H!HubLink # Absent
  BY ImportAssumption DEF H!HubLink, H!Contents
<1>6. Absent \in H!Entry /\ Absent \in H!Held /\ H!Held \subseteq H!Entry
  BY DEF H!Entry, H!Held
<1> QED
  BY <1>1, <1>2, <1>3, <1>4, <1>5, <1>6 DEF H!Idle

LEMMA ImportTyped ==
    ASSUME H!ImportTypeOK
    PROVE  /\ hhub \in [Skills -> H!Held] /\ hroots \in [HubRoots -> [Skills -> H!Entry]]
           /\ hpackage \in H!Package /\ hjob \in [Processes -> H!Job]
           /\ himported \in [Processes -> SUBSET H!Items]
           /\ hmoved \subseteq Skills /\ hcounts \in H!Counts
BY DEF H!ImportTypeOK

\* What can be scanned has content, which is a version.
LEMMA ImportContents ==
    ASSUME H!ImportTypeOK, NEW i \in H!Items
    PROVE  /\ i[1] \in HubRoots /\ i[2] \in Skills
           /\ i \in H!Seen => H!ContentOf(i) \in Versions
           /\ i \in H!Seen /\ hhub[i[2]] = Absent =>
                 hroots[i[1]][i[2]] = H!Dir(H!ContentOf(i))
<1>1. i[1] \in HubRoots /\ i[2] \in Skills
  BY DEF H!Items
<1>2. hroots[i[1]][i[2]] \in H!Entry /\ hhub[i[2]] \in H!Held
  BY <1>1 DEF H!ImportTypeOK
<1>3. CASE hroots[i[1]][i[2]] = H!HubLink
  <2>1. H!ContentOf(i) = IF hhub[i[2]] = Absent THEN Absent ELSE hhub[i[2]].content
    BY <1>3 DEF H!ContentOf
  <2>2. hhub[i[2]] # Absent => hhub[i[2]].content \in Versions
    BY <1>2, ImportStart DEF H!Held
  <2>3. i \in H!Seen => hhub[i[2]] # Absent
    BY <1>3 DEF H!Seen
  <2> QED
    BY <1>1, <2>1, <2>2, <2>3, <1>3
<1>4. CASE hroots[i[1]][i[2]] # H!HubLink /\ hroots[i[1]][i[2]] # Absent
  <2>1. PICK v \in Versions : hroots[i[1]][i[2]] = H!Dir(v)
    BY <1>2, <1>4 DEF H!Entry
  <2>2. H!ContentOf(i) = v
    BY <1>4, <2>1, ImportStart DEF H!ContentOf
  <2> QED
    BY <1>1, <2>1, <2>2
<1>5. CASE hroots[i[1]][i[2]] = Absent
  <2>1. i \notin H!Seen
    BY <1>5 DEF H!Seen, H!Found
  <2> QED
    BY <1>1, <2>1
<1> QED
  BY <1>3, <1>4, <1>5

\* What the steps of an application do to its job; the other processes' jobs
\* stay.
LEMMA ImportJobMoves ==
    ASSUME H!ImportTypeOK, H!OnTheList, NEW p \in Processes
    PROVE  /\ H!Apply(p) =>
                 /\ hjob' \in [Processes -> H!Job] /\ hjob[p] = H!Idle
                 /\ hjob'[p].step = "items" /\ hjob'[p].done = {}
                 /\ hjob'[p].todo = {i \in H!Items : H!Allowed(i)}
                 /\ \A i \in H!Items :
                       hjob'[p].hash[i] = IF i \in H!Seen THEN H!ContentOf(i) ELSE Absent
           /\ \A i \in H!Items : H!CopySource(p, i) =>
                 /\ hjob' \in [Processes -> H!Job]
                 /\ hjob'[p].step = "rename" /\ hjob'[p].at = i
                 /\ hjob'[p].content = H!ContentOf(i)
                 /\ hjob'[p].todo = hjob[p].todo /\ hjob'[p].done = hjob[p].done
           /\ H!PutInHub(p) =>
                 /\ hjob[p].at \in H!Items /\ hjob[p].content \in Versions
                 /\ hjob' \in [Processes -> H!Job] /\ hjob'[p].step = "items"
                 /\ hjob'[p].todo \subseteq hjob[p].todo
                 /\ hjob'[p].done = hjob[p].done \cup {hjob[p].at}
           /\ \A i \in H!Items : H!ItemFails(p, i) =>
                 /\ hjob[p].step # "idle" /\ hjob' \in [Processes -> H!Job]
                 /\ hjob'[p].step = "items"
                 /\ hjob'[p].todo \subseteq hjob[p].todo /\ hjob'[p].done = hjob[p].done
           /\ H!WriteRecord(p) =>
                 hjob' \in [Processes -> H!Job] /\ hjob'[p] = H!Idle
           /\ \A q \in Processes \ {p} :
                 (\/ H!Apply(p) \/ H!PutInHub(p) \/ H!WriteRecord(p)
                  \/ \E i \in H!Items : H!CopySource(p, i) \/ H!ItemFails(p, i))
                 => hjob'[q] = hjob[q]
<1>t. hjob \in [Processes -> H!Job] /\ hjob[p] \in H!Job
  BY DEF H!ImportTypeOK
<1>1. ASSUME H!Apply(p)
      PROVE  /\ hjob' \in [Processes -> H!Job] /\ hjob[p] = H!Idle
             /\ hjob'[p].step = "items" /\ hjob'[p].done = {}
             /\ hjob'[p].todo = {i \in H!Items : H!Allowed(i)}
             /\ \A i \in H!Items :
                   hjob'[p].hash[i] = IF i \in H!Seen THEN H!ContentOf(i) ELSE Absent
             /\ \A q \in Processes \ {p} : hjob'[q] = hjob[q]
  <2> DEFINE todo == {i \in H!Items : H!Allowed(i)}
             hash == [i \in H!Items |-> IF i \in H!Seen THEN H!ContentOf(i) ELSE Absent]
             new == [H!Idle EXCEPT !.step = "items", !.todo = todo, !.hash = hash]
  <2>1. hash \in [H!Items -> H!Contents]
    BY ImportContents DEF H!Contents
  <2>2. \A i \in H!Items : hash[i] = IF i \in H!Seen THEN H!ContentOf(i) ELSE Absent
    OBVIOUS
  <2>3. todo \in SUBSET H!Items
    OBVIOUS
  <2>4. hjob' = [hjob EXCEPT ![p] = new] /\ hjob[p] = H!Idle
    BY <1>1 DEF H!Apply
  <2> HIDE DEF todo, hash
  <2>5. new \in H!Job /\ new.step = "items" /\ new.done = {} /\ new.todo = todo /\ new.hash = hash
    BY <2>1, <2>3, ImportStart DEF H!Job
  <2> HIDE DEF new
  <2>6. hjob' \in [Processes -> H!Job] /\ hjob'[p] = new
        /\ \A q \in Processes \ {p} : hjob'[q] = hjob[q]
    BY <1>t, <2>4, <2>5
  <2> QED
    BY <2>2, <2>4, <2>5, <2>6 DEF todo
<1>2. ASSUME NEW i \in H!Items, H!CopySource(p, i)
      PROVE  /\ hjob' \in [Processes -> H!Job]
             /\ hjob'[p].step = "rename" /\ hjob'[p].at = i
             /\ hjob'[p].content = H!ContentOf(i)
             /\ hjob'[p].todo = hjob[p].todo /\ hjob'[p].done = hjob[p].done
             /\ \A q \in Processes \ {p} : hjob'[q] = hjob[q]
  <2> DEFINE new == [hjob[p] EXCEPT !.step = "rename", !.at = i, !.content = H!ContentOf(i)]
  <2>1. hjob' = [hjob EXCEPT ![p] = new] /\ i \in H!Seen
    BY <1>2, <1>t DEF H!CopySource
  <2>2. H!ContentOf(i) \in H!Contents
    BY <2>1, ImportContents DEF H!Contents
  <2>3. /\ new \in H!Job /\ new.step = "rename" /\ new.at = i /\ new.content = H!ContentOf(i)
        /\ new.todo = hjob[p].todo /\ new.done = hjob[p].done
    BY <1>t, <2>2 DEF H!Job
  <2> HIDE DEF new
  <2> QED
    BY <1>t, <2>1, <2>3
<1>3. ASSUME H!PutInHub(p)
      PROVE  /\ hjob[p].at \in H!Items /\ hjob[p].content \in Versions
             /\ hjob' \in [Processes -> H!Job] /\ hjob'[p].step = "items"
             /\ hjob'[p].todo \subseteq hjob[p].todo
             /\ hjob'[p].done = hjob[p].done \cup {hjob[p].at}
             /\ \A q \in Processes \ {p} : hjob'[q] = hjob[q]
  <2> DEFINE new == [hjob[p] EXCEPT !.step = "items", !.todo = @ \ {hjob[p].at},
                                    !.done = @ \cup {hjob[p].at}, !.at = Absent, !.content = Absent]
  <2>1. hjob[p].at \in hjob[p].todo /\ hjob[p].content \in Versions
    BY <1>3 DEF H!PutInHub, H!OnTheList
  <2>2. hjob' = [hjob EXCEPT ![p] = new]
    BY <1>3, <1>t DEF H!PutInHub
  <2>3. hjob[p].at \in H!Items
    BY <1>t, <2>1 DEF H!Job
  <2>4. /\ new \in H!Job /\ new.step = "items" /\ new.todo \subseteq hjob[p].todo
        /\ new.done = hjob[p].done \cup {hjob[p].at}
    BY <1>t, <2>3 DEF H!Job, H!Contents
  <2> HIDE DEF new
  <2> QED
    BY <1>t, <2>1, <2>2, <2>3, <2>4
<1>4. ASSUME NEW i \in H!Items, H!ItemFails(p, i)
      PROVE  /\ hjob[p].step # "idle" /\ hjob' \in [Processes -> H!Job]
             /\ hjob'[p].step = "items"
             /\ hjob'[p].todo \subseteq hjob[p].todo /\ hjob'[p].done = hjob[p].done
             /\ \A q \in Processes \ {p} : hjob'[q] = hjob[q]
  <2> DEFINE new == [hjob[p] EXCEPT !.step = "items", !.todo = @ \ {i},
                                    !.at = Absent, !.content = Absent]
  <2>1. hjob' = [hjob EXCEPT ![p] = new] /\ hjob[p].step # "idle"
    BY <1>4, <1>t DEF H!ItemFails
  <2>2. /\ new \in H!Job /\ new.step = "items" /\ new.todo \subseteq hjob[p].todo
        /\ new.done = hjob[p].done
    BY <1>t DEF H!Job, H!Contents
  <2> HIDE DEF new
  <2> QED
    BY <1>t, <2>1, <2>2
<1>5. ASSUME H!WriteRecord(p)
      PROVE  /\ hjob' \in [Processes -> H!Job] /\ hjob'[p] = H!Idle
             /\ \A q \in Processes \ {p} : hjob'[q] = hjob[q]
  BY <1>5, <1>t, ImportStart DEF H!WriteRecord
<1> QED
  BY <1>1, <1>2, <1>3, <1>4, <1>5

\* The package is made once; what others change they count.
LEMMA ImportPackageMoves ==
    ASSUME H!ImportTypeOK, [H!Next]_hvars
    PROVE  \/ H!Preview
           \/ hpackage' = hpackage /\ hmoved \subseteq hmoved'
<1>1. ASSUME NEW p \in Processes, H!Apply(p) PROVE hpackage' = hpackage /\ hmoved' = hmoved
  BY <1>1 DEF H!Apply
<1>2. ASSUME NEW p \in Processes, NEW i \in H!Items, H!CopySource(p, i)
      PROVE  hpackage' = hpackage /\ hmoved' = hmoved
  BY <1>2 DEF H!CopySource
<1>3. ASSUME NEW p \in Processes, NEW i \in H!Items, H!ItemFails(p, i)
      PROVE  hpackage' = hpackage /\ hmoved' = hmoved
  BY <1>3 DEF H!ItemFails
<1>4. ASSUME NEW p \in Processes, H!PutInHub(p) \/ H!WriteRecord(p)
      PROVE  hpackage' = hpackage /\ hmoved' = hmoved
  BY <1>4 DEF H!PutInHub, H!WriteRecord
<1>5. CASE UNCHANGED hvars
  BY <1>5 DEF hvars
<1>6. ASSUME NEW what, H!Others(what) PROVE hpackage' = hpackage /\ hmoved \subseteq hmoved'
  BY <1>6 DEF H!Others
<1> QED
  BY <1>1, <1>2, <1>3, <1>4, <1>5, <1>6 DEF H!Next, H!EditRoot, H!EditHub

LEMMA ImportPreviewed ==
    ASSUME H!ImportTypeOK, H!Preview
    PROVE  /\ hpackage' \in H!Package /\ hmoved' = {} /\ hroots' = hroots
           /\ \A i \in H!Items : hpackage'.actions[i] = "preview_import" =>
                 /\ H!Compatible(i[2])
                 /\ hroots[i[1]][i[2]] = H!Dir(hpackage'.hash[i])
<1> DEFINE acts == [i \in H!Items |-> H!ActionOf(i)]
           hash == [i \in H!Items |-> IF i \in H!Seen THEN H!ContentOf(i) ELSE Absent]
<1>1. acts \in [H!Items -> H!ActionNames \cup {"none"}]
  BY DEF H!ActionOf, H!ActionNames, H!Diagnose
<1>2. hash \in [H!Items -> H!Contents]
  BY ImportContents DEF H!Contents
<1>3. /\ hpackage' = [actions |-> acts, hash |-> hash]
      /\ hmoved' = {} /\ hroots' = hroots
  BY DEF H!Preview
<1>4. ASSUME NEW i \in H!Items, acts[i] = "preview_import"
      PROVE  /\ H!Compatible(i[2]) /\ hroots[i[1]][i[2]] = H!Dir(hash[i])
  <2>1. i \in H!Seen /\ H!Diagnose(i) = "importable"
    <3>1. H!Diagnose(i) \in {"already_in_hub", "not_compatible", "update_available", "importable"}
      BY DEF H!Diagnose
    <3>2. H!ActionOf(i) = "preview_import"
      BY <1>4
    <3> QED
      BY <3>1, <3>2 DEF H!ActionOf
  <2>2. hhub[i[2]] = Absent /\ H!Compatible(i[2])
    BY <2>1 DEF H!Diagnose
  <2> QED
    BY <2>1, <2>2, ImportContents
<1> HIDE DEF acts, hash
<1>5. hpackage'.actions = acts /\ hpackage'.hash = hash /\ hpackage' \in H!Package
  BY <1>1, <1>2, <1>3 DEF H!Package
<1> QED
  BY <1>3, <1>4, <1>5

LEMMA ImportTypeNext == H!ImportInv /\ [H!Next]_hvars => H!ImportTypeOK'
<1> SUFFICES ASSUME H!ImportInv, [H!Next]_hvars PROVE H!ImportTypeOK'
  OBVIOUS
<1>t. H!ImportTypeOK /\ H!OnTheList
  BY DEF H!ImportInv
<1>u. /\ hhub \in [Skills -> H!Held] /\ hroots \in [HubRoots -> [Skills -> H!Entry]]
      /\ hpackage \in H!Package /\ hjob \in [Processes -> H!Job]
      /\ himported \in [Processes -> SUBSET H!Items]
      /\ hmoved \subseteq Skills /\ hcounts \in H!Counts
  BY <1>t, ImportTyped
<1>1. hhub' \in [Skills -> H!Held]
  <2>1. ASSUME NEW p \in Processes, H!PutInHub(p) PROVE hhub' \in [Skills -> H!Held]
    <3>1. hjob[p].at \in H!Items /\ hjob[p].content \in Versions
      BY <1>t, <2>1, ImportJobMoves
    <3>2. hjob[p].at[2] \in Skills /\ H!Dir(hjob[p].content) \in H!Held
      BY <3>1, ImportStart DEF H!Items
    <3> QED
      BY <1>u, <2>1, <3>2 DEF H!PutInHub
  <2>2. ASSUME NEW s \in Skills, NEW e \in H!Held, H!EditHub(s, e) PROVE hhub' \in [Skills -> H!Held]
    BY <1>u, <2>2 DEF H!EditHub
  <2> QED
    BY <1>u, <2>1, <2>2
    DEF H!Next, hvars, H!Preview, H!Apply, H!CopySource, H!ItemFails, H!WriteRecord, H!EditRoot
<1>2. hroots' \in [HubRoots -> [Skills -> H!Entry]]
  <2>1. ASSUME NEW s \in Skills, NEW r \in HubRoots, NEW e \in SourceEdits, H!EditRoot(r, s, e)
        PROVE  hroots' \in [HubRoots -> [Skills -> H!Entry]]
    BY <1>u, <2>1, ImportAssumption DEF H!EditRoot
  <2> QED
    BY <1>u, <2>1
    DEF H!Next, hvars, H!Preview, H!Apply, H!CopySource, H!PutInHub, H!ItemFails, H!WriteRecord,
        H!EditHub
<1>3. hpackage' \in H!Package
  BY <1>t, <1>u, ImportPackageMoves, ImportPreviewed
<1>4. hjob' \in [Processes -> H!Job]
  BY <1>t, <1>u, ImportJobMoves
  DEF H!Next, hvars, H!Preview, H!EditRoot, H!EditHub, H!Others
<1>5. himported' \in [Processes -> SUBSET H!Items]
  <2>1. ASSUME NEW p \in Processes, H!WriteRecord(p) PROVE himported' \in [Processes -> SUBSET H!Items]
    BY <1>u, <2>1 DEF H!WriteRecord, H!Recorded, H!Job
  <2> QED
    BY <1>u, <2>1
    DEF H!Next, hvars, H!Preview, H!Apply, H!CopySource, H!PutInHub, H!ItemFails, H!EditRoot,
        H!EditHub, H!Others
<1>6. hmoved' \subseteq Skills
  BY <1>u
  DEF H!Next, hvars, H!Preview, H!Apply, H!CopySource, H!PutInHub, H!ItemFails, H!WriteRecord,
      H!EditRoot, H!EditHub, H!Others
<1>7. hcounts' \in H!Counts
  <2>1. \/ hcounts' = hcounts
        \/ hcounts.failures < MaxFailures /\ hcounts' = [hcounts EXCEPT !.failures = @ + 1]
        \/ hcounts.edits < MaxSourceEdits /\ hcounts' = [hcounts EXCEPT !.edits = @ + 1]
    <3>1. ASSUME NEW p \in Processes, NEW i \in H!Items, H!ItemFails(p, i)
          PROVE  \/ hcounts' = hcounts
                 \/ hcounts.failures < MaxFailures /\ hcounts' = [hcounts EXCEPT !.failures = @ + 1]
      BY <3>1 DEF H!ItemFails
    <3> QED
      BY <3>1
      DEF H!Next, hvars, H!Preview, H!Apply, H!CopySource, H!PutInHub, H!WriteRecord,
          H!EditRoot, H!EditHub, H!Others
  <2> QED
    BY <1>u, <2>1, LocalBoundAssumption, ImportAssumption DEF H!Counts
<1> QED
  BY <1>1, <1>2, <1>3, <1>4, <1>5, <1>6, <1>7 DEF H!ImportTypeOK

LEMMA ImportShownNext == H!ImportInv /\ [H!Next]_hvars => H!SourcesAsShown'
<1> SUFFICES ASSUME H!ImportInv, [H!Next]_hvars, NEW i \in H!Items,
                    hpackage'.actions[i] = "preview_import"
             PROVE  /\ H!Compatible(i[2])
                    /\ hroots'[i[1]][i[2]] = H!Dir(hpackage'.hash[i]) \/ i[2] \in hmoved'
  BY DEF H!SourcesAsShown, H!Applicable, H!Compatible, H!Dir
<1>t. H!ImportTypeOK /\ H!SourcesAsShown /\ i[1] \in HubRoots /\ i[2] \in Skills
      /\ hroots \in [HubRoots -> [Skills -> H!Entry]]
  BY ImportTyped DEF H!ImportInv, H!Items
<1>1. CASE H!Preview
  BY <1>t, <1>1, ImportPreviewed
<1>2. CASE hpackage' = hpackage /\ hmoved \subseteq hmoved'
  <2>1. /\ H!Compatible(i[2])
        /\ hroots[i[1]][i[2]] = H!Dir(hpackage.hash[i]) \/ i[2] \in hmoved
    BY <1>t, <1>2 DEF H!SourcesAsShown, H!Applicable
  <2>2. ASSUME NEW s \in Skills, NEW r \in HubRoots, NEW e \in SourceEdits, H!EditRoot(r, s, e),
               s # i[2]
        PROVE  hroots'[i[1]][i[2]] = hroots[i[1]][i[2]]
    BY <1>t, <2>2 DEF H!EditRoot
  <2>3. hroots'[i[1]][i[2]] = hroots[i[1]][i[2]] \/ i[2] \in hmoved'
    BY <2>2
    DEF H!Next, hvars, H!Preview, H!Apply, H!CopySource, H!PutInHub, H!ItemFails, H!WriteRecord,
        H!EditRoot, H!EditHub, H!Others
  <2> QED
    BY <1>2, <2>1, <2>3
<1> QED
  BY <1>t, <1>1, <1>2, ImportPackageMoves

\* Each process is in one of its steps, while the others stay where they are.
LEMMA ImportSteps ==
    ASSUME H!ImportTypeOK, H!OnTheList, [H!Next]_hvars, NEW p \in Processes
    PROVE  \/ H!Apply(p) \/ H!PutInHub(p) \/ H!WriteRecord(p)
           \/ \E i \in H!Items : H!CopySource(p, i) \/ H!ItemFails(p, i)
           \/ hjob'[p] = hjob[p] /\ himported'[p] = himported[p]
<1>1. ASSUME NEW q \in Processes \ {p}, H!WriteRecord(q) PROVE himported'[p] = himported[p]
  BY <1>1, ImportTyped DEF H!WriteRecord
<1> DEFINE Steps(q) == \/ H!Apply(q) \/ H!PutInHub(q) \/ H!WriteRecord(q)
                       \/ \E i \in H!Items : H!CopySource(q, i) \/ H!ItemFails(q, i)
<1>2. ASSUME NEW q \in Processes \ {p}, Steps(q)
      PROVE  hjob'[p] = hjob[p] /\ himported'[p] = himported[p]
  <2>1. hjob'[p] = hjob[p]
    BY <1>2, ImportJobMoves
  <2> QED
    BY <1>1, <1>2, <2>1 DEF H!Apply, H!CopySource, H!PutInHub, H!ItemFails
<1>3. ASSUME \/ H!Preview \/ UNCHANGED hvars
             \/ \E s \in Skills : \/ \E r \in HubRoots, e \in SourceEdits : H!EditRoot(r, s, e)
                                  \/ \E e \in H!Held : H!EditHub(s, e)
      PROVE  hjob'[p] = hjob[p] /\ himported'[p] = himported[p]
  BY <1>3 DEF hvars, H!Preview, H!EditRoot, H!EditHub, H!Others
<1>4. \/ \E q \in Processes : Steps(q)
      \/ H!Preview \/ UNCHANGED hvars
      \/ \E s \in Skills : \/ \E r \in HubRoots, e \in SourceEdits : H!EditRoot(r, s, e)
                           \/ \E e \in H!Held : H!EditHub(s, e)
  BY DEF H!Next
<1> QED
  BY <1>2, <1>3, <1>4

LEMMA ImportListNext == H!ImportInv /\ [H!Next]_hvars => H!OnTheList'
<1> SUFFICES ASSUME H!ImportInv, [H!Next]_hvars, NEW p \in Processes
             PROVE  /\ hjob'[p].step = "idle" <=> hjob'[p] = H!Idle
                    /\ hjob'[p].step = "rename" =>
                          hjob'[p].at \in hjob'[p].todo /\ hjob'[p].content \in Versions
                    /\ \A i \in hjob'[p].todo : hpackage'.actions[i] = "preview_import"
                    /\ hpackage' = H!NoPackage => hjob'[p] = H!Idle /\ himported'[p] = {}
  BY DEF H!OnTheList, H!Applicable, H!Idle, H!NoPackage
<1>t. /\ H!ImportTypeOK /\ H!OnTheList
      /\ hjob[p].step = "idle" <=> hjob[p] = H!Idle
      /\ hjob[p].step = "rename" =>
            hjob[p].at \in hjob[p].todo /\ hjob[p].content \in Versions
      /\ \A i \in hjob[p].todo : hpackage.actions[i] = "preview_import"
      /\ hpackage = H!NoPackage => hjob[p] = H!Idle /\ himported[p] = {}
  BY DEF H!ImportInv, H!OnTheList, H!Applicable
<1>p. hpackage' = hpackage \/ H!Preview
  BY <1>t, ImportPackageMoves
<1>1. CASE H!Apply(p)
  <2>1. /\ hpackage' = hpackage /\ hpackage # H!NoPackage /\ himported' = himported
        /\ hjob'[p].step = "items" /\ hjob'[p].todo = {i \in H!Items : H!Allowed(i)}
    BY <1>t, <1>1, ImportJobMoves DEF H!Apply
  <2> QED
    BY <2>1, ImportStart DEF H!Allowed, H!Applicable
<1>2. ASSUME NEW i \in H!Items, H!CopySource(p, i)
      PROVE  /\ hjob'[p].step = "rename" /\ hjob'[p] # H!Idle
             /\ hjob'[p].at \in hjob'[p].todo /\ hjob'[p].content \in Versions
             /\ \A j \in hjob'[p].todo : hpackage'.actions[j] = "preview_import"
             /\ hpackage' # H!NoPackage
  <2>1. /\ hjob[p].step = "items" /\ i \in hjob[p].todo /\ i \in H!Seen /\ hpackage' = hpackage
        /\ hjob'[p].step = "rename" /\ hjob'[p].at = i
        /\ hjob'[p].content = H!ContentOf(i)
        /\ hjob'[p].todo = hjob[p].todo
    BY <1>t, <1>2, ImportJobMoves DEF H!CopySource
  <2>2. H!ContentOf(i) \in Versions
    BY <1>t, <2>1, ImportContents
  <2> QED
    BY <1>t, <2>1, <2>2, ImportStart
<1>3. ASSUME \/ H!PutInHub(p)
             \/ \E i \in H!Items : H!ItemFails(p, i)
      PROVE  /\ hjob'[p].step = "items" /\ hjob'[p] # H!Idle
             /\ \A j \in hjob'[p].todo : hpackage'.actions[j] = "preview_import"
             /\ hpackage' # H!NoPackage
  <2>1. /\ hjob[p].step # "idle" /\ hpackage' = hpackage
        /\ hjob'[p].step = "items" /\ hjob'[p].todo \subseteq hjob[p].todo
    BY <1>t, <1>3, ImportJobMoves DEF H!PutInHub, H!ItemFails
  <2> QED
    BY <1>t, <2>1, ImportStart
<1>4. CASE H!WriteRecord(p)
  <2>1. /\ hjob[p].step = "items" /\ hpackage' = hpackage /\ hjob'[p] = H!Idle
    BY <1>t, <1>4, ImportJobMoves DEF H!WriteRecord
  <2> QED
    BY <1>t, <2>1, ImportStart
<1>5. CASE hjob'[p] = hjob[p] /\ himported'[p] = himported[p]
  <2>1. CASE hpackage' = hpackage
    BY <1>t, <1>5, <2>1
  <2>2. CASE H!Preview
    <3>1. hjob'[p] = H!Idle /\ himported'[p] = {}
      BY <1>t, <1>5, <2>2 DEF H!Preview
    <3> QED
      BY <3>1, ImportStart
  <2> QED
    BY <1>p, <2>1, <2>2
<1>6. H!Idle.step # "rename" /\ H!Idle.step # "items"
  BY ImportStart
<1> QED
  BY <1>t, <1>1, <1>2, <1>3, <1>4, <1>5, <1>6, ImportSteps

LEMMA ImportCopiesNext == H!ImportInv /\ [H!Next]_hvars => H!CopiesAsShown'
<1> SUFFICES ASSUME H!ImportInv, [H!Next]_hvars, NEW p \in Processes, hjob'[p].step = "rename"
             PROVE  hjob'[p].content = hpackage'.hash[hjob'[p].at] \/ hjob'[p].at[2] \in hmoved'
  BY DEF H!CopiesAsShown
<1>t. H!ImportTypeOK /\ H!OnTheList /\ hjob[p] \in H!Job
  BY ImportTyped DEF H!ImportInv
<1>1. ASSUME NEW i \in H!Items, H!CopySource(p, i)
      PROVE  hjob'[p].content = hpackage'.hash[hjob'[p].at] \/ hjob'[p].at[2] \in hmoved'
  <2>1. /\ hjob[p].step = "items" /\ i \in hjob[p].todo /\ i \in H!Seen /\ hhub[i[2]] = Absent
        /\ hpackage' = hpackage /\ hmoved' = hmoved
        /\ hjob'[p].at = i /\ hjob'[p].content = H!ContentOf(i)
    BY <1>t, <1>1, ImportJobMoves DEF H!CopySource
  <2>2. hroots[i[1]][i[2]] = H!Dir(hpackage.hash[i]) \/ i[2] \in hmoved
    BY <2>1 DEF H!ImportInv, H!OnTheList, H!SourcesAsShown
  <2>3. hroots[i[1]][i[2]] = H!Dir(H!ContentOf(i))
    BY <1>t, <2>1, ImportContents
  <2>4. H!Dir(H!ContentOf(i)).content = H!ContentOf(i)
        /\ H!Dir(hpackage.hash[i]).content = hpackage.hash[i]
    BY DEF H!Dir
  <2> QED
    BY <2>1, <2>2, <2>3, <2>4
<1>2. CASE hjob'[p] = hjob[p]
  <2>1. ~ H!Preview
    BY <1>t, <1>2, ImportStart DEF H!OnTheList, H!Preview
  <2>2. hpackage' = hpackage /\ hmoved \subseteq hmoved'
    BY <1>t, <2>1, ImportPackageMoves
  <2>3. hjob[p].content = hpackage.hash[hjob[p].at] \/ hjob[p].at[2] \in hmoved
    BY <1>2 DEF H!ImportInv, H!CopiesAsShown
  <2> QED
    BY <1>2, <2>2, <2>3
<1>3. H!Idle.step # "rename"
  BY ImportStart
<1> QED
  BY <1>t, <1>1, <1>2, <1>3, ImportSteps, ImportJobMoves

\* What a step adds to a process's own is what it just put into the Hub.
LEMMA ImportOwnMoves ==
    ASSUME H!ImportTypeOK, H!OnTheList, [H!Next]_hvars, NEW p \in Processes
    PROVE  \/ H!Own(p)' \subseteq H!Own(p)
           \/ /\ H!PutInHub(p) /\ hjob[p].at \in H!Items
              /\ H!Own(p)' = H!Own(p) \cup {hjob[p].at}
<1>t. hjob \in [Processes -> H!Job] /\ himported \in [Processes -> SUBSET H!Items]
  BY ImportTyped
<1>1. CASE H!Apply(p)
  BY <1>1, <1>t, ImportJobMoves DEF H!Own, H!Apply
<1>2. ASSUME NEW i \in H!Items, H!CopySource(p, i) \/ H!ItemFails(p, i)
      PROVE  H!Own(p)' \subseteq H!Own(p)
  <2>1. hjob'[p].done = hjob[p].done
    BY <1>2, ImportJobMoves
  <2>2. himported' = himported
    BY <1>2 DEF H!CopySource, H!ItemFails
  <2> QED
    BY <2>1, <2>2 DEF H!Own
<1>3. CASE H!PutInHub(p)
  <2>1. hjob[p].at \in H!Items /\ hjob'[p].done = hjob[p].done \cup {hjob[p].at}
    BY <1>3, ImportJobMoves
  <2>2. himported' = himported
    BY <1>3 DEF H!PutInHub
  <2> QED
    BY <1>3, <2>1, <2>2 DEF H!Own
<1>4. CASE H!WriteRecord(p)
  <2>1. himported'[p] = hjob[p].done
    BY <1>4, <1>t DEF H!WriteRecord, H!Recorded
  <2>2. hjob'[p].done = {}
    BY <1>4, ImportJobMoves, ImportStart
  <2> QED
    BY <2>1, <2>2 DEF H!Own
<1>5. CASE hjob'[p] = hjob[p] /\ himported'[p] = himported[p]
  BY <1>5 DEF H!Own
<1> QED
  BY <1>1, <1>2, <1>3, <1>4, <1>5, ImportSteps

\* A step that is not others' takes nothing out of the Hub and replaces nothing.
LEMMA ImportHubMoves ==
    ASSUME H!ImportTypeOK, H!OnTheList, [H!Next]_hvars, NEW s \in Skills, hhub[s] # Absent
    PROVE  hhub'[s] = hhub[s] \/ (hcounts' # hcounts /\ s \in hmoved')
<1>t. /\ hhub \in [Skills -> H!Held] /\ hcounts \in H!Counts /\ hjob \in [Processes -> H!Job]
  BY ImportTyped
<1>1. ASSUME NEW p \in Processes, H!PutInHub(p) PROVE hhub'[s] = hhub[s]
  BY <1>1, <1>t DEF H!PutInHub, H!Free
<1>2. ASSUME NEW t \in Skills, NEW e \in H!Held, H!EditHub(t, e)
      PROVE  hhub'[s] = hhub[s] \/ (hcounts' # hcounts /\ s \in hmoved')
  <2>1. hcounts.edits # hcounts.edits + 1
    BY <1>t, ImportAssumption DEF H!Counts
  <2>2. hcounts' # hcounts
    BY <1>2, <1>t, <2>1 DEF H!EditHub, H!Others, H!Counts
  <2> QED
    BY <1>2, <1>t, <2>2 DEF H!EditHub, H!Others
<1> QED
  BY <1>1, <1>2
  DEF H!Next, hvars, H!Preview, H!Apply, H!CopySource, H!ItemFails, H!WriteRecord, H!EditRoot

\* Nothing is a process's own before there is a package.
LEMMA ImportNoneOwn ==
    ASSUME H!OnTheList, H!Preview, NEW p \in Processes
    PROVE  H!Own(p) = {} /\ H!Own(p)' = {}
BY ImportStart DEF H!OnTheList, H!Preview, H!Own

LEMMA ImportOwnNext == H!ImportInv /\ [H!Next]_hvars => H!OwnIsInHub' /\ H!OwnIsOwn'
<1> SUFFICES ASSUME H!ImportInv, [H!Next]_hvars PROVE H!OwnIsInHub' /\ H!OwnIsOwn'
  OBVIOUS
<1>t. /\ H!ImportTypeOK /\ H!OnTheList /\ H!OwnIsInHub /\ H!OwnIsOwn
      /\ hhub \in [Skills -> H!Held]
  BY ImportTyped DEF H!ImportInv
<1>1. CASE H!Preview
  BY <1>t, <1>1, ImportNoneOwn DEF H!OwnIsInHub, H!OwnIsOwn
<1>2. CASE hpackage' = hpackage /\ hmoved \subseteq hmoved'
  <2>1. ASSUME NEW p \in Processes, NEW i \in H!Own(p), i[2] \notin hmoved', i \in H!Items
        PROVE  hhub[i[2]] # Absent /\ hhub'[i[2]] # Absent
    <3>1. hhub[i[2]] # Absent /\ i[2] \in Skills
      BY <1>t, <1>2, <2>1 DEF H!OwnIsInHub, H!Items
    <3> QED
      BY <1>t, <2>1, <3>1, ImportHubMoves
  <2>2. \A p \in Processes : H!Own(p) \subseteq H!Items
    BY <1>t, ImportTyped DEF H!Own, H!Job
  <2>3. ASSUME NEW p \in Processes, H!PutInHub(p), hjob[p].at \in H!Items
        PROVE  /\ hhub[hjob[p].at[2]] = Absent /\ hhub'[hjob[p].at[2]] # Absent
               /\ \A q \in Processes \ {p} : H!Own(q)' \subseteq H!Own(q)
    <3>1. hjob[p].at[2] \in Skills /\ hjob[p].content \in Versions
      BY <1>t, <2>3, ImportJobMoves DEF H!Items
    <3>2. hhub[hjob[p].at[2]] = Absent /\ hhub'[hjob[p].at[2]] = H!Dir(hjob[p].content)
      BY <1>t, <2>3, <3>1 DEF H!PutInHub, H!Free
    <3>3. ASSUME NEW q \in Processes \ {p} PROVE H!Own(q)' \subseteq H!Own(q)
      <4>1. hjob'[q] = hjob[q]
        BY <1>t, <2>3, ImportJobMoves
      <4>2. himported' = himported
        BY <2>3 DEF H!PutInHub
      <4> QED
        BY <4>1, <4>2 DEF H!Own
    <3> QED
      BY <3>1, <3>2, <3>3, ImportStart
  <2>4. ASSUME NEW p \in Processes, NEW i \in H!Own(p)', i[2] \notin hmoved'
        PROVE  /\ hhub'[i[2]] # Absent
               /\ \/ i \in H!Own(p)
                  \/ H!PutInHub(p) /\ i = hjob[p].at /\ i \in H!Items
    <3>1. CASE i \in H!Own(p)
      BY <2>1, <2>2, <2>4, <3>1
    <3>2. CASE H!PutInHub(p) /\ i = hjob[p].at /\ i \in H!Items
      BY <2>3, <3>2
    <3> QED
      BY <1>t, <2>4, <3>1, <3>2, ImportOwnMoves
  <2>5. H!OwnIsInHub'
    BY <2>4 DEF H!OwnIsInHub
  <2>6. ASSUME NEW p \in Processes, NEW q \in Processes, p # q, NEW i,
               i \in H!Own(p)', i \in H!Own(q)', i[2] \notin hmoved'
        PROVE  FALSE
    <3>1. CASE i \in H!Own(p) /\ i \in H!Own(q)
      BY <1>t, <1>2, <2>6, <3>1 DEF H!OwnIsOwn
    <3>2. ASSUME NEW a \in Processes, NEW b \in Processes, a # b, i \in H!Own(b)',
                 H!PutInHub(a), i = hjob[a].at, i \in H!Items
          PROVE  FALSE
      <4>1. i \in H!Own(b)
        <5>1. H!Own(b)' \subseteq H!Own(b)
          BY <2>3, <3>2, ImportOwnMoves, <1>t
        <5> QED
          BY <3>2, <5>1
      <4> QED
        BY <2>1, <2>3, <2>6, <3>2, <4>1
    <3> QED
      BY <2>4, <2>6, <3>1, <3>2
  <2>7. H!OwnIsOwn'
    BY <2>6 DEF H!OwnIsOwn
  <2> QED
    BY <2>5, <2>7
<1> QED
  BY <1>t, <1>1, <1>2, ImportPackageMoves

LEMMA ImportInvInit == H!Init => H!ImportInv
<1> SUFFICES ASSUME H!Init PROVE H!ImportInv
  OBVIOUS
<1>1. /\ hhub \in [Skills -> H!Held] /\ hroots \in [HubRoots -> [Skills -> H!Entry]]
      /\ hpackage = H!NoPackage /\ hjob = [p \in Processes |-> H!Idle]
      /\ himported = [p \in Processes |-> {}] /\ hmoved = {}
      /\ hcounts = [edits |-> 0, failures |-> 0]
  BY ImportAssumption DEF H!Init
<1>2. hcounts \in H!Counts
  BY <1>1, LocalBoundAssumption, ImportAssumption DEF H!Counts
<1>3. H!ImportTypeOK
  BY <1>1, <1>2, ImportStart DEF H!ImportTypeOK
<1>4. \A i \in H!Items : ~ H!Applicable(i)
  BY <1>1 DEF H!Applicable, H!NoPackage
<1>5. H!OnTheList /\ H!SourcesAsShown /\ H!CopiesAsShown /\ H!OwnIsInHub /\ H!OwnIsOwn
  BY <1>1, <1>4, ImportStart
  DEF H!OnTheList, H!SourcesAsShown, H!CopiesAsShown, H!OwnIsInHub, H!OwnIsOwn, H!Own
<1> QED
  BY <1>3, <1>5 DEF H!ImportInv

LEMMA ImportInvNext == H!ImportInv /\ [H!Next]_hvars => H!ImportInv'
BY ImportTypeNext, ImportListNext, ImportShownNext, ImportCopiesNext, ImportOwnNext
DEF H!ImportInv

\* However many processes apply the package, and whatever others change in the
\* roots and in the Hub: what the package shows is there as shown or counted
\* as changed, and what two processes put into the Hub is not the same
\* (hub_import.py).
THEOREM ImportInvariance == H!Spec => []H!ImportInv
<1>1. H!Init => H!ImportInv
  BY ImportInvInit
<1>2. H!ImportInv /\ [H!Next]_H!vars => H!ImportInv'
  BY ImportInvNext DEF hvars, H!vars
<1> QED
  BY <1>1, <1>2, PTL DEF H!Spec

LEMMA ImportHubKept ==
    ASSUME H!ImportInv, [H!Next]_H!vars, NEW s \in Skills, hhub[s] # Absent,
           hcounts'.edits = hcounts.edits
    PROVE  hhub'[s] = hhub[s]
<1>t. /\ H!ImportTypeOK /\ H!OnTheList /\ hcounts \in H!Counts
  BY ImportTyped DEF H!ImportInv
<1>1. ASSUME NEW t \in Skills, NEW e \in H!Held, H!EditHub(t, e) PROVE FALSE
  BY <1>t, <1>1, ImportAssumption DEF H!EditHub, H!Others, H!Counts
<1>2. ASSUME NEW p \in Processes, H!PutInHub(p) PROVE hhub'[s] = hhub[s]
  BY <1>2, <1>t, ImportTyped DEF H!PutInHub, H!Free
<1> QED
  BY <1>1, <1>2
  DEF H!Next, H!vars, H!Preview, H!Apply, H!CopySource, H!ItemFails, H!WriteRecord, H!EditRoot

LEMMA ImportPreviewKept ==
    ASSUME H!ImportInv, [H!Next]_H!vars, NEW p \in Processes, NEW i \in H!Items,
           hjob[p].step = "rename", i = hjob[p].at, hjob'[p].step = "items", hhub' # hhub
    PROVE  /\ H!Compatible(i[2]) /\ hpackage.actions[i] = "preview_import"
           /\ hhub'[i[2]] = H!Dir(hpackage.hash[i]) \/ i[2] \in hmoved
<1>t. /\ H!ImportTypeOK /\ H!OnTheList /\ H!SourcesAsShown /\ H!CopiesAsShown
      /\ [H!Next]_hvars /\ hhub \in [Skills -> H!Held]
  BY ImportTyped DEF H!ImportInv, hvars, H!vars
<1>1. H!Applicable(i) /\ H!Compatible(i[2])
  BY <1>t DEF H!OnTheList, H!SourcesAsShown
<1>2. H!PutInHub(p)
  <2>1. hjob'[p] # hjob[p]
    OBVIOUS
  <2>2. ~ H!Apply(p) /\ ~ H!WriteRecord(p)
    BY <1>t, ImportStart DEF H!Apply, H!WriteRecord
  <2>3. ASSUME NEW j \in H!Items, H!CopySource(p, j) \/ H!ItemFails(p, j) PROVE FALSE
    BY <2>3 DEF H!CopySource, H!ItemFails
  <2> QED
    BY <1>t, <2>1, <2>2, <2>3, ImportSteps
<1>3. hhub'[i[2]] = H!Dir(hjob[p].content)
  BY <1>t, <1>2 DEF H!PutInHub, H!Items
<1>4. hjob[p].content = hpackage.hash[i] \/ i[2] \in hmoved
  BY <1>t DEF H!CopiesAsShown
<1> QED
  BY <1>1, <1>3, <1>4 DEF H!Applicable

LEMMA ImportPlanned ==
    ASSUME H!ImportInv, [H!Next]_H!vars, NEW p \in Processes,
           hjob[p] = H!Idle, hjob'[p].step = "items", NEW i \in hjob'[p].todo
    PROVE  hjob'[p].hash[i] = hpackage.hash[i]
<1>t. /\ H!ImportTypeOK /\ H!OnTheList /\ [H!Next]_hvars
  BY DEF H!ImportInv, hvars, H!vars
<1>1. H!Apply(p)
  <2>1. hjob'[p] # hjob[p]
    BY ImportStart
  <2>2. ~ H!PutInHub(p) /\ ~ H!WriteRecord(p)
    BY ImportStart DEF H!PutInHub, H!WriteRecord
  <2>3. ASSUME NEW j \in H!Items, H!CopySource(p, j) \/ H!ItemFails(p, j) PROVE FALSE
    BY <1>t, <2>3, ImportStart, ImportJobMoves DEF H!CopySource
  <2> QED
    BY <1>t, <2>1, <2>2, <2>3, ImportSteps
<1>2. i \in H!Items /\ H!Allowed(i)
  BY <1>t, <1>1, ImportJobMoves
<1> QED
  BY <1>t, <1>1, <1>2, ImportJobMoves DEF H!Allowed, H!Unchanged

LEMMA ImportRecorded ==
    ASSUME H!ImportInv, [H!Next]_H!vars, NEW p \in Processes, NEW q \in Processes, p # q,
           himported'[p] # himported[p]
    PROVE  \/ himported'[p] \cap (himported[q] \cup hjob[q].done) = {}
           \/ \E i \in himported'[p] : i[2] \in hmoved
<1>t. /\ H!ImportTypeOK /\ H!OnTheList /\ H!OwnIsOwn /\ [H!Next]_hvars
      /\ himported \in [Processes -> SUBSET H!Items]
  BY ImportTyped DEF H!ImportInv, hvars, H!vars
<1>1. H!WriteRecord(p)
  BY <1>t, ImportSteps DEF H!Apply, H!CopySource, H!PutInHub, H!ItemFails
<1>2. himported'[p] = hjob[p].done
  BY <1>t, <1>1 DEF H!WriteRecord, H!Recorded
<1> QED
  BY <1>t, <1>2 DEF H!OwnIsOwn, H!Own

\* However many processes apply one package, an import replaces nothing in the
\* Hub, takes only what the package showed and the central index wants there,
\* from sources that are as planned, and records what it put there itself
\* (hub_import.py:270-291, 719-761).
THEOREM ImportKeepsHubEver == LocalSpec => ImportKeepsHub
<1>1. H!ImportInv /\ [H!Next]_H!vars =>
         [\A s \in Skills : hhub[s] # Absent /\ hcounts'.edits = hcounts.edits
                            => hhub'[s] = hhub[s]]_H!vars
  BY ImportHubKept
<1>2. H!ImportInv /\ [H!Next]_H!vars =>
         [\A p \in Processes, i \in H!Items :
            hjob[p].step = "rename" /\ i = hjob[p].at /\ hjob'[p].step = "items"
            /\ hhub' # hhub
               => /\ H!Compatible(i[2])
                  /\ hpackage.actions[i] = "preview_import"
                  /\ hhub'[i[2]] = H!Dir(hpackage.hash[i]) \/ i[2] \in hmoved]_H!vars
  BY ImportPreviewKept
<1>3. H!ImportInv /\ [H!Next]_H!vars =>
         [\A p \in Processes : hjob[p] = H!Idle /\ hjob'[p].step = "items" =>
            \A i \in hjob'[p].todo : hjob'[p].hash[i] = hpackage.hash[i]]_H!vars
  BY ImportPlanned
<1>4. H!ImportInv /\ [H!Next]_H!vars =>
         [\A p, q \in Processes : p # q /\ himported'[p] # himported[p] =>
            himported'[p] \cap (himported[q] \cup hjob[q].done) = {}
            \/ \E i \in himported'[p] : i[2] \in hmoved]_H!vars
  BY ImportRecorded
<1> QED
  BY <1>1, <1>2, <1>3, <1>4, ImportInvariance, PTL
  DEF LocalSpec, ImportKeepsHub, H!Spec, H!HubIsNotOverwritten, H!ImportedAsPreviewed,
      H!SourceAsPlanned, H!RecordIsOwn

-----------------------------------------------------------------------------
(* legacy_skillshub_migration.py *)

LEMMA LegacyStart ==
    /\ L!Idle \in L!Job /\ L!Idle.step = "idle" /\ L!Idle.left = <<>> /\ L!Idle.todo = {}
    /\ L!NoRecord \in L!Record /\ L!NoRecord.applied = <<>> /\ L!NoRecord.status = "none"
    /\ Absent \in L!Entry /\ L!Links \subseteq L!Entry /\ L!Dirs \subseteq L!Entry
    /\ Absent \notin L!Links /\ Absent \notin L!Dirs /\ L!Links \cap L!Dirs = {}
    /\ L!Link("legacy") \in L!Links
    /\ \A v \in Versions : L!Dir(v) \in L!Dirs
    /\ Absent \notin Versions /\ Absent \notin L!Places
<1>1. L!Idle \in L!Job
  <2>1. [s \in Skills |-> Absent] \in [Skills -> L!Contents]
    BY DEF L!Contents
  <2>2. <<>> \in Seq(L!Migrated)
    OBVIOUS
  <2> QED
    BY <2>1, <2>2 DEF L!Idle, L!Job
<1>2. L!NoRecord \in L!Record
  <2>1. <<>> \in Seq(L!Migrated)
    OBVIOUS
  <2> QED
    BY <2>1 DEF L!NoRecord, L!Record
<1>3. Absent \notin L!Links /\ Absent \notin L!Dirs
  BY LegacyAssumption DEF L!Links, L!Dirs, L!Link, L!Dir, L!Contents
<1>4. L!Links \cap L!Dirs = {}
  BY DEF L!Links, L!Dirs, L!Link, L!Dir
<1>5. Absent \notin Versions /\ Absent \notin L!Places
  BY LegacyAssumption DEF L!Places
<1> QED
  BY <1>1, <1>2, <1>3, <1>4, <1>5
  DEF L!Idle, L!NoRecord, L!Entry, L!Links, L!Dirs

LEMMA LegacyTyped ==
    ASSUME L!LegacyTypeOK
    PROVE  /\ lentry \in [L!Places -> L!Entry] /\ lbefore \in [L!Places -> L!Entry]
           /\ llegacy \in [Skills -> Versions] /\ lsnapshot \in [Skills -> L!Contents]
           /\ lsaved \in [L!Places -> {Absent} \cup L!Links]
           /\ lrecords \in [L!Ids -> L!Record] /\ ljob \in L!Job
           /\ lmoved \subseteq L!Places \cup Skills /\ lcounts \in L!Counts
BY DEF L!LegacyTypeOK

\* The last item of what is left, what remains without it, and what one more
\* item adds.
LEMMA LegacyItems ==
    ASSUME NEW items \in Seq(L!Migrated)
    PROVE  /\ L!PlacesOf(items) \subseteq L!Places
           /\ L!PlacesOf(<<>>) = {}
           /\ items # <<>> =>
                 /\ L!Last(items) \in L!Migrated /\ L!Front(items) \in Seq(L!Migrated)
                 /\ Len(items) \in DOMAIN items /\ L!Last(items) = items[Len(items)]
                 /\ L!Last(items).place \in L!Places /\ L!Last(items).content \in Versions
                 /\ \A i \in DOMAIN L!Front(items) :
                       i \in DOMAIN items /\ L!Front(items)[i] = items[i]
                 /\ L!PlacesOf(items) = L!PlacesOf(L!Front(items)) \cup {L!Last(items).place}
           /\ \A item \in L!Migrated :
                 /\ Append(items, item) \in Seq(L!Migrated)
                 /\ L!PlacesOf(Append(items, item)) = L!PlacesOf(items) \cup {item.place}
<1>1. \A i \in DOMAIN items : items[i] \in L!Migrated
  OBVIOUS
<1>2. L!PlacesOf(items) \subseteq L!Places
  BY <1>1 DEF L!PlacesOf, L!Migrated
<1>3. L!PlacesOf(<<>>) = {}
  BY DEF L!PlacesOf
<1>4. ASSUME items # <<>>
      PROVE  /\ L!Last(items) \in L!Migrated /\ L!Front(items) \in Seq(L!Migrated)
             /\ Len(items) \in DOMAIN items /\ L!Last(items) = items[Len(items)]
             /\ L!Last(items).place \in L!Places /\ L!Last(items).content \in Versions
             /\ \A i \in DOMAIN L!Front(items) :
                   i \in DOMAIN items /\ L!Front(items)[i] = items[i]
             /\ L!PlacesOf(items) = L!PlacesOf(L!Front(items)) \cup {L!Last(items).place}
  <2>1. Len(items) \in Nat \ {0} /\ DOMAIN items = 1..Len(items)
    BY <1>4
  <2>2. L!Last(items) = items[Len(items)] /\ Len(items) \in DOMAIN items
    BY <2>1 DEF L!Last
  <2>3. L!Last(items) \in L!Migrated
    BY <1>1, <2>2
  <2>4. /\ L!Front(items) \in Seq(L!Migrated)
        /\ Len(L!Front(items)) = Len(items) - 1
        /\ \A i \in 1..(Len(items) - 1) : L!Front(items)[i] = items[i]
    BY <2>1 DEF L!Front
  <2>5. DOMAIN L!Front(items) = 1..(Len(items) - 1)
    BY <2>4
  <2>6. \A i \in DOMAIN L!Front(items) : i \in DOMAIN items /\ L!Front(items)[i] = items[i]
    BY <2>1, <2>4, <2>5
  <2>7. \A i \in DOMAIN items : i \in DOMAIN L!Front(items) \/ i = Len(items)
    BY <2>1, <2>5
  <2>8. L!PlacesOf(items) = L!PlacesOf(L!Front(items)) \cup {L!Last(items).place}
    BY <2>2, <2>6, <2>7 DEF L!PlacesOf
  <2>9. L!Last(items).place \in L!Places /\ L!Last(items).content \in Versions
    BY <2>3 DEF L!Migrated
  <2> QED
    BY <2>2, <2>3, <2>4, <2>6, <2>8, <2>9
<1>5. ASSUME NEW item \in L!Migrated
      PROVE  /\ Append(items, item) \in Seq(L!Migrated)
             /\ L!PlacesOf(Append(items, item)) = L!PlacesOf(items) \cup {item.place}
  <2>1. /\ Append(items, item) \in Seq(L!Migrated)
        /\ DOMAIN items = 1..Len(items) /\ Len(items) \in Nat
        /\ DOMAIN Append(items, item) = 1..(Len(items) + 1)
        /\ Append(items, item)[Len(items) + 1] = item
        /\ \A i \in 1..Len(items) : Append(items, item)[i] = items[i]
    OBVIOUS
  <2>2. \A i \in 1..(Len(items) + 1) : i \in 1..Len(items) \/ i = Len(items) + 1
    BY <2>1
  <2>3. Len(items) + 1 \in 1..(Len(items) + 1) /\ \A i \in 1..Len(items) : i \in 1..(Len(items) + 1)
    BY <2>1
  <2> QED
    BY <2>1, <2>2, <2>3 DEF L!PlacesOf
<1> QED
  BY <1>2, <1>3, <1>4, <1>5

\* Where a job is: what is at hand is a place of a skill, on the list.
LEMMA LegacyAt ==
    ASSUME L!LegacyTypeOK, L!JobIsSound
    PROVE  /\ ljob.todo \subseteq L!Places
           /\ \A p \in L!Places : p[1] \in LinkedTools /\ p[2] \in Skills
           /\ ljob.step \in {"unlink", "rename", "record"} =>
                 ljob.place \in ljob.todo /\ ljob.place \in L!Places
           /\ ljob.step # "idle" => ljob.id \in L!Ids /\ L!Applied \in Seq(L!Migrated)
           /\ ljob.left \in Seq(L!Migrated)
<1>1. ljob \in L!Job /\ lrecords \in [L!Ids -> L!Record]
  BY LegacyTyped
<1>2. ljob.todo \subseteq L!Places /\ ljob.left \in Seq(L!Migrated)
  BY <1>1 DEF L!Job
<1>3. ljob.step # "idle" => ljob.id \in L!Ids
  BY LegacyStart DEF L!JobIsSound
<1>4. \A id \in L!Ids : lrecords[id].applied \in Seq(L!Migrated)
  BY <1>1 DEF L!Record
<1> QED
  BY <1>2, <1>3, <1>4 DEF L!JobIsSound, L!AtHand, L!Applied, L!Places

\* What the steps of a migration do to its job.
LEMMA LegacyMigrates ==
    ASSUME L!LegacyTypeOK, L!JobIsSound
    PROVE  /\ \A ids \in SUBSET Skills : L!Migrate(ids) =>
                 /\ ljob' \in L!Job /\ ljob'.step = "staging" /\ ljob'.ids = ids
                 /\ ljob'.id = lcounts.migrations + 1 /\ ljob'.id \in L!Ids
                 /\ ljob'.todo = L!Planned(ids) /\ ljob'.verified = lsnapshot
           /\ L!Stage =>
                 /\ ljob' \in L!Job /\ ljob'.step = "links" /\ ljob'.staged = lsnapshot
                 /\ ljob'.todo = ljob.todo
           /\ \A p \in L!Places : L!SaveLink(p) =>
                 /\ ljob' \in L!Job /\ ljob'.step = "unlink" /\ ljob'.place = p
                 /\ ljob'.todo = ljob.todo /\ ljob'.staged = ljob.staged
           /\ L!Unlink =>
                 /\ ljob' \in L!Job /\ ljob'.step = "rename" /\ ljob'.place = ljob.place
                 /\ ljob'.todo = ljob.todo /\ ljob'.staged = ljob.staged
           /\ L!Rename =>
                 /\ ljob' \in L!Job /\ ljob'.step = "record" /\ ljob'.place = ljob.place
                 /\ ljob'.todo = ljob.todo /\ ljob'.staged = ljob.staged
           /\ L!RecordLink =>
                 /\ ljob' \in L!Job /\ ljob'.step = "links"
                 /\ ljob'.todo = ljob.todo \ {ljob.place} /\ ljob'.staged = ljob.staged
           /\ L!Stage \/ (\E p \in L!Places : L!SaveLink(p)) \/ L!Unlink \/ L!Rename
              \/ L!RecordLink =>
                 ljob'.id = ljob.id /\ ljob'.ids = ljob.ids /\ ljob'.verified = ljob.verified
<1>t. /\ ljob \in L!Job /\ lsnapshot \in [Skills -> L!Contents] /\ lcounts \in L!Counts
  BY LegacyTyped
<1>1. ASSUME NEW ids \in SUBSET Skills, L!Migrate(ids)
      PROVE  /\ ljob' \in L!Job /\ ljob'.step = "staging" /\ ljob'.ids = ids
             /\ ljob'.id = lcounts.migrations + 1 /\ ljob'.id \in L!Ids
             /\ ljob'.todo = L!Planned(ids) /\ ljob'.verified = lsnapshot
  <2>1. L!Planned(ids) \subseteq L!Places
    BY DEF L!Planned, L!Detachable
  <2> DEFINE id == lcounts.migrations + 1
             new == [L!Idle EXCEPT !.id = id, !.step = "staging", !.ids = ids,
                                   !.todo = L!Planned(ids), !.verified = lsnapshot]
  <2>2. ljob' = new /\ id \in L!Ids
    BY <1>1 DEF L!Migrate
  <2> HIDE DEF id
  <2>3. /\ new \in L!Job /\ new.step = "staging" /\ new.ids = ids /\ new.id = id
        /\ new.todo = L!Planned(ids) /\ new.verified = lsnapshot
    BY <1>t, <2>1, <2>2, LegacyStart DEF L!Job
  <2> HIDE DEF new
  <2> QED
    BY <2>2, <2>3 DEF id
<1>2. ASSUME L!Stage
      PROVE  /\ ljob' \in L!Job /\ ljob'.step = "links" /\ ljob'.staged = lsnapshot
             /\ ljob'.todo = ljob.todo
             /\ ljob'.id = ljob.id /\ ljob'.ids = ljob.ids /\ ljob'.verified = ljob.verified
  BY <1>t, <1>2 DEF L!Stage, L!Job
<1>3. ASSUME NEW p \in L!Places, L!SaveLink(p)
      PROVE  /\ ljob' \in L!Job /\ ljob'.step = "unlink" /\ ljob'.place = p
             /\ ljob'.todo = ljob.todo /\ ljob'.staged = ljob.staged
             /\ ljob'.id = ljob.id /\ ljob'.ids = ljob.ids /\ ljob'.verified = ljob.verified
  BY <1>t, <1>3 DEF L!SaveLink, L!Job
<1>4. ASSUME L!Unlink
      PROVE  /\ ljob' \in L!Job /\ ljob'.step = "rename" /\ ljob'.place = ljob.place
             /\ ljob'.todo = ljob.todo /\ ljob'.staged = ljob.staged
             /\ ljob'.id = ljob.id /\ ljob'.ids = ljob.ids /\ ljob'.verified = ljob.verified
  BY <1>t, <1>4 DEF L!Unlink, L!Job
<1>5. ASSUME L!Rename
      PROVE  /\ ljob' \in L!Job /\ ljob'.step = "record" /\ ljob'.place = ljob.place
             /\ ljob'.todo = ljob.todo /\ ljob'.staged = ljob.staged
             /\ ljob'.id = ljob.id /\ ljob'.ids = ljob.ids /\ ljob'.verified = ljob.verified
  BY <1>t, <1>5 DEF L!Rename, L!Job
<1>6. ASSUME L!RecordLink
      PROVE  /\ ljob' \in L!Job /\ ljob'.step = "links"
             /\ ljob'.todo = ljob.todo \ {ljob.place} /\ ljob'.staged = ljob.staged
             /\ ljob'.id = ljob.id /\ ljob'.ids = ljob.ids /\ ljob'.verified = ljob.verified
  BY <1>t, <1>6 DEF L!RecordLink, L!Job
<1> QED
  BY <1>1, <1>2, <1>3, <1>4, <1>5, <1>6

\* What is recorded of the link at hand.
LEMMA LegacyItem ==
    ASSUME L!LegacyTypeOK, L!JobIsSound, L!ReplacesTheSame, ljob.step = "record"
    PROVE  L!Item \in L!Migrated /\ L!Item.place = ljob.place
<1>1. ljob.place \in L!Places /\ ljob.verified[ljob.place[2]] \in Versions
  BY LegacyAt DEF L!ReplacesTheSame, L!Migrating, L!AtHand
<1> QED
  BY <1>1 DEF L!Item, L!Migrated

\* What failing, undoing and rolling back do to the job.
LEMMA LegacyUndoes ==
    ASSUME L!LegacyTypeOK, L!JobIsSound, L!ReplacesTheSame
    PROVE  /\ L!Fail =>
                 /\ ljob' \in L!Job /\ ljob'.step = "undoing" /\ ljob'.id = ljob.id
                 /\ ljob'.left = IF ljob.step = "record" THEN Append(L!Applied, L!Item)
                                 ELSE L!Applied
           /\ L!UndoApplied =>
                 /\ ljob' \in L!Job /\ ljob'.step = "undoing" /\ ljob'.id = ljob.id
                 /\ ljob'.left = L!Front(ljob.left)
           /\ \A id \in L!Ids : L!Rollback(id) =>
                 /\ ljob' \in L!Job /\ ljob'.step = "rollback" /\ ljob'.id = id
                 /\ ljob'.left = lrecords[id].applied
           /\ L!CheckMigrated =>
                 /\ ljob' \in L!Job /\ ljob'.step = "removing" /\ ljob'.id = ljob.id
                 /\ ljob'.left = ljob.left
           /\ L!RemoveMigrated =>
                 /\ ljob' \in L!Job /\ ljob'.step = "relink" /\ ljob'.id = ljob.id
                 /\ ljob'.left = ljob.left
           /\ L!Relink =>
                 /\ ljob' \in L!Job /\ ljob'.step = "rollback" /\ ljob'.id = ljob.id
                 /\ ljob'.left = L!Front(ljob.left)
<1>t. ljob \in L!Job /\ lrecords \in [L!Ids -> L!Record] /\ lsaved \in [L!Places -> {Absent} \cup L!Links]
  BY LegacyTyped
<1>1. ASSUME L!Fail
      PROVE  /\ ljob' \in L!Job /\ ljob'.step = "undoing" /\ ljob'.id = ljob.id
             /\ ljob'.left = IF ljob.step = "record" THEN Append(L!Applied, L!Item)
                             ELSE L!Applied
  <2> DEFINE left == IF ljob.step = "record" THEN Append(L!Applied, L!Item) ELSE L!Applied
  <2>1. left \in Seq(L!Migrated)
    BY <1>1, LegacyAt, LegacyItem, LegacyItems DEF L!Fail
  <2>2. ljob' = [ljob EXCEPT !.step = "undoing", !.left = left]
    BY <1>1 DEF L!Fail
  <2> HIDE DEF left
  <2>3. ljob' \in L!Job /\ ljob'.step = "undoing" /\ ljob'.id = ljob.id /\ ljob'.left = left
    BY <1>t, <2>1, <2>2 DEF L!Job
  <2> QED
    BY <2>3 DEF left
<1>2. ASSUME L!UndoApplied
      PROVE  /\ ljob' \in L!Job /\ ljob'.step = "undoing" /\ ljob'.id = ljob.id
             /\ ljob'.left = L!Front(ljob.left)
  <2> DEFINE errors == ljob.errors \/ lsaved[L!Last(ljob.left).place] = Absent
  <2>1. ljob' = [ljob EXCEPT !.left = L!Front(ljob.left), !.errors = errors] /\ ljob.step = "undoing"
    BY <1>2 DEF L!UndoApplied
  <2>2. L!Front(ljob.left) \in Seq(L!Migrated)
    BY <1>2, LegacyAt, LegacyItems DEF L!UndoApplied
  <2>3. errors \in BOOLEAN
    OBVIOUS
  <2> HIDE DEF errors
  <2> QED
    BY <1>t, <2>1, <2>2, <2>3 DEF L!Job
<1>3. ASSUME NEW id \in L!Ids, L!Rollback(id)
      PROVE  /\ ljob' \in L!Job /\ ljob'.step = "rollback" /\ ljob'.id = id
             /\ ljob'.left = lrecords[id].applied
  <2>1. lrecords[id].applied \in Seq(L!Migrated)
    BY <1>t DEF L!Record
  <2>2. ljob' = [L!Idle EXCEPT !.id = id, !.step = "rollback", !.left = lrecords[id].applied]
    BY <1>3 DEF L!Rollback
  <2> QED
    BY <1>t, <2>1, <2>2, LegacyStart DEF L!Job
<1>4. ASSUME L!RemoveMigrated
      PROVE  /\ ljob' \in L!Job /\ ljob'.step = "relink" /\ ljob'.id = ljob.id
             /\ ljob'.left = ljob.left
  BY <1>4, <1>t DEF L!RemoveMigrated, L!Job
<1>6. ASSUME L!CheckMigrated
      PROVE  /\ ljob' \in L!Job /\ ljob'.step = "removing" /\ ljob'.id = ljob.id
             /\ ljob'.left = ljob.left
  BY <1>6, <1>t DEF L!CheckMigrated, L!Job
<1>5. ASSUME L!Relink
      PROVE  /\ ljob' \in L!Job /\ ljob'.step = "rollback" /\ ljob'.id = ljob.id
             /\ ljob'.left = L!Front(ljob.left)
  <2>1. ljob.left # <<>>
    BY <1>5 DEF L!Relink, L!JobIsSound
  <2>2. L!Front(ljob.left) \in Seq(L!Migrated)
    BY <2>1, LegacyAt, LegacyItems
  <2>3. ljob' = [ljob EXCEPT !.step = "rollback", !.left = L!Front(ljob.left)]
    BY <1>5 DEF L!Relink
  <2> QED
    BY <1>t, <2>2, <2>3 DEF L!Job
<1> QED
  BY <1>1, <1>2, <1>3, <1>4, <1>5, <1>6

\* Every step is one of these; the others leave the job as it is or end it.
LEMMA LegacyJobSteps ==
    ASSUME [L!Next]_lvars
    PROVE  \/ \E ids \in SUBSET Skills : L!Migrate(ids)
           \/ L!Stage \/ L!Unlink \/ L!Rename \/ L!RecordLink
           \/ \E p \in L!Places : L!SaveLink(p)
           \/ L!Fail \/ L!UndoApplied \/ L!RemoveMigrated \/ L!Relink
           \/ L!CheckMigrated
           \/ \E id \in L!Ids : L!Rollback(id)
           \/ ljob' = L!Idle /\ lentry' = lentry /\ lmoved' = lmoved /\ lsaved' = lsaved
              /\ lbefore' = lbefore
           \/ ljob' = ljob /\ lsaved' = lsaved /\ lrecords' = lrecords /\ lbefore' = lbefore
              /\ lmoved \subseteq lmoved'
BY DEF L!Next, lvars, L!Complete, L!UndoEnds, L!RollbackStops, L!RollbackEnds, L!Crash,
       L!EditEntry, L!EditLegacy, L!Refresh, L!Others

\* What a step does to what a tool holds at one place.
LEMMA LegacyEntryMoves ==
    ASSUME L!LegacyTypeOK, L!JobIsSound, L!ReplacesTheSame, [L!Next]_lvars, NEW p \in L!Places
    PROVE  \/ lentry'[p] = lentry[p]
           \/ /\ L!Unlink /\ p = ljob.place
              /\ lentry[p] \in L!Links /\ lentry'[p] = Absent
           \/ /\ L!Rename /\ p = ljob.place /\ lentry[p] = Absent
              /\ lentry'[p] = L!Dir(ljob.staged[p[2]]) /\ lentry'[p] \in L!Dirs
           \/ /\ L!Fail /\ ljob.step = "rename" /\ p = ljob.place
              /\ lentry[p] = Absent /\ lentry'[p] = lsaved[p]
           \/ L!UndoApplied /\ p = L!Last(ljob.left).place /\ lentry'[p] = lsaved[p]
           \/ /\ L!RemoveMigrated /\ p = L!Last(ljob.left).place
              /\ lentry[p] = L!Dir(L!Last(ljob.left).content) \/ p \in lmoved
              /\ lentry'[p] = Absent
           \/ /\ L!Relink /\ p = L!Last(ljob.left).place
              /\ lentry[p] = Absent /\ lentry'[p] = lsaved[p]
           \/ p \in lmoved' /\ lcounts' # lcounts /\ ljob' = ljob /\ lcounts'.edits # lcounts.edits
<1>t. /\ lentry \in [L!Places -> L!Entry] /\ ljob \in L!Job /\ lcounts \in L!Counts
  BY LegacyTyped
<1>1. ASSUME L!Unlink
      PROVE  \/ lentry'[p] = lentry[p]
             \/ p = ljob.place /\ lentry[p] \in L!Links /\ lentry'[p] = Absent
  BY <1>t, <1>1 DEF L!Unlink, L!IsLink
<1>2. ASSUME L!Rename
      PROVE  \/ lentry'[p] = lentry[p]
             \/ /\ p = ljob.place /\ lentry[p] = Absent
                /\ lentry'[p] = L!Dir(ljob.staged[p[2]]) /\ lentry'[p] \in L!Dirs
  <2>1. ljob.staged[ljob.place[2]] \in Versions
    BY <1>2 DEF L!Rename, L!JobIsSound, L!ReplacesTheSame, L!Migrating, L!AtHand
  <2> QED
    BY <1>t, <1>2, <2>1, LegacyStart DEF L!Rename
<1>3. ASSUME L!Fail
      PROVE  \/ lentry'[p] = lentry[p]
             \/ /\ ljob.step = "rename" /\ p = ljob.place
                /\ lentry[p] = Absent /\ lentry'[p] = lsaved[p]
  <2>1. lentry' = L!PutBack
    BY <1>3 DEF L!Fail
  <2> QED
    BY <1>t, <2>1 DEF L!PutBack
<1>4. ASSUME L!UndoApplied
      PROVE  lentry'[p] = lentry[p] \/ (p = L!Last(ljob.left).place /\ lentry'[p] = lsaved[p])
  BY <1>t, <1>4 DEF L!UndoApplied
<1>5. ASSUME L!RemoveMigrated
      PROVE  \/ lentry'[p] = lentry[p]
             \/ /\ p = L!Last(ljob.left).place
                /\ lentry[p] = L!Dir(L!Last(ljob.left).content) \/ p \in lmoved
                /\ lentry'[p] = Absent
  BY <1>t, <1>5 DEF L!RemoveMigrated, L!JobIsSound, L!Unchanged
<1>6. ASSUME L!Relink
      PROVE  \/ lentry'[p] = lentry[p]
             \/ /\ p = L!Last(ljob.left).place
                /\ lentry[p] = Absent /\ lentry'[p] = lsaved[p]
  BY <1>t, <1>6 DEF L!Relink
<1>7. ASSUME NEW q \in L!Places, NEW e \in L!Entry, L!EditEntry(q, e)
      PROVE  \/ lentry'[p] = lentry[p]
             \/ p \in lmoved' /\ lcounts' # lcounts /\ ljob' = ljob /\ lcounts'.edits # lcounts.edits
  <2>1. lcounts.edits \in Nat /\ lcounts' = [lcounts EXCEPT !.edits = @ + 1]
    BY <1>t, <1>7, LocalBoundAssumption DEF L!EditEntry, L!Others, L!Counts
  <2>2. lcounts'.edits # lcounts.edits
    BY <1>t, <2>1 DEF L!Counts
  <2> QED
    BY <1>t, <1>7, <2>2 DEF L!EditEntry, L!Others
<1> QED
  BY <1>1, <1>2, <1>3, <1>4, <1>5, <1>6, <1>7
  DEF L!Next, lvars, L!Migrate, L!Stage, L!SaveLink, L!RecordLink, L!Complete, L!UndoEnds,
      L!Rollback, L!CheckMigrated, L!RollbackStops, L!RollbackEnds, L!Crash, L!EditLegacy, L!Refresh

\* What is saved stays saved; the records only grow.
LEMMA LegacySavedMoves ==
    ASSUME L!LegacyTypeOK, [L!Next]_lvars
    PROVE  \/ lsaved' = lsaved
           \/ \E p \in L!Places :
                 /\ L!SaveLink(p) /\ lentry[p] \in L!Links
                 /\ lsaved'[p] = lentry[p] /\ lsaved[p] = Absent
                 /\ \A q \in L!Places \ {p} : lsaved'[q] = lsaved[q]
<1>t. lsaved \in [L!Places -> {Absent} \cup L!Links]
  BY LegacyTyped
<1>1. ASSUME NEW p \in L!Places, L!SaveLink(p)
      PROVE  /\ lentry[p] \in L!Links
             /\ lsaved'[p] = lentry[p] /\ lsaved[p] = Absent
             /\ \A q \in L!Places \ {p} : lsaved'[q] = lsaved[q]
  BY <1>t, <1>1 DEF L!SaveLink, L!Kept, L!IsLink
<1> QED
  BY <1>1
  DEF L!Next, lvars, L!Migrate, L!Stage, L!Unlink, L!Rename, L!RecordLink, L!Complete, L!Fail,
      L!UndoApplied, L!UndoEnds, L!Rollback, L!RemoveMigrated, L!Relink, L!CheckMigrated, L!RollbackStops,
      L!RollbackEnds, L!Crash, L!EditEntry, L!EditLegacy, L!Refresh, L!Others

LEMMA LegacyRecordMoves ==
    ASSUME L!LegacyTypeOK, L!JobIsSound, L!ReplacesTheSame, [L!Next]_lvars
    PROVE  /\ lrecords' \in [L!Ids -> L!Record]
           /\ \/ \A id \in L!Ids : lrecords'[id].applied = lrecords[id].applied
              \/ /\ L!RecordLink /\ ljob.id \in L!Ids /\ L!Item \in L!Migrated
                 /\ lrecords'[ljob.id].applied = Append(lrecords[ljob.id].applied, L!Item)
                 /\ \A id \in L!Ids \ {ljob.id} : lrecords'[id].applied = lrecords[id].applied
<1>t. lrecords \in [L!Ids -> L!Record]
  BY LegacyTyped
<1>0. \A id \in L!Ids : lrecords[id] \in L!Record /\ lrecords[id].applied \in Seq(L!Migrated)
  BY <1>t DEF L!Record
<1>1. ASSUME NEW id \in L!Ids, NEW status,
             status \in {"none", "running", "complete", "rolled_back_after_failure", "failed"},
             lrecords' = [lrecords EXCEPT ![id].status = status]
      PROVE  /\ lrecords' \in [L!Ids -> L!Record]
             /\ \A other \in L!Ids : lrecords'[other].applied = lrecords[other].applied
  <2>1. /\ [lrecords[id] EXCEPT !.status = status] \in L!Record
        /\ [lrecords[id] EXCEPT !.status = status].applied = lrecords[id].applied
    BY <1>0, <1>1 DEF L!Record
  <2>2. lrecords' = [lrecords EXCEPT ![id] = [lrecords[id] EXCEPT !.status = status]]
    BY <1>t, <1>1
  <2> QED
    BY <1>t, <2>1, <2>2
<1>2. ASSUME L!RecordLink
      PROVE  /\ lrecords' \in [L!Ids -> L!Record] /\ ljob.id \in L!Ids /\ L!Item \in L!Migrated
             /\ lrecords'[ljob.id].applied = Append(lrecords[ljob.id].applied, L!Item)
             /\ \A id \in L!Ids \ {ljob.id} : lrecords'[id].applied = lrecords[id].applied
  <2>1. ljob.id \in L!Ids /\ L!Item \in L!Migrated
    BY <1>2, LegacyAt, LegacyItem DEF L!RecordLink
  <2> DEFINE new == [lrecords[ljob.id] EXCEPT !.applied = Append(@, L!Item)]
  <2>2. Append(lrecords[ljob.id].applied, L!Item) \in Seq(L!Migrated)
    BY <1>0, <2>1, LegacyItems
  <2>3. new \in L!Record /\ new.applied = Append(lrecords[ljob.id].applied, L!Item)
    BY <1>0, <2>1, <2>2 DEF L!Record
  <2>4. lrecords' = [lrecords EXCEPT ![ljob.id] = new]
    BY <1>t, <1>2, <2>1 DEF L!RecordLink
  <2> HIDE DEF new
  <2> QED
    BY <1>t, <2>1, <2>3, <2>4
<1>3. ASSUME NEW ids \in SUBSET Skills, L!Migrate(ids)
      PROVE  /\ lrecords' \in [L!Ids -> L!Record]
             /\ \A id \in L!Ids : lrecords'[id].applied = lrecords[id].applied
  BY <1>1, <1>3 DEF L!Migrate
<1>4. ASSUME L!Complete \/ L!UndoEnds
      PROVE  /\ lrecords' \in [L!Ids -> L!Record]
             /\ \A id \in L!Ids : lrecords'[id].applied = lrecords[id].applied
  <2>1. ljob.id \in L!Ids
    BY <1>4, LegacyAt DEF L!Complete, L!UndoEnds
  <2> QED
    BY <1>1, <1>4, <2>1 DEF L!Complete, L!UndoEnds
<1>5. CASE lrecords' = lrecords
  BY <1>t, <1>5
<1> QED
  BY <1>2, <1>3, <1>4, <1>5
  DEF L!Next, lvars, L!Stage, L!SaveLink, L!Unlink, L!Rename, L!Fail, L!UndoApplied,
      L!Rollback, L!RemoveMigrated, L!Relink, L!CheckMigrated, L!RollbackStops, L!RollbackEnds, L!Crash,
      L!EditEntry, L!EditLegacy, L!Refresh, L!Others

LEMMA LegacyTypeNext == L!LegacyInv /\ [L!Next]_lvars => L!LegacyTypeOK'
<1> SUFFICES ASSUME L!LegacyInv, [L!Next]_lvars PROVE L!LegacyTypeOK'
  OBVIOUS
<1>i. L!LegacyTypeOK /\ L!JobIsSound /\ L!ReplacesTheSame
  BY DEF L!LegacyInv
<1>t. /\ lentry \in [L!Places -> L!Entry] /\ lbefore \in [L!Places -> L!Entry]
      /\ llegacy \in [Skills -> Versions] /\ lsnapshot \in [Skills -> L!Contents]
      /\ lsaved \in [L!Places -> {Absent} \cup L!Links]
      /\ ljob \in L!Job /\ lmoved \subseteq L!Places \cup Skills /\ lcounts \in L!Counts
  BY <1>i, LegacyTyped
<1>1. lentry' \in [L!Places -> L!Entry]
  <2>1. /\ \A p \in L!Places : lsaved[p] \in L!Entry
        /\ \A v \in Versions : L!Dir(v) \in L!Entry
        /\ Absent \in L!Entry
    BY <1>t, LegacyStart
  <2>2. ASSUME L!Unlink PROVE lentry' \in [L!Places -> L!Entry]
    BY <1>t, <2>1, <2>2 DEF L!Unlink
  <2>3. ASSUME L!Rename PROVE lentry' \in [L!Places -> L!Entry]
    <3>1. ljob.staged[ljob.place[2]] \in Versions
      BY <1>i, <2>3 DEF L!Rename, L!JobIsSound, L!ReplacesTheSame, L!Migrating, L!AtHand
    <3> QED
      BY <1>t, <2>1, <2>3, <3>1 DEF L!Rename
  <2>4. ASSUME L!Fail PROVE lentry' \in [L!Places -> L!Entry]
    <3>1. ljob.step = "rename" => lsaved[ljob.place] \in L!Entry
      BY <1>i, <2>1, LegacyAt
    <3>2. lentry' = L!PutBack
      BY <2>4 DEF L!Fail
    <3> QED
      BY <1>t, <3>1, <3>2 DEF L!PutBack
  <2>5. ASSUME L!UndoApplied \/ L!RemoveMigrated \/ L!Relink PROVE lentry' \in [L!Places -> L!Entry]
    <3>1. L!Last(ljob.left).place \in L!Places
      BY <1>i, <2>5, LegacyAt, LegacyItems DEF L!UndoApplied, L!RemoveMigrated, L!Relink, L!JobIsSound
    <3> QED
      BY <1>t, <2>1, <2>5, <3>1 DEF L!UndoApplied, L!RemoveMigrated, L!Relink
  <2>6. ASSUME NEW p \in L!Places, NEW e \in L!Entry, L!EditEntry(p, e)
        PROVE  lentry' \in [L!Places -> L!Entry]
    BY <1>t, <2>6 DEF L!EditEntry
  <2> QED
    BY <1>t, <2>2, <2>3, <2>4, <2>5, <2>6
    DEF L!Next, lvars, L!Migrate, L!Stage, L!SaveLink, L!RecordLink, L!Complete, L!UndoEnds,
        L!Rollback, L!CheckMigrated, L!RollbackStops, L!RollbackEnds, L!Crash, L!EditLegacy, L!Refresh
<1>2. lbefore' \in [L!Places -> L!Entry]
  BY <1>t
  DEF L!Next, lvars, L!Migrate, L!Stage, L!SaveLink, L!Unlink, L!Rename, L!RecordLink, L!Complete,
      L!Fail, L!UndoApplied, L!UndoEnds, L!Rollback, L!RemoveMigrated, L!Relink, L!CheckMigrated, L!RollbackStops,
      L!RollbackEnds, L!Crash, L!EditEntry, L!EditLegacy, L!Refresh, L!Others
<1>3. llegacy' \in [Skills -> Versions] /\ lsnapshot' \in [Skills -> L!Contents]
  <2>1. ASSUME NEW s \in Skills, NEW v \in Versions, L!EditLegacy(s, v) \/ L!Refresh(s, v)
        PROVE  llegacy' \in [Skills -> Versions] /\ lsnapshot' \in [Skills -> L!Contents]
    BY <1>t, <2>1 DEF L!EditLegacy, L!Refresh, L!Contents
  <2> QED
    BY <1>t, <2>1
    DEF L!Next, lvars, L!Migrate, L!Stage, L!SaveLink, L!Unlink, L!Rename, L!RecordLink,
        L!Complete, L!Fail, L!UndoApplied, L!UndoEnds, L!Rollback, L!RemoveMigrated, L!Relink,
        L!CheckMigrated, L!RollbackStops, L!RollbackEnds, L!Crash, L!EditEntry
<1>4. lsaved' \in [L!Places -> {Absent} \cup L!Links]
  <2>1. ASSUME NEW p \in L!Places, L!SaveLink(p) PROVE lsaved' \in [L!Places -> {Absent} \cup L!Links]
    BY <1>t, <2>1 DEF L!SaveLink, L!Kept, L!IsLink
  <2> QED
    BY <1>t, <1>i, <2>1, LegacySavedMoves
<1>5. ljob' \in L!Job
  BY <1>i, <1>t, LegacyStart, LegacyJobSteps, LegacyMigrates, LegacyUndoes
<1>6. lmoved' \subseteq L!Places \cup Skills
  BY <1>t
  DEF L!Next, lvars, L!Migrate, L!Stage, L!SaveLink, L!Unlink, L!Rename, L!RecordLink, L!Complete,
      L!Fail, L!UndoApplied, L!UndoEnds, L!Rollback, L!RemoveMigrated, L!Relink, L!CheckMigrated, L!RollbackStops,
      L!RollbackEnds, L!Crash, L!EditEntry, L!EditLegacy, L!Refresh, L!Others
<1>7. lcounts' \in L!Counts
  <2>1. \/ lcounts' = lcounts
        \/ \E id \in L!Ids : lcounts' = [lcounts EXCEPT !.migrations = id]
        \/ lcounts.failures < MaxFailures /\ lcounts' = [lcounts EXCEPT !.failures = @ + 1]
        \/ lcounts.edits < MaxEdits /\ lcounts' = [lcounts EXCEPT !.edits = @ + 1]
    BY DEF L!Next, lvars, L!Migrate, L!Stage, L!SaveLink, L!Unlink, L!Rename, L!RecordLink,
           L!Complete, L!Fail, L!UndoApplied, L!UndoEnds, L!Rollback, L!RemoveMigrated, L!Relink,
           L!CheckMigrated, L!RollbackStops, L!RollbackEnds, L!Crash, L!EditEntry, L!EditLegacy, L!Refresh, L!Others
  <2> QED
    BY <1>t, <2>1, LocalBoundAssumption DEF L!Counts
<1> QED
  BY <1>i, <1>1, <1>2, <1>3, <1>4, <1>5, <1>6, <1>7, LegacyRecordMoves DEF L!LegacyTypeOK

LEMMA LegacySoundNext == L!LegacyInv /\ [L!Next]_lvars => L!JobIsSound'
<1> SUFFICES ASSUME L!LegacyInv, [L!Next]_lvars PROVE L!JobIsSound'
  OBVIOUS
<1>i. L!LegacyTypeOK /\ L!JobIsSound /\ L!ReplacesTheSame
  BY DEF L!LegacyInv
<1>a. /\ ljob # L!Idle <=> ljob.step # "idle"
      /\ ljob.step # "idle" => ljob.id \in L!Ids
  BY <1>i, LegacyStart DEF L!JobIsSound
<1>1. ASSUME \/ \E ids \in SUBSET Skills : L!Migrate(ids)
             \/ L!Stage \/ L!RecordLink \/ L!Fail \/ L!UndoApplied
             \/ \E id \in L!Ids : L!Rollback(id)
             \/ L!Relink
      PROVE  L!JobIsSound'
  <2>1. ljob'.step \in {"staging", "links", "undoing", "rollback"} /\ ljob'.id \in L!Ids
    BY <1>1, <1>i, <1>a, LegacyMigrates, LegacyUndoes
    DEF L!Stage, L!RecordLink, L!Fail, L!UndoApplied, L!Relink
  <2> QED
    BY <2>1, LegacyStart DEF L!JobIsSound, L!AtHand
<1>2. ASSUME NEW p \in L!Places, L!SaveLink(p) PROVE L!JobIsSound'
  <2>1. /\ ljob'.step = "unlink" /\ ljob'.id \in L!Ids
        /\ ljob'.place = p /\ p \in ljob'.todo
    BY <1>2, <1>i, <1>a, LegacyMigrates DEF L!SaveLink
  <2> QED
    BY <2>1, LegacyStart DEF L!JobIsSound, L!AtHand
<1>3. CASE L!Unlink
  <2>1. /\ ljob'.step = "rename" /\ ljob'.id \in L!Ids
        /\ ljob'.place = ljob.place /\ ljob'.place \in ljob'.todo
    BY <1>3, <1>i, <1>a, LegacyMigrates, LegacyAt DEF L!Unlink
  <2>2. lentry'[ljob.place] = Absent
    BY <1>3, <1>i, LegacyTyped, LegacyAt DEF L!Unlink
  <2> QED
    BY <2>1, <2>2, LegacyStart DEF L!JobIsSound, L!AtHand
<1>4. CASE L!Rename
  <2>1. /\ ljob'.step = "record" /\ ljob'.id \in L!Ids
        /\ ljob'.place = ljob.place /\ ljob'.place \in ljob'.todo
    BY <1>4, <1>i, <1>a, LegacyMigrates, LegacyAt DEF L!Rename
  <2>2. ljob.staged[ljob.place[2]] \in Versions
    BY <1>i, <1>4 DEF L!Rename, L!JobIsSound, L!ReplacesTheSame, L!Migrating, L!AtHand
  <2>3. lentry'[ljob.place] \in L!Dirs
    BY <1>4, <1>i, <2>2, LegacyTyped, LegacyAt, LegacyStart DEF L!Rename
  <2> QED
    BY <2>1, <2>3, LegacyStart DEF L!JobIsSound, L!AtHand
<1>5. CASE L!RemoveMigrated
  <2>1. ljob'.step = "relink" /\ ljob'.id \in L!Ids /\ ljob'.left # <<>>
    BY <1>5, <1>i, <1>a, LegacyUndoes DEF L!RemoveMigrated, L!JobIsSound
  <2> QED
    BY <2>1, LegacyStart DEF L!JobIsSound, L!AtHand
<1>9. CASE L!CheckMigrated
  <2>1. ljob'.step = "removing" /\ ljob'.id \in L!Ids /\ ljob'.left # <<>>
    BY <1>9, <1>i, <1>a, LegacyUndoes DEF L!CheckMigrated
  <2>2. L!Unchanged(L!Last(ljob.left)) /\ lentry' = lentry /\ ljob'.left = ljob.left
    BY <1>9, <1>i, LegacyUndoes DEF L!CheckMigrated
  <2>3. L!Unchanged(L!Last(ljob.left))'
    BY <2>2 DEF L!Unchanged, L!Last
  <2> QED
    BY <2>1, <2>3, LegacyStart DEF L!JobIsSound, L!AtHand
<1>6. CASE ljob' = L!Idle
  BY <1>6, LegacyStart DEF L!JobIsSound, L!AtHand
<1>7. ASSUME ljob' = ljob, lmoved \subseteq lmoved', ljob.step # "idle" PROVE L!JobIsSound'
  <2>1. CASE ljob.step \in {"rename", "record"}
    <3>1. /\ ljob.place \in L!Places
          /\ ljob.step = "rename" => lentry[ljob.place] = Absent \/ ljob.place \in lmoved
          /\ ljob.step = "record" => lentry[ljob.place] \in L!Dirs \/ ljob.place \in lmoved
      BY <1>i, <2>1, LegacyAt DEF L!JobIsSound
    <3>2. lentry'[ljob.place] = lentry[ljob.place] \/ ljob.place \in lmoved'
      <4>1. ljob' = ljob => ~ (L!Unlink \/ L!Rename \/ L!Fail \/ L!UndoApplied \/ L!RemoveMigrated
                               \/ L!Relink)
        BY <1>i, <2>1, LegacyMigrates, LegacyUndoes
        DEF L!Unlink, L!Rename, L!Fail, L!UndoApplied, L!RemoveMigrated, L!Relink
      <4> QED
        BY <1>i, <1>7, <3>1, <4>1, LegacyEntryMoves
    <3> QED
      BY <1>i, <1>7, <2>1, <3>1, <3>2 DEF L!JobIsSound, L!AtHand
  <2>2. CASE ljob.step = "removing"
    <3>1. /\ ljob.left # <<>> /\ L!Last(ljob.left).place \in L!Places
          /\ \/ L!Unchanged(L!Last(ljob.left))
             \/ L!Last(ljob.left).place \in lmoved
      BY <1>i, <2>2, LegacyAt, LegacyItems DEF L!JobIsSound
    <3>2. ~ (L!Unlink \/ L!Rename \/ L!Fail \/ L!UndoApplied \/ L!RemoveMigrated \/ L!Relink)
      BY <1>7, <1>i, <2>2, LegacyMigrates, LegacyUndoes
      DEF L!Unlink, L!Rename, L!Fail, L!UndoApplied, L!RemoveMigrated, L!Relink
    <3>3. lentry'[L!Last(ljob.left).place] = lentry[L!Last(ljob.left).place]
          \/ L!Last(ljob.left).place \in lmoved'
      BY <1>i, <3>1, <3>2, LegacyEntryMoves
    <3>4. L!Last(ljob.left)' = L!Last(ljob.left)
      BY <1>7 DEF L!Last
    <3>5. L!Unchanged(L!Last(ljob.left))' \/ L!Last(ljob.left)'.place \in lmoved'
      BY <1>7, <3>1, <3>3, <3>4 DEF L!Unchanged
    <3> QED
      BY <1>i, <1>7, <2>2, <3>1, <3>5 DEF L!JobIsSound, L!AtHand
  <2>3. CASE ljob.step \notin {"rename", "record", "removing"}
    BY <1>i, <1>7, <2>3 DEF L!JobIsSound, L!AtHand
  <2> QED
    BY <2>1, <2>2, <2>3
<1>8. CASE ljob' = ljob /\ ljob.step = "idle"
  BY <1>6, <1>8, <1>a
<1> QED
  BY <1>1, <1>2, <1>3, <1>4, <1>5, <1>6, <1>7, <1>8, <1>9, LegacyJobSteps

\* What a step leaves of the legacy directory and the snapshot of a skill.
LEMMA LegacySourceMoves ==
    ASSUME L!LegacyTypeOK, [L!Next]_lvars, NEW s \in Skills
    PROVE  /\ \/ llegacy'[s] = llegacy[s] /\ lsnapshot'[s] = lsnapshot[s]
              \/ s \in lmoved' /\ ljob' = ljob
           /\ lsnapshot'[s] \in Versions \/ lsnapshot'[s] = lsnapshot[s]
           /\ \/ lmoved \subseteq lmoved'
              \/ \E ids \in SUBSET Skills : L!Migrate(ids)
              \/ \E id \in L!Ids : L!Rollback(id)
              \/ L!CheckMigrated
<1>t. llegacy \in [Skills -> Versions] /\ lsnapshot \in [Skills -> L!Contents]
  BY LegacyTyped
<1>1. ASSUME NEW t \in Skills, NEW v \in Versions, L!EditLegacy(t, v) \/ L!Refresh(t, v)
      PROVE  /\ \/ llegacy'[s] = llegacy[s] /\ lsnapshot'[s] = lsnapshot[s]
                \/ s \in lmoved' /\ ljob' = ljob
             /\ lsnapshot'[s] \in Versions \/ lsnapshot'[s] = lsnapshot[s]
             /\ lmoved \subseteq lmoved'
  BY <1>t, <1>1 DEF L!EditLegacy, L!Refresh, L!Others
<1> QED
  BY <1>1
  DEF L!Next, lvars, L!Stage, L!SaveLink, L!Unlink, L!Rename, L!RecordLink,
      L!Complete, L!Fail, L!UndoApplied, L!UndoEnds, L!RemoveMigrated, L!Relink,
      L!CheckMigrated, L!RollbackStops, L!RollbackEnds, L!Crash, L!EditEntry, L!Others, L!Migrate, L!Rollback

\* What is on the list of a migration that begins.
LEMMA LegacyPlanned ==
    ASSUME L!LegacyTypeOK, NEW ids \in SUBSET Skills, L!Migrate(ids)
    PROVE  /\ \A p \in L!Planned(ids) :
                 /\ lsnapshot[p[2]] \in Versions /\ lsnapshot[p[2]] = llegacy[p[2]]
           /\ \A p \in L!Places :
                 p[2] \in ids /\ p[1] \in Declared[p[2]] /\ lentry[p] = L!Link("legacy")
                 => p \in L!Planned(ids)
<1>t. lsnapshot \in [Skills -> L!Contents]
  BY LegacyTyped
<1>1. ASSUME NEW s \in Skills, NEW p \in L!Detachable(s)
      PROVE  p[2] = s /\ lsnapshot[s] \in Versions /\ lsnapshot[s] = llegacy[s]
  <2>1. p[2] = s /\ L!CentralState(s) = "match"
    BY DEF L!Detachable
  <2>2. lsnapshot[s] # Absent /\ lsnapshot[s] = llegacy[s]
    BY <2>1 DEF L!CentralState
  <2> QED
    BY <1>t, <2>1, <2>2 DEF L!Contents
<1>2. ASSUME NEW p \in L!Planned(ids)
      PROVE  lsnapshot[p[2]] \in Versions /\ lsnapshot[p[2]] = llegacy[p[2]]
  <2>1. PICK s \in ids : p \in L!Detachable(s)
    BY DEF L!Planned
  <2> QED
    BY <1>1, <2>1
<1>3. ASSUME NEW p \in L!Places,
             p[2] \in ids, p[1] \in Declared[p[2]], lentry[p] = L!Link("legacy")
      PROVE  p \in L!Planned(ids)
  <2>1. L!CentralState(p[2]) = "match"
    <3>1. L!Detachable(p[2]) # {}
      BY <1>3 DEF L!Migrate
    <3> QED
      BY <3>1 DEF L!Detachable
  <2>2. p \in L!Detachable(p[2])
    BY <1>3, <2>1 DEF L!Detachable
  <2> QED
    BY <1>3, <2>2 DEF L!Planned
<1> QED
  BY <1>2, <1>3

LEMMA LegacySameNext == L!LegacyInv /\ [L!Next]_lvars => L!ReplacesTheSame'
<1> SUFFICES ASSUME L!LegacyInv, [L!Next]_lvars,
                    ljob'.step \in {"staging", "links", "unlink", "rename", "record"},
                    NEW p \in ljob'.todo
             PROVE  /\ ljob'.verified[p[2]] \in Versions
                    /\ ljob'.step # "staging" => ljob'.staged[p[2]] \in Versions
                    /\ \/ p[2] \in lmoved'
                       \/ ljob'.step = "staging" /\ lsnapshot'[p[2]] = llegacy'[p[2]]
                       \/ ljob'.step # "staging" /\ ljob'.staged[p[2]] = llegacy'[p[2]]
  BY DEF L!ReplacesTheSame, L!Migrating, L!AtHand
<1>i. /\ L!LegacyTypeOK /\ L!JobIsSound /\ L!ReplacesTheSame
      /\ lsnapshot \in [Skills -> L!Contents]
  BY LegacyTyped DEF L!LegacyInv
<1>b. ASSUME NEW q \in ljob.todo, ljob.step \in {"staging", "links", "unlink", "rename", "record"}
      PROVE  /\ q \in L!Places /\ q[2] \in Skills
             /\ ljob.verified[q[2]] \in Versions
             /\ ljob.step # "staging" => ljob.staged[q[2]] \in Versions
             /\ \/ q[2] \in lmoved
                \/ ljob.step = "staging" /\ lsnapshot[q[2]] = llegacy[q[2]]
                \/ ljob.step # "staging" /\ ljob.staged[q[2]] = llegacy[q[2]]
  BY <1>b, <1>i, LegacyAt DEF L!ReplacesTheSame, L!Migrating, L!AtHand
<1>1. ASSUME NEW ids \in SUBSET Skills, L!Migrate(ids)
      PROVE  /\ ljob'.verified[p[2]] \in Versions /\ ljob'.step = "staging"
             /\ lsnapshot'[p[2]] = llegacy'[p[2]]
  <2>1. ljob'.step = "staging" /\ ljob'.verified = lsnapshot /\ p \in L!Planned(ids)
    BY <1>1, <1>i, LegacyMigrates
  <2>2. lsnapshot' = lsnapshot /\ llegacy' = llegacy
    BY <1>1 DEF L!Migrate
  <2> QED
    BY <1>1, <1>i, <2>1, <2>2, LegacyPlanned
<1>2. CASE L!Stage
  <2>1. /\ ljob.step = "staging" /\ p \in ljob.todo /\ lsnapshot[p[2]] # Absent
        /\ ljob'.step = "links" /\ ljob'.staged = lsnapshot /\ ljob'.verified = ljob.verified
        /\ lmoved' = lmoved /\ llegacy' = llegacy
    BY <1>2, <1>i, LegacyMigrates DEF L!Stage
  <2>2. lsnapshot[p[2]] \in Versions
    BY <1>b, <1>i, <2>1 DEF L!Contents
  <2> QED
    BY <1>b, <2>1, <2>2
<1>3. ASSUME L!Unlink \/ L!Rename \/ L!RecordLink \/ (\E q \in L!Places : L!SaveLink(q))
      PROVE  /\ ljob'.verified[p[2]] \in Versions /\ ljob'.step # "staging"
             /\ ljob'.staged[p[2]] \in Versions
             /\ p[2] \in lmoved' \/ ljob'.staged[p[2]] = llegacy'[p[2]]
  <2>1. /\ ljob.step \in {"links", "unlink", "rename", "record"} /\ p \in ljob.todo
        /\ ljob'.step # "staging" /\ ljob'.staged = ljob.staged /\ ljob'.verified = ljob.verified
    BY <1>3, <1>i, LegacyMigrates DEF L!Unlink, L!Rename, L!RecordLink, L!SaveLink
  <2>2. lmoved' = lmoved /\ llegacy' = llegacy
    BY <1>3 DEF L!Unlink, L!Rename, L!RecordLink, L!SaveLink
  <2> QED
    BY <1>b, <2>1, <2>2
<1>4. CASE ljob' = ljob /\ lmoved \subseteq lmoved'
  <2>1. /\ p \in ljob.todo /\ ljob.step \in {"staging", "links", "unlink", "rename", "record"}
        /\ p[2] \in Skills
    BY <1>4, <1>b
  <2> QED
    BY <1>4, <1>b, <1>i, <2>1, LegacySourceMoves
<1>5. ljob' # L!Idle
  BY LegacyStart
<1>6. ASSUME L!Fail \/ L!UndoApplied \/ L!CheckMigrated \/ L!RemoveMigrated \/ L!Relink \/ \E id \in L!Ids : L!Rollback(id)
      PROVE  FALSE
  BY <1>6, <1>i, LegacyUndoes
<1> QED
  BY <1>1, <1>2, <1>3, <1>4, <1>5, <1>6, LegacyJobSteps

\* A saved link stays saved.
LEMMA LegacyStaysSaved ==
    ASSUME L!LegacyTypeOK, [L!Next]_lvars, NEW p \in L!Places, lsaved[p] \in L!Links
    PROVE  lsaved'[p] = lsaved[p]
BY LegacySavedMoves, LegacyStart

LEMMA LegacySavedNext == L!LegacyInv /\ [L!Next]_lvars => L!LinksAreSaved'
<1> SUFFICES ASSUME L!LegacyInv, [L!Next]_lvars PROVE L!LinksAreSaved'
  OBVIOUS
<1>i. L!LegacyTypeOK /\ L!JobIsSound /\ L!ReplacesTheSame /\ L!LinksAreSaved
  BY DEF L!LegacyInv
<1>s. ASSUME NEW p \in L!Places, lsaved[p] \in L!Links PROVE lsaved'[p] \in L!Links
  BY <1>i, <1>s, LegacyStaysSaved
<1>r. \A id \in L!Ids : lrecords[id].applied \in Seq(L!Migrated)
  BY <1>i, LegacyTyped DEF L!Record
<1>p. \A id \in L!Ids : L!PlacesOf(lrecords[id].applied) \subseteq L!Places
  BY <1>r, LegacyItems
<1>q. L!PlacesOf(ljob.left) \subseteq L!Places
  BY <1>i, LegacyAt, LegacyItems
<1>1. ASSUME NEW id \in L!Ids, NEW p \in L!PlacesOf(lrecords'[id].applied)
      PROVE  lsaved'[p] \in L!Links
  <2>1. CASE lrecords'[id].applied = lrecords[id].applied
    BY <1>1, <1>i, <1>s, <1>p, <2>1 DEF L!LinksAreSaved, L!IsLink
  <2>2. CASE /\ L!RecordLink /\ id = ljob.id /\ L!Item \in L!Migrated
             /\ lrecords'[id].applied = Append(lrecords[id].applied, L!Item)
    <3>1. p \in L!PlacesOf(lrecords[id].applied) \/ p = ljob.place
      BY <1>1, <1>r, <2>2, LegacyItems DEF L!Item
    <3>2. lsaved[p] \in L!Links /\ p \in L!Places
      BY <1>i, <1>p, <2>2, <3>1, LegacyAt DEF L!LinksAreSaved, L!IsLink, L!AtHand, L!RecordLink
    <3> QED
      BY <1>s, <3>2
  <2> QED
    BY <1>i, <2>1, <2>2, LegacyRecordMoves
<1>2. ASSUME ljob'.step \in {"unlink", "rename", "record"} PROVE lsaved'[ljob'.place] \in L!Links
  <2>1. ASSUME NEW p \in L!Places, L!SaveLink(p) PROVE lsaved'[ljob'.place] \in L!Links
    <3>1. ljob'.place = p /\ lsaved' = [lsaved EXCEPT ![p] = lentry[p]] /\ lentry[p] \in L!Links
      BY <1>i, <2>1, LegacyMigrates DEF L!SaveLink, L!Kept, L!IsLink
    <3> QED
      BY <1>i, <3>1, LegacyTyped
  <2>2. CASE ljob'.place = ljob.place /\ ljob.step \in {"unlink", "rename", "record"}
    BY <1>i, <1>s, <2>2, LegacyAt DEF L!LinksAreSaved, L!IsLink, L!AtHand
  <2> QED
    BY <1>2, <1>i, <2>1, <2>2, LegacyJobSteps, LegacyMigrates, LegacyUndoes, LegacyStart
    DEF L!Unlink, L!Rename
<1>3. ASSUME ljob'.step = "undoing", NEW p \in L!PlacesOf(ljob'.left) PROVE lsaved'[p] \in L!Links
  <2>1. CASE L!Fail
    <3>1. ljob.step # "idle" /\ (ljob.step = "record" => L!AtHand)
      BY <2>1 DEF L!Fail, L!AtHand
    <3>2. p \in L!PlacesOf(lrecords[ljob.id].applied) \/ (ljob.step = "record" /\ p = ljob.place)
      BY <1>3, <1>i, <2>1, <3>1, LegacyUndoes, LegacyAt, LegacyItem, LegacyItems DEF L!Applied
    <3>3. lsaved[p] \in L!Links /\ p \in L!Places
      BY <1>i, <1>p, <3>1, <3>2, LegacyAt DEF L!LinksAreSaved, L!IsLink
    <3> QED
      BY <1>s, <3>3
  <2>2. CASE L!UndoApplied
    <3>1. ljob.step = "undoing" /\ ljob.left # <<>> /\ ljob'.left = L!Front(ljob.left)
      BY <1>i, <2>2, LegacyUndoes DEF L!UndoApplied
    <3>2. p \in L!PlacesOf(ljob.left)
      BY <1>3, <1>i, <3>1, LegacyAt, LegacyItems
    <3> QED
      BY <1>i, <1>s, <1>q, <3>1, <3>2 DEF L!LinksAreSaved, L!IsLink
  <2>3. CASE ljob' = ljob
    BY <1>3, <1>i, <1>s, <1>q, <2>3 DEF L!LinksAreSaved, L!IsLink
  <2> QED
    BY <1>3, <1>i, <2>1, <2>2, <2>3, LegacyJobSteps, LegacyMigrates, LegacyUndoes, LegacyStart
<1> QED
  BY <1>1, <1>2, <1>3 DEF L!LinksAreSaved, L!IsLink, L!AtHand, L!Links, L!Link, L!PlacesOf

LEMMA LegacyLeftNext == L!LegacyInv /\ [L!Next]_lvars => L!LeftIsRecorded'
<1> SUFFICES ASSUME L!LegacyInv, [L!Next]_lvars, ljob'.step \in {"rollback", "removing", "relink"},
                    NEW i \in DOMAIN ljob'.left
             PROVE  \E j \in DOMAIN lrecords'[ljob'.id].applied :
                       ljob'.left[i] = lrecords'[ljob'.id].applied[j]
  BY DEF L!LeftIsRecorded, L!Applied
<1>i. L!LegacyTypeOK /\ L!JobIsSound /\ L!ReplacesTheSame /\ L!LeftIsRecorded
  BY DEF L!LegacyInv
<1>b. ASSUME ljob.step \in {"rollback", "removing", "relink"}, NEW k \in DOMAIN ljob.left
      PROVE  \E j \in DOMAIN lrecords[ljob.id].applied :
                ljob.left[k] = lrecords[ljob.id].applied[j]
  BY <1>b, <1>i DEF L!LeftIsRecorded, L!Applied
<1>1. ASSUME NEW id \in L!Ids, L!Rollback(id)
      PROVE  \E j \in DOMAIN lrecords'[ljob'.id].applied :
                ljob'.left[i] = lrecords'[ljob'.id].applied[j]
  <2>1. lrecords' = lrecords /\ ljob'.id = id /\ ljob'.left = lrecords[id].applied
    BY <1>1, <1>i, LegacyUndoes DEF L!Rollback
  <2> QED
    BY <2>1
<1>2. CASE L!CheckMigrated \/ L!RemoveMigrated
  <2>1. /\ lrecords' = lrecords /\ ljob'.id = ljob.id /\ ljob'.left = ljob.left
        /\ ljob.step \in {"rollback", "removing"}
    BY <1>2, <1>i, LegacyUndoes DEF L!CheckMigrated, L!RemoveMigrated
  <2> QED
    BY <1>b, <2>1
<1>3. CASE L!Relink
  <2>1. /\ lrecords' = lrecords /\ ljob'.id = ljob.id /\ ljob'.left = L!Front(ljob.left)
        /\ ljob.step = "relink" /\ ljob.left # <<>>
    BY <1>3, <1>i, LegacyUndoes DEF L!Relink, L!JobIsSound
  <2>2. i \in DOMAIN ljob.left /\ L!Front(ljob.left)[i] = ljob.left[i]
    BY <1>i, <2>1, LegacyAt, LegacyItems
  <2> QED
    BY <1>b, <2>1, <2>2
<1>4. CASE ljob' = ljob /\ lrecords' = lrecords
  BY <1>b, <1>4
<1> QED
  BY <1>i, <1>1, <1>2, <1>3, <1>4, LegacyJobSteps, LegacyMigrates, LegacyUndoes, LegacyStart

LEMMA LegacyFreshNext == L!LegacyInv /\ [L!Next]_lvars => L!NextIsFresh'
<1> SUFFICES ASSUME L!LegacyInv, [L!Next]_lvars PROVE L!NextIsFresh'
  OBVIOUS
<1>i. L!LegacyTypeOK /\ L!JobIsSound /\ L!ReplacesTheSame /\ L!NextIsFresh
  BY DEF L!LegacyInv
<1>t. /\ lcounts \in L!Counts /\ lcounts.migrations \in Nat /\ L!Ids \subseteq Nat
      /\ lrecords \in [L!Ids -> L!Record]
  BY <1>i, LegacyTyped, LocalBoundAssumption DEF L!Counts, L!Ids
<1>b. ljob.step # "idle" => ljob.id \in L!Ids /\ ljob.id <= lcounts.migrations
  BY <1>i, LegacyAt, LegacyStart DEF L!NextIsFresh
<1>1. ASSUME NEW ids \in SUBSET Skills, L!Migrate(ids) PROVE L!NextIsFresh'
  <2>1. /\ lcounts' = [lcounts EXCEPT !.migrations = lcounts.migrations + 1]
        /\ lrecords' = [lrecords EXCEPT ![lcounts.migrations + 1].status = "running"]
    BY <1>1 DEF L!Migrate
  <2>2. ljob'.id = lcounts.migrations + 1 /\ lcounts'.migrations = lcounts.migrations + 1
    BY <1>1, <1>i, <1>t, <2>1, LegacyMigrates DEF L!Counts
  <2>3. ASSUME NEW id \in L!Ids, id > lcounts'.migrations PROVE lrecords'[id] = L!NoRecord
    <3>1. id # lcounts.migrations + 1 /\ id > lcounts.migrations
      BY <1>t, <2>2, <2>3
    <3> QED
      BY <1>i, <1>t, <2>1, <3>1 DEF L!NextIsFresh
  <2>4. ljob'.id <= lcounts'.migrations
    BY <1>t, <2>2
  <2> QED
    BY <2>3, <2>4 DEF L!NextIsFresh, L!NoRecord
<1>2. ASSUME NEW id \in L!Ids, L!Rollback(id) PROVE L!NextIsFresh'
  <2>1. /\ lcounts' = lcounts /\ lrecords' = lrecords /\ ljob'.id = id
        /\ lrecords[id].status = "complete"
    BY <1>2, <1>i, LegacyUndoes DEF L!Rollback
  <2>2. id <= lcounts.migrations
    BY <1>i, <1>t, <2>1, LegacyStart DEF L!NextIsFresh
  <2> QED
    BY <1>i, <2>1, <2>2 DEF L!NextIsFresh
<1>3. ASSUME \A id \in L!Ids : ljob.step = "idle" \/ id # ljob.id => lrecords'[id] = lrecords[id],
             lcounts'.migrations = lcounts.migrations,
             ljob' = L!Idle \/ (ljob'.id = ljob.id /\ ljob.step # "idle")
      PROVE  L!NextIsFresh'
  <2>1. ASSUME NEW id \in L!Ids, id > lcounts.migrations PROVE lrecords'[id] = L!NoRecord
    <3>1. ljob.step = "idle" \/ id # ljob.id
      BY <1>b, <1>t, <2>1
    <3> QED
      BY <1>3, <1>i, <2>1, <3>1 DEF L!NextIsFresh
  <2>2. ljob' # L!Idle => ljob'.id <= lcounts'.migrations
    BY <1>3, <1>b
  <2> QED
    BY <1>3, <2>1, <2>2 DEF L!NextIsFresh, L!NoRecord, L!Idle
<1>4. ASSUME L!RecordLink \/ L!Complete \/ L!UndoEnds
      PROVE  L!NextIsFresh'
  <2>1. /\ ljob.step # "idle" /\ lcounts' = lcounts
        /\ \A id \in L!Ids : id # ljob.id => lrecords'[id] = lrecords[id]
    BY <1>4, <1>t DEF L!RecordLink, L!Complete, L!UndoEnds
  <2>2. ljob' = L!Idle \/ ljob'.id = ljob.id
    BY <1>4, <1>i, LegacyMigrates DEF L!Complete, L!UndoEnds
  <2> QED
    BY <1>3, <2>1, <2>2
<1>5. ASSUME \/ L!Stage \/ L!Unlink \/ L!Rename \/ L!Fail \/ L!UndoApplied \/ L!RemoveMigrated
             \/ L!CheckMigrated \/ L!Relink \/ L!RollbackStops \/ L!RollbackEnds \/ L!Crash
             \/ \E p \in L!Places : L!SaveLink(p)
      PROVE  L!NextIsFresh'
  <2>1. lrecords' = lrecords /\ lcounts'.migrations = lcounts.migrations
    BY <1>5, <1>t
    DEF L!Stage, L!Unlink, L!Rename, L!Fail, L!UndoApplied, L!RemoveMigrated, L!Relink,
        L!CheckMigrated, L!RollbackStops, L!RollbackEnds, L!Crash, L!SaveLink, L!Counts
  <2>2. ljob' = L!Idle \/ (ljob'.id = ljob.id /\ ljob.step # "idle")
    <3>1. ASSUME ~ (L!RollbackStops \/ L!RollbackEnds \/ L!Crash) PROVE ljob'.id = ljob.id
      BY <1>5, <1>i, <3>1, LegacyMigrates, LegacyUndoes
    <3>2. ~ L!Crash => ljob.step # "idle"
      BY <1>5 DEF L!Stage, L!Unlink, L!Rename, L!Fail, L!UndoApplied, L!RemoveMigrated, L!Relink,
        L!CheckMigrated, L!RollbackStops, L!RollbackEnds, L!SaveLink
    <3> QED
      BY <3>1, <3>2 DEF L!CheckMigrated, L!RollbackStops, L!RollbackEnds, L!Crash
  <2> QED
    BY <1>3, <2>1, <2>2
<1>6. ASSUME \/ UNCHANGED lvars
             \/ \E p \in L!Places, e \in L!Entry : L!EditEntry(p, e)
             \/ \E s \in Skills, v \in Versions : L!EditLegacy(s, v) \/ L!Refresh(s, v)
      PROVE  L!NextIsFresh'
  <2>1. lrecords' = lrecords /\ lcounts'.migrations = lcounts.migrations /\ ljob' = ljob
    BY <1>6, <1>t DEF lvars, L!EditEntry, L!EditLegacy, L!Refresh, L!Others, L!Counts
  <2> QED
    BY <1>i, <2>1 DEF L!NextIsFresh
<1> QED
  BY <1>1, <1>2, <1>4, <1>5, <1>6 DEF L!Next

LEMMA LegacyUndoableNext == L!LegacyInv /\ [L!Next]_lvars => L!Undoable'
<1> SUFFICES ASSUME L!LegacyInv, [L!Next]_lvars,
                    ljob'.step \in {"staging", "links", "unlink", "rename", "record", "undoing"},
                    NEW p \in L!Places \ lmoved'
             PROVE  /\ p \in L!Touched' => lsaved'[p] = lbefore'[p]
                    /\ p \notin L!Touched' => lentry'[p] = lbefore'[p]
                    /\ ljob'.step = "unlink" /\ p = ljob'.place
                          => lsaved'[p] = lbefore'[p] /\ lentry'[p] = lbefore'[p]
  BY DEF L!Undoable, L!Migrating, L!AtHand, L!Places
<1> DEFINE Going == ljob.step \in {"staging", "links", "unlink", "rename", "record", "undoing"}
           Goal == /\ p \in L!Touched' => lsaved'[p] = lbefore'[p]
                   /\ p \notin L!Touched' => lentry'[p] = lbefore'[p]
                   /\ ljob'.step = "unlink" /\ p = ljob'.place
                         => lsaved'[p] = lbefore'[p] /\ lentry'[p] = lbefore'[p]
<1>i. /\ L!LegacyTypeOK /\ L!JobIsSound /\ L!ReplacesTheSame /\ L!LinksAreSaved /\ L!NextIsFresh
      /\ \A id \in L!Ids : lrecords[id].applied \in Seq(L!Migrated)
  BY LegacyTyped DEF L!LegacyInv, L!Record
<1>b. ASSUME Going, p \notin lmoved
      PROVE  /\ p \in L!Touched => lsaved[p] = lbefore[p]
             /\ p \notin L!Touched => lentry[p] = lbefore[p]
             /\ ljob.step = "unlink" /\ p = ljob.place
                   => lsaved[p] = lbefore[p] /\ lentry[p] = lbefore[p]
  BY <1>b DEF L!LegacyInv, L!Undoable, L!Migrating, L!AtHand
\* Of what is touched the link is saved.
<1>l. Going /\ p \in L!Touched => lsaved[p] \in L!Links
  BY <1>i, LegacyAt DEF L!LinksAreSaved, L!Touched, L!AtHand, L!IsLink, L!Applied
<1>1. ASSUME NEW ids \in SUBSET Skills, L!Migrate(ids) PROVE Goal
  <2>1. /\ lrecords' = [lrecords EXCEPT ![lcounts.migrations + 1].status = "running"]
        /\ lentry' = lentry /\ lbefore' = lentry
    BY <1>1 DEF L!Migrate
  <2>2. ljob'.id = lcounts.migrations + 1 /\ ljob'.id \in L!Ids /\ ljob'.step = "staging"
    BY <1>1, <1>i, LegacyMigrates
  <2>3. lrecords[ljob'.id].applied = <<>>
    <3>1. lcounts.migrations \in Nat
      BY <1>i, LegacyTyped, LocalBoundAssumption DEF L!Counts, L!Ids
    <3>2. ljob'.id > lcounts.migrations
      BY <2>2, <3>1
    <3> QED
      BY <1>i, <2>2, <3>2, LegacyStart DEF L!NextIsFresh
  <2>4. lrecords'[ljob'.id].applied = <<>>
    <3>1. ~ L!RecordLink
      BY <1>1, LegacyStart DEF L!Migrate, L!RecordLink
    <3> QED
      BY <1>i, <2>2, <2>3, <3>1, LegacyRecordMoves
  <2>5. L!PlacesOf(<<>>) = {}
    BY DEF L!PlacesOf
  <2>6. L!Touched' = {}
    BY <2>2, <2>4, <2>5 DEF L!Touched, L!Applied, L!PlacesOf
  <2> QED
    BY <2>1, <2>2, <2>6
<1>2. ASSUME L!Stage PROVE Goal
  <2>1. /\ ljob.step = "staging" /\ ljob'.step = "links" /\ ljob'.id = ljob.id
        /\ lrecords' = lrecords /\ lentry' = lentry /\ lsaved' = lsaved /\ lbefore' = lbefore
        /\ lmoved' = lmoved
    BY <1>2, <1>i, LegacyMigrates DEF L!Stage
  <2>2. L!Touched' = L!Touched
    BY <2>1 DEF L!Touched, L!Applied, L!PlacesOf
  <2> QED
    BY <1>b, <2>1, <2>2
<1>3. ASSUME NEW q \in L!Places, L!SaveLink(q) PROVE Goal
  <2>1. /\ ljob.step = "links" /\ ljob'.step = "unlink" /\ ljob'.id = ljob.id /\ ljob'.place = q
        /\ lrecords' = lrecords /\ lentry' = lentry /\ lbefore' = lbefore /\ lmoved' = lmoved
        /\ lsaved[q] = Absent /\ lsaved' = [lsaved EXCEPT ![q] = lentry[q]]
    BY <1>3, <1>i, LegacyMigrates DEF L!SaveLink, L!Kept
  <2>2. L!Touched' = L!Touched
    BY <2>1 DEF L!Touched, L!Applied, L!PlacesOf
  <2>3. q \notin L!Touched \/ p # q
    BY <1>l, <2>1, LegacyStart
  <2>4. lsaved'[p] = IF p = q THEN lentry[q] ELSE lsaved[p]
    BY <1>i, <2>1, LegacyTyped
  <2> QED
    BY <1>b, <2>1, <2>2, <2>3, <2>4
<1>4. ASSUME L!Unlink PROVE Goal
  <2>1. /\ ljob.step = "unlink" /\ ljob'.step = "rename" /\ ljob'.id = ljob.id
        /\ ljob'.place = ljob.place
        /\ lrecords' = lrecords /\ lsaved' = lsaved /\ lbefore' = lbefore /\ lmoved' = lmoved
    BY <1>4, <1>i, LegacyMigrates DEF L!Unlink
  <2>2. L!Touched' = L!Touched \cup {ljob.place}
    BY <2>1 DEF L!Touched, L!Applied, L!PlacesOf
  <2>3. p # ljob.place => lentry'[p] = lentry[p]
    BY <1>4, <1>i, LegacyTyped DEF L!Unlink
  <2> QED
    BY <1>b, <2>1, <2>2, <2>3
<1>5. ASSUME L!Rename PROVE Goal
  <2>1. /\ ljob.step = "rename" /\ ljob'.step = "record" /\ ljob'.id = ljob.id
        /\ ljob'.place = ljob.place
        /\ lrecords' = lrecords /\ lsaved' = lsaved /\ lbefore' = lbefore /\ lmoved' = lmoved
    BY <1>5, <1>i, LegacyMigrates DEF L!Rename
  <2>2. L!Touched' = L!Touched /\ ljob.place \in L!Touched
    BY <2>1 DEF L!Touched, L!Applied, L!PlacesOf
  <2>3. p # ljob.place => lentry'[p] = lentry[p]
    BY <1>5, <1>i, LegacyTyped DEF L!Rename
  <2> QED
    BY <1>b, <2>1, <2>2, <2>3
<1>6. ASSUME L!RecordLink PROVE Goal
  <2>1. /\ ljob.step = "record" /\ ljob'.step = "links" /\ ljob'.id = ljob.id
        /\ lentry' = lentry /\ lsaved' = lsaved /\ lbefore' = lbefore /\ lmoved' = lmoved
    BY <1>6, <1>i, LegacyMigrates DEF L!RecordLink
  <2>2. /\ ljob.id \in L!Ids /\ L!Item \in L!Migrated /\ L!Item.place = ljob.place
        /\ lrecords'[ljob.id].applied = Append(lrecords[ljob.id].applied, L!Item)
    <3>1. L!Item \in L!Migrated /\ L!Item.place = ljob.place
      BY <1>i, <2>1, LegacyItem
    <3>2. ljob.id \in L!Ids
      BY <1>i, <2>1, LegacyAt
    <3> QED
      BY <1>6, <1>i, <3>1, <3>2, LegacyTyped DEF L!RecordLink, L!Record
  <2>3. L!PlacesOf(lrecords'[ljob.id].applied) =
           L!PlacesOf(lrecords[ljob.id].applied) \cup {ljob.place}
    BY <1>i, <2>2, LegacyItems
  <2>4. L!Touched' = L!Touched
    BY <2>1, <2>3 DEF L!Touched, L!Applied, L!PlacesOf
  <2> QED
    BY <1>b, <2>1, <2>4
<1>7. ASSUME L!Fail PROVE Goal
  <2>1. /\ ljob.step \in {"staging", "links", "unlink", "rename", "record"}
        /\ ljob'.step = "undoing" /\ lentry' = L!PutBack
        /\ lsaved' = lsaved /\ lbefore' = lbefore /\ lmoved' = lmoved
        /\ ljob'.left = IF ljob.step = "record" THEN Append(L!Applied, L!Item) ELSE L!Applied
    BY <1>7, <1>i, LegacyUndoes DEF L!Fail
  <2>2. CASE ljob.step = "record"
    <3>1. L!PlacesOf(Append(L!Applied, L!Item)) = L!PlacesOf(L!Applied) \cup {ljob.place}
      BY <1>i, <2>2, LegacyAt, LegacyItem, LegacyItems
    <3>2. L!Touched' = L!Touched /\ lentry' = lentry
      BY <2>1, <2>2, <3>1 DEF L!Touched, L!PlacesOf, L!PutBack
    <3> QED
      BY <1>b, <2>1, <2>2, <3>2
  <2>3. CASE ljob.step = "rename"
    <3>1. L!Touched' = L!PlacesOf(L!Applied) /\ L!Touched = L!PlacesOf(L!Applied) \cup {ljob.place}
      BY <2>1, <2>3 DEF L!Touched, L!PlacesOf
    <3>2. p # ljob.place => lentry'[p] = lentry[p]
      BY <1>i, <2>1, LegacyTyped DEF L!PutBack
    <3>3. p = ljob.place => lentry'[p] = lsaved[p]
      <4>1. p = ljob.place => lentry[p] = Absent
        BY <1>i, <2>1, <2>3 DEF L!JobIsSound
      <4> QED
        BY <1>i, <2>1, <2>3, <4>1, LegacyTyped DEF L!PutBack
    <3> QED
      BY <1>b, <2>1, <2>3, <3>1, <3>2, <3>3
  <2>4. CASE ljob.step \in {"staging", "links", "unlink"}
    <3>1. L!Touched' = L!Touched /\ lentry' = lentry
      BY <2>1, <2>4 DEF L!Touched, L!PlacesOf, L!PutBack
    <3> QED
      BY <1>b, <2>1, <2>4, <3>1
  <2> QED
    BY <2>1, <2>2, <2>3, <2>4
<1>8. ASSUME L!UndoApplied PROVE Goal
  <2>1. /\ ljob.step = "undoing" /\ ljob.left # <<>>
        /\ ljob'.step = "undoing" /\ ljob'.left = L!Front(ljob.left)
        /\ lsaved' = lsaved /\ lbefore' = lbefore /\ lmoved' = lmoved
        /\ lentry' = [lentry EXCEPT ![L!Last(ljob.left).place] = lsaved[L!Last(ljob.left).place]]
    BY <1>8, <1>i, LegacyUndoes DEF L!UndoApplied
  <2>2. /\ L!Touched = L!PlacesOf(ljob.left) /\ L!Touched' = L!PlacesOf(L!Front(ljob.left))
        /\ L!PlacesOf(ljob.left) = L!PlacesOf(L!Front(ljob.left)) \cup {L!Last(ljob.left).place}
    <3>1. L!PlacesOf(ljob.left) = L!PlacesOf(L!Front(ljob.left)) \cup {L!Last(ljob.left).place}
      BY <1>i, <2>1, LegacyAt, LegacyItems
    <3> QED
      BY <2>1, <3>1 DEF L!Touched, L!PlacesOf
  <2>3. lentry'[p] = IF p = L!Last(ljob.left).place THEN lsaved[p] ELSE lentry[p]
    BY <1>i, <2>1, LegacyTyped
  <2> QED
    BY <1>b, <2>1, <2>2, <2>3
<1>9. ASSUME ljob' = ljob, lsaved' = lsaved, lrecords' = lrecords, lbefore' = lbefore,
             lmoved \subseteq lmoved'
      PROVE  Goal
  <2>1. L!Touched' = L!Touched
    BY <1>9 DEF L!Touched, L!Applied, L!PlacesOf
  <2>2. ~ (L!Unlink \/ L!Rename \/ L!UndoApplied \/ L!RemoveMigrated \/ L!Relink)
        /\ ~ (L!Fail /\ ljob.step = "rename")
    <3>1. ~ L!UndoApplied
      <4>1. ASSUME L!UndoApplied PROVE Len(ljob'.left) # Len(ljob.left)
        <5>1. ljob.left # <<>> /\ ljob.left \in Seq(L!Migrated) /\ ljob'.left = L!Front(ljob.left)
          BY <1>i, <4>1, LegacyAt, LegacyUndoes DEF L!UndoApplied
        <5>2. Len(ljob.left) \in Nat \ {0}
          BY <5>1
        <5>3. Len(L!Front(ljob.left)) = Len(ljob.left) - 1
          BY <5>1, <5>2 DEF L!Front
        <5> QED
          BY <5>1, <5>2, <5>3
      <4> QED
        BY <1>9, <4>1
    <3> QED
      BY <1>9, <1>i, <3>1, LegacyMigrates, LegacyUndoes DEF L!Unlink, L!Rename, L!RemoveMigrated, L!Relink
  <2>3. lentry'[p] = lentry[p]
    BY <1>i, <2>2, LegacyEntryMoves
  <2> QED
    BY <1>9, <1>b, <2>1, <2>3
<1> QED
  BY <1>1, <1>2, <1>3, <1>4, <1>5, <1>6, <1>7, <1>8, <1>9, <1>i, LegacyJobSteps, LegacyUndoes, LegacyStart

LEMMA LegacyWholeNext == L!LegacyInv /\ [L!Next]_lvars => L!ListIsWhole'
<1> SUFFICES ASSUME L!LegacyInv, [L!Next]_lvars,
                    ljob'.step \in {"staging", "links", "unlink", "rename", "record"},
                    NEW p \in L!Places \ lmoved', p[2] \in ljob'.ids \ lmoved',
                    p[1] \in Declared[p[2]], lbefore'[p] = L!Link("legacy")
             PROVE  p \in ljob'.todo \/ lentry'[p] \in L!Dirs
  BY DEF L!ListIsWhole, L!Migrating, L!AtHand, L!Places, L!Dirs, L!Link, L!Dir
<1>i. L!LegacyTypeOK /\ L!JobIsSound /\ L!ReplacesTheSame
  BY DEF L!LegacyInv
<1>b. ASSUME ljob.step \in {"staging", "links", "unlink", "rename", "record"},
             p \notin lmoved, p[2] \in ljob.ids \ lmoved, lbefore[p] = L!Link("legacy")
      PROVE  p \in ljob.todo \/ lentry[p] \in L!Dirs
  BY <1>b DEF L!LegacyInv, L!ListIsWhole, L!Migrating, L!AtHand
<1>1. ASSUME NEW ids \in SUBSET Skills, L!Migrate(ids) PROVE p \in ljob'.todo
  <2>1. ljob'.ids = ids /\ ljob'.todo = L!Planned(ids) /\ lbefore' = lentry
    BY <1>1, <1>i, LegacyMigrates DEF L!Migrate
  <2> QED
    BY <1>1, <1>i, <2>1, LegacyPlanned
<1>2. ASSUME L!Stage \/ L!Unlink \/ L!Rename \/ \E q \in L!Places : L!SaveLink(q)
      PROVE  p \in ljob'.todo \/ lentry'[p] \in L!Dirs
  <2>1. /\ ljob.step \in {"staging", "links", "unlink", "rename"}
        /\ ljob'.ids = ljob.ids /\ ljob'.todo = ljob.todo
        /\ lbefore' = lbefore /\ lmoved' = lmoved
    BY <1>2, <1>i, LegacyMigrates DEF L!Stage, L!Unlink, L!Rename, L!SaveLink
  <2>2. p \in ljob.todo \/ lentry[p] \in L!Dirs
    BY <1>b, <2>1
  <2>3. p # ljob.place \/ p \in ljob.todo \/ ljob.step \notin {"unlink", "rename"}
    BY <1>i, LegacyAt
  <2>4. p \in ljob.todo \/ lentry'[p] = lentry[p]
    BY <1>2, <1>i, <2>3, LegacyTyped DEF L!Stage, L!Unlink, L!Rename, L!SaveLink
  <2> QED
    BY <2>1, <2>2, <2>4
<1>3. ASSUME L!RecordLink PROVE p \in ljob'.todo \/ lentry'[p] \in L!Dirs
  <2>1. /\ ljob.step = "record" /\ ljob'.ids = ljob.ids /\ ljob'.todo = ljob.todo \ {ljob.place}
        /\ lbefore' = lbefore /\ lmoved' = lmoved /\ lentry' = lentry
    BY <1>3, <1>i, LegacyMigrates DEF L!RecordLink
  <2>2. p = ljob.place => lentry[p] \in L!Dirs
    BY <1>i, <2>1 DEF L!JobIsSound
  <2> QED
    BY <1>b, <2>1, <2>2
<1>4. ASSUME ljob' = ljob, lbefore' = lbefore, lmoved \subseteq lmoved'
      PROVE  p \in ljob'.todo \/ lentry'[p] \in L!Dirs
  <2>1. p \in ljob.todo \/ lentry[p] \in L!Dirs
    BY <1>4, <1>b
  <2>2. ~ (L!Unlink \/ L!Rename \/ L!Fail \/ L!UndoApplied \/ L!RemoveMigrated \/ L!Relink)
    BY <1>4, <1>i, LegacyMigrates, LegacyUndoes
    DEF L!Unlink, L!Rename, L!Fail, L!UndoApplied, L!RemoveMigrated, L!Relink
  <2>3. lentry'[p] = lentry[p]
    BY <1>i, <2>2, LegacyEntryMoves
  <2> QED
    BY <1>4, <2>1, <2>3
<1>5. ljob' # L!Idle
  BY LegacyStart
<1>6. ASSUME L!Fail \/ L!UndoApplied \/ L!CheckMigrated \/ L!RemoveMigrated \/ L!Relink \/ \E id \in L!Ids : L!Rollback(id)
      PROVE  FALSE
  BY <1>6, <1>i, LegacyUndoes
<1> QED
  BY <1>1, <1>2, <1>3, <1>4, <1>5, <1>6, LegacyJobSteps

LEMMA LegacyInvInit == L!Init => L!LegacyInv
<1> SUFFICES ASSUME L!Init PROVE L!LegacyInv
  OBVIOUS
<1>1. /\ lentry \in [L!Places -> L!Entry] /\ lbefore = lentry
      /\ llegacy \in [Skills -> Versions] /\ lsnapshot \in [Skills -> L!Contents]
      /\ lsaved = [p \in L!Places |-> Absent] /\ lrecords = [id \in L!Ids |-> L!NoRecord]
      /\ ljob = L!Idle /\ lmoved = {}
      /\ lcounts = [migrations |-> 0, edits |-> 0, failures |-> 0]
  BY LegacyAssumption DEF L!Init
<1>2. lcounts \in L!Counts
  BY <1>1, LocalBoundAssumption DEF L!Counts
<1>3. L!LegacyTypeOK
  BY <1>1, <1>2, LegacyStart DEF L!LegacyTypeOK
<1>4. \A id \in L!Ids : L!PlacesOf(lrecords[id].applied) = {}
  BY <1>1, LegacyStart DEF L!PlacesOf
<1>5. L!JobIsSound /\ L!ReplacesTheSame /\ L!Undoable /\ L!LeftIsRecorded /\ L!ListIsWhole
  BY <1>1, LegacyStart
  DEF L!JobIsSound, L!ReplacesTheSame, L!Undoable, L!LeftIsRecorded, L!ListIsWhole, L!Migrating,
      L!AtHand
<1>6. L!LinksAreSaved /\ L!NextIsFresh
  BY <1>1, <1>4, LegacyStart DEF L!LinksAreSaved, L!NextIsFresh, L!AtHand
<1> QED
  BY <1>3, <1>5, <1>6 DEF L!LegacyInv

LEMMA LegacyInvNext == L!LegacyInv /\ [L!Next]_lvars => L!LegacyInv'
BY LegacyTypeNext, LegacySoundNext, LegacySameNext, LegacyFreshNext, LegacySavedNext,
   LegacyUndoableNext, LegacyLeftNext, LegacyWholeNext
DEF L!LegacyInv

\* Wherever a migration of legacy links is, and whatever others change
\* meanwhile: what it took away is saved and what it touched can be put back as
\* it was; what will replace a link is the same as what the link leads to; and
\* no link it was to replace is forgotten (legacy_skillshub_migration.py).
THEOREM LegacyInvariance == L!Spec => []L!LegacyInv
<1>1. L!Init => L!LegacyInv
  BY LegacyInvInit
<1>2. L!LegacyInv /\ [L!Next]_L!vars => L!LegacyInv'
  BY LegacyInvNext DEF lvars, L!vars
<1> QED
  BY <1>1, <1>2, PTL DEF L!Spec

LEMMA LegacyKeeps ==
    ASSUME L!LegacyInv, [L!Next]_L!vars, NEW p \in L!Places,
           ljob.step = "rename", ljob'.step = "record", p = ljob.place,
           {p, p[2]} \cap lmoved = {}
    PROVE  lentry'[p] = L!Dir(llegacy[p[2]])
<1>i. /\ L!LegacyTypeOK /\ L!JobIsSound /\ L!ReplacesTheSame /\ [L!Next]_lvars
  BY DEF L!LegacyInv, lvars, L!vars
<1>1. L!Rename
  BY <1>i, LegacyJobSteps, LegacyMigrates, LegacyUndoes, LegacyStart
<1>2. lentry'[p] = L!Dir(ljob.staged[p[2]])
  BY <1>i, <1>1, LegacyTyped DEF L!Rename
<1>3. ljob.staged[p[2]] = llegacy[p[2]]
  BY <1>i DEF L!ReplacesTheSame, L!Migrating, L!AtHand, L!JobIsSound
<1> QED
  BY <1>2, <1>3

\* The status of a record changes only as its own job ends or begins.
LEMMA LegacyStatus ==
    ASSUME L!LegacyInv, [L!Next]_L!vars, NEW id \in L!Ids,
           lrecords[id].status = "running", lrecords'[id].status # "running"
    PROVE  /\ id = ljob.id
           /\ \/ L!Complete /\ lrecords'[id].status = "complete"
              \/ /\ L!UndoEnds
                 /\ lrecords'[id].status = IF ljob.errors THEN "failed"
                                           ELSE "rolled_back_after_failure"
<1>t. lrecords \in [L!Ids -> L!Record] /\ \A k \in L!Ids : lrecords[k] \in L!Record
  BY LegacyTyped DEF L!LegacyInv
<1>1. ASSUME NEW ids \in SUBSET Skills, L!Migrate(ids) PROVE FALSE
  <2>1. lrecords' = [lrecords EXCEPT ![lcounts.migrations + 1].status = "running"]
    BY <1>1 DEF L!Migrate
  <2> QED
    BY <1>t, <2>1 DEF L!Record
<1>2. ASSUME L!RecordLink PROVE FALSE
  BY <1>t, <1>2 DEF L!RecordLink, L!Record
<1>3. ASSUME L!Complete PROVE id = ljob.id /\ lrecords'[id].status = "complete"
  BY <1>t, <1>3 DEF L!Complete, L!Record
<1>4. ASSUME L!UndoEnds
      PROVE  /\ id = ljob.id
             /\ lrecords'[id].status = IF ljob.errors THEN "failed"
                                       ELSE "rolled_back_after_failure"
  <2> DEFINE status == IF ljob.errors THEN "failed" ELSE "rolled_back_after_failure"
  <2>1. lrecords' = [lrecords EXCEPT ![ljob.id].status = status]
    BY <1>4 DEF L!UndoEnds
  <2> HIDE DEF status
  <2>2. id = ljob.id /\ lrecords'[id].status = status
    BY <1>t, <2>1 DEF L!Record
  <2> QED
    BY <2>2 DEF status
<1> QED
  BY <1>1, <1>2, <1>3, <1>4
  DEF L!Next, L!vars, L!Stage, L!SaveLink, L!Unlink, L!Rename, L!Fail, L!UndoApplied,
      L!Rollback, L!RemoveMigrated, L!Relink, L!CheckMigrated, L!RollbackStops, L!RollbackEnds, L!Crash,
      L!EditEntry, L!EditLegacy, L!Refresh, L!Others

LEMMA LegacyUndone ==
    ASSUME L!LegacyInv, [L!Next]_L!vars, NEW id \in L!Ids,
           lrecords[id].status = "running",
           lrecords'[id].status = "rolled_back_after_failure",
           NEW p \in L!Places \ lmoved
    PROVE  lentry'[p] = lbefore[p]
<1>1. L!UndoEnds
  BY LegacyStatus
<1>2. ljob.step = "undoing" /\ ljob.left = <<>> /\ lentry' = lentry
  BY <1>1 DEF L!UndoEnds
<1>3. p \notin L!Touched
  BY <1>2 DEF L!Touched, L!PlacesOf
<1> QED
  BY <1>2, <1>3 DEF L!LegacyInv, L!Undoable

LEMMA LegacyLinkIsSaved ==
    ASSUME L!LegacyInv, [L!Next]_L!vars, NEW p \in L!Places,
           ljob # L!Idle, lcounts'.edits = lcounts.edits,
           L!IsLink(lentry[p]), ~ L!IsLink(lentry'[p])
    PROVE  lsaved[p] = lentry[p] \/ p \in lmoved
<1>i. /\ L!LegacyTypeOK /\ L!JobIsSound /\ L!ReplacesTheSame /\ L!LinksAreSaved /\ L!Undoable
      /\ [L!Next]_lvars
  BY DEF L!LegacyInv, lvars, L!vars
<1>1. CASE L!Unlink /\ p = ljob.place
  <2>1. ljob.step = "unlink"
    BY <1>1 DEF L!Unlink
  <2> QED
    BY <1>1, <2>1 DEF L!LegacyInv, L!Undoable, L!Migrating, L!AtHand
<1>2. CASE L!UndoApplied /\ p = L!Last(ljob.left).place /\ lentry'[p] = lsaved[p]
  <2>1. ljob.step = "undoing" /\ ljob.left # <<>>
    BY <1>2 DEF L!UndoApplied
  <2>2. p \in L!PlacesOf(ljob.left)
    BY <1>i, <1>2, <2>1, LegacyAt, LegacyItems
  <2> QED
    BY <1>i, <1>2, <2>1, <2>2 DEF L!LinksAreSaved
<1>3. CASE L!RemoveMigrated /\ (lentry[p] = L!Dir(L!Last(ljob.left).content) \/ p \in lmoved)
  BY <1>3, LegacyStart DEF L!IsLink, L!Links, L!Link, L!Dir
<1>4. CASE lentry[p] = Absent
  BY <1>4, LegacyStart DEF L!IsLink
<1> QED
  BY <1>i, <1>1, <1>2, <1>3, <1>4, LegacyEntryMoves

LEMMA LegacySpares ==
    ASSUME L!LegacyInv, [L!Next]_L!vars, NEW p \in L!Places,
           ljob.step = "removing", lentry[p] \in L!Dirs, lentry'[p] = Absent,
           lcounts'.edits = lcounts.edits, p \notin lmoved
    PROVE  \E i \in DOMAIN lrecords[ljob.id].applied :
              /\ lrecords[ljob.id].applied[i].place = p
              /\ lentry[p] = L!Dir(lrecords[ljob.id].applied[i].content)
<1>i. /\ L!LegacyTypeOK /\ L!JobIsSound /\ L!ReplacesTheSame /\ L!LeftIsRecorded /\ [L!Next]_lvars
  BY DEF L!LegacyInv, lvars, L!vars
<1>1. /\ L!RemoveMigrated /\ p = L!Last(ljob.left).place
      /\ lentry[p] = L!Dir(L!Last(ljob.left).content)
  BY <1>i, LegacyEntryMoves, LegacyStart DEF L!Unlink, L!Rename, L!Fail, L!UndoApplied, L!Relink
<1>2. ljob.left # <<>>
  BY <1>1, <1>i DEF L!RemoveMigrated, L!JobIsSound
<1>3. Len(ljob.left) \in DOMAIN ljob.left /\ L!Last(ljob.left) = ljob.left[Len(ljob.left)]
  BY <1>i, <1>2, LegacyAt, LegacyItems
<1>4. PICK j \in DOMAIN lrecords[ljob.id].applied :
         ljob.left[Len(ljob.left)] = lrecords[ljob.id].applied[j]
  BY <1>i, <1>3 DEF L!LeftIsRecorded, L!Applied
<1> QED
  BY <1>1, <1>3, <1>4

LEMMA LegacyComplete ==
    ASSUME L!LegacyInv, [L!Next]_L!vars, NEW id \in L!Ids,
           lrecords[id].status = "running", lrecords'[id].status = "complete",
           NEW p \in L!Places \ lmoved, p[2] \in ljob.ids \ lmoved,
           p[1] \in Declared[p[2]], lbefore[p] = L!Link("legacy")
    PROVE  lentry[p] \in L!Dirs
<1>1. L!Complete
  BY LegacyStatus
<1>2. ljob.step = "links" /\ ljob.todo = {}
  BY <1>1 DEF L!Complete, L!AllReplaced
<1> QED
  BY <1>2 DEF L!LegacyInv, L!ListIsWhole, L!Migrating

\* Replacing the links into the legacy hub changes no content a tool reads; a
\* failure is undone, a link that is taken away is saved, a rollback removes
\* nothing that was edited since, and a completed migration forgot no link, as
\* long as nobody changed what it is about (legacy_skillshub_migration.py:213-524).
THEOREM MigrationKeepsLinksEver == LocalSpec => MigrationKeepsLinks
<1>1. L!LegacyInv /\ [L!Next]_L!vars =>
         [\A p \in L!Places :
            ljob.step = "rename" /\ ljob'.step = "record" /\ p = ljob.place
            /\ {p, p[2]} \cap lmoved = {}
               => lentry'[p] = L!Dir(llegacy[p[2]])]_L!vars
  BY LegacyKeeps
<1>2. L!LegacyInv /\ [L!Next]_L!vars =>
         [\A id \in L!Ids :
            lrecords[id].status = "running"
            /\ lrecords'[id].status = "rolled_back_after_failure"
               => \A p \in L!Places \ lmoved : lentry'[p] = lbefore[p]]_L!vars
  BY LegacyUndone
<1>3. L!LegacyInv /\ [L!Next]_L!vars =>
         [\A p \in L!Places :
            ljob # L!Idle /\ lcounts'.edits = lcounts.edits
            /\ L!IsLink(lentry[p]) /\ ~ L!IsLink(lentry'[p])
               => lsaved[p] = lentry[p] \/ p \in lmoved]_L!vars
  BY LegacyLinkIsSaved DEF L!IsLink
<1>4. L!LegacyInv /\ [L!Next]_L!vars =>
         [\A p \in L!Places :
            ljob.step = "removing" /\ lentry[p] \in L!Dirs /\ lentry'[p] = Absent
            /\ lcounts'.edits = lcounts.edits
               => \/ p \in lmoved
                  \/ \E i \in DOMAIN lrecords[ljob.id].applied :
                        LET item == lrecords[ljob.id].applied[i] IN
                        item.place = p /\ lentry[p] = L!Dir(item.content)]_L!vars
  BY LegacySpares
<1>5. L!LegacyInv /\ [L!Next]_L!vars =>
         [\A id \in L!Ids :
            lrecords[id].status = "running" /\ lrecords'[id].status = "complete"
               => \A p \in L!Places \ lmoved :
                     /\ p[2] \in ljob.ids \ lmoved
                     /\ p[1] \in Declared[p[2]]
                     /\ lbefore[p] = L!Link("legacy")
                     => lentry[p] \in L!Dirs]_L!vars
  BY LegacyComplete
<1> QED
  BY <1>1, <1>2, <1>3, <1>4, <1>5, LegacyInvariance, PTL
  DEF LocalSpec, MigrationKeepsLinks, L!Spec, L!MigrationKeepsContent, L!FailureUndone,
      L!LinkIsSaved, L!RollbackSparesEdits, L!CompleteIsWhole

-----------------------------------------------------------------------------
(* local_root.py, config.py *)

LEMMA RootConstants ==
    /\ R!Empty \in R!Root /\ R!Root \subseteq R!Copies
    /\ R!Empty \in R!Copies
    /\ R!NoDir \notin R!Copies
    /\ R!NoConfig \in R!Config
<1>1. R!NoDir \notin R!Copies
  <2>1. DOMAIN R!NoDir = {}
    BY DEF R!NoDir
  <2>2. \A f \in R!Copies : DOMAIN f = Skills
    BY DEF R!Copies
  <2> QED
    BY <2>1, <2>2, RootAssumption
<1>2. R!NoConfig \in R!Config
  BY DEF R!NoConfig, R!Config
<1>3. R!Root \subseteq R!Copies
  BY DEF R!Copies, R!Root
<1> QED
  BY <1>1, <1>2, <1>3 DEF R!Empty, R!Root, R!Content

\* The decisions about a root are statuses, one per skill, that depend on the
\* skill's content there and on its base alone.
LEMMA RootOutcome ==
    ASSUME NEW root \in R!Copies
    PROVE  /\ R!Outcome(root) \in [Skills -> R!D!Statuses]
           /\ \A s \in Skills :
                 R!Outcome(root)[s] = R!D!Classify(rbase[s], root[s], CentralContents[s], FALSE)
BY DEF R!Outcome, R!D!Classify, R!D!ClassifyWithBase, R!D!ClassifyWithoutBase, R!D!Statuses

LEMMA RootOutcomeGoesOn ==
    ASSUME NEW root \in R!Copies, NEW s \in Skills, rbase'[s] = rbase[s], rdest'[s] = root[s]
    PROVE  (R!Outcome(rdest)[s])' = R!Outcome(root)[s]
BY DEF R!Outcome, R!D!Classify, R!D!ClassifyWithBase, R!D!ClassifyWithoutBase

LEMMA RootTypeInit == R!Init => R!RootTypeOK
<1> SUFFICES ASSUME R!Init PROVE R!RootTypeOK
  OBVIOUS
<1>1. rsource \in R!Root /\ rbase \in R!Root /\ (rdest = R!NoDir \/ rdest \in R!Copies)
  BY RootConstants, RootAssumption DEF R!Init, R!Root, R!Content
<1>2. rconfig \in R!Config /\ (~ rconfig.exists => rconfig = R!NoConfig)
  BY RootAssumption DEF R!Init
<1>3. rjob \in R!Job /\ (rjob.step = "idle" <=> rjob = R!Idle)
  BY RootConstants DEF R!Init, R!Idle, R!Job
<1>4. rcounts \in R!Counts
  BY LocalBoundAssumption DEF R!Init, R!Counts
<1> QED
  BY <1>1, <1>2, <1>3, <1>4 DEF R!Init, R!RootTypeOK, R!NoInit

\* What a step does to the job of the migration.
LEMMA RootJobMoves ==
    ASSUME R!RootTypeOK
    PROVE  /\ R!Migrate =>
                 /\ rjob' \in R!Job /\ rjob'.step = "copying"
                 /\ rjob'.hashes = rsource /\ rjob'.outcome = R!Outcome(rsource)
           /\ \A bad \in SUBSET Skills : R!CopyTree(bad) =>
                 /\ rjob' \in R!Job /\ rjob'.step = "renaming"
                 /\ rjob'.staging \in R!Copies
                 /\ \A s \in Skills : rjob'.staging[s] \in {Damaged, rsource[s]}
           /\ R!RenameStaging => rjob' \in R!Job /\ rjob'.step = "verifying"
           /\ R!Verify => /\ rjob' \in R!Job /\ rjob'.step = "writing"
                          /\ rjob'.hashes = rjob.hashes /\ rjob'.outcome = rjob.outcome
           /\ R!ReadConfig => /\ rjob' \in R!Job /\ rjob'.step = "replacing"
                              /\ rjob'.hashes = rjob.hashes /\ rjob'.outcome = rjob.outcome
           /\ R!Idle \in R!Job /\ R!Idle.step = "idle"
<1> USE DEF R!RootTypeOK
<1>1. R!Outcome(rsource) \in [Skills -> R!D!Statuses]
  BY RootOutcome, RootConstants
<1>2. R!Migrate => rjob' \in R!Job /\ rjob'.step = "copying"
                   /\ rjob'.hashes = rsource /\ rjob'.outcome = R!Outcome(rsource)
  BY <1>1, RootConstants DEF R!Migrate, R!Job
<1>3. ASSUME NEW bad \in SUBSET Skills, R!CopyTree(bad)
      PROVE  /\ rjob' \in R!Job /\ rjob'.step = "renaming"
             /\ rjob'.staging \in R!Copies
             /\ \A s \in Skills : rjob'.staging[s] \in {Damaged, rsource[s]}
  <2> DEFINE copy == [s \in Skills |-> IF s \in bad THEN Damaged ELSE rsource[s]]
  <2>1. copy \in R!Copies /\ \A s \in Skills : copy[s] \in {Damaged, rsource[s]}
    BY DEF R!Copies, R!Root
  <2>2. rjob' = [rjob EXCEPT !.step = "renaming", !.staging = copy]
    BY <1>3 DEF R!CopyTree
  <2> HIDE DEF copy
  <2> QED
    BY <2>1, <2>2 DEF R!Job
<1>4. R!RenameStaging => rjob' \in R!Job /\ rjob'.step = "verifying"
  BY DEF R!RenameStaging, R!Job
<1>5. R!Verify => /\ rjob' \in R!Job /\ rjob'.step = "writing"
                  /\ rjob'.hashes = rjob.hashes /\ rjob'.outcome = rjob.outcome
  BY DEF R!Verify, R!Job
<1>6. R!Idle \in R!Job /\ R!Idle.step = "idle"
  BY RootConstants DEF R!Idle, R!Job
<1>7. R!ReadConfig => /\ rjob' \in R!Job /\ rjob'.step = "replacing"
                      /\ rjob'.hashes = rjob.hashes /\ rjob'.outcome = rjob.outcome
  BY DEF R!ReadConfig, R!Job
<1> QED
  BY <1>2, <1>3, <1>4, <1>5, <1>6, <1>7

LEMMA RootTypeNext == R!RootInv /\ [R!Next]_rvars => R!RootTypeOK'
<1> SUFFICES ASSUME R!RootInv, [R!Next]_rvars PROVE R!RootTypeOK'
  OBVIOUS
<1> USE RootJobMoves DEF R!RootInv
<1>t. R!RootTypeOK
  OBVIOUS
<1> USE <1>t
<1>u. /\ rsource \in R!Root /\ rbase \in R!Root
      /\ rdest = R!NoDir \/ rdest \in R!Copies
      /\ rconfig \in R!Config /\ (~ rconfig.exists => rconfig = R!NoConfig)
      /\ rjob \in R!Job /\ (rjob.step = "idle" <=> rjob = R!Idle)
      /\ rinit \in [step: {"idle", "writing"}, stale: BOOLEAN]
      /\ rmoved \in [copied: SUBSET Skills, compared: SUBSET Skills]
      /\ rcounts \in R!Counts
  BY DEF R!RootTypeOK
<1>1. /\ rsource' \in R!Root /\ rbase' \in R!Root
  <2>1. ASSUME NEW s \in Skills, NEW v \in R!Content, R!EditSource(s, v)
        PROVE  rsource' \in R!Root /\ rbase' \in R!Root
    BY <1>u, <2>1 DEF R!EditSource, R!Others, R!Root
  <2>2. ASSUME NEW s \in Skills, R!RecordBase(s) PROVE rsource' \in R!Root /\ rbase' \in R!Root
    BY <1>u, <2>2 DEF R!RecordBase, R!Others, R!Root
  <2> QED
    BY <1>u, <2>1, <2>2
    DEF R!Next, rvars, R!Migrate, R!CopyTree, R!RenameStaging, R!Verify, R!ReadConfig, R!ReplaceConfig, R!Fail,
        R!Stop, R!InitConfig, R!PutConfig, R!SpoilConfig, R!Others
<1>2. rdest' = R!NoDir \/ rdest' \in R!Copies
  <2>1. CASE R!RenameStaging
    BY <1>u, <2>1 DEF R!RenameStaging, R!Job
  <2>2. CASE R!Fail
    BY <1>u, <2>2 DEF R!Fail, R!Removed
  <2> QED
    BY <1>u, <2>1, <2>2
    DEF R!Next, rvars, R!Migrate, R!CopyTree, R!Verify, R!ReadConfig, R!ReplaceConfig, R!Stop, R!InitConfig,
        R!PutConfig, R!SpoilConfig, R!RecordBase, R!EditSource, R!Others
<1>3. rconfig' \in R!Config /\ (~ rconfig'.exists => rconfig' = R!NoConfig)
  <2>1. CASE R!ReplaceConfig
    BY <1>u, <2>1 DEF R!ReplaceConfig, R!WithRoot, R!Job, R!Config
  <2>2. CASE R!PutConfig
    BY <2>2 DEF R!PutConfig, R!NoConfig, R!Config
  <2>3. ASSUME NEW s \in Skills, R!SpoilConfig(s)
        PROVE  rconfig' \in R!Config /\ (~ rconfig'.exists => rconfig' = R!NoConfig)
    BY <1>u, <2>3 DEF R!SpoilConfig, R!Config
  <2> QED
    BY <1>u, <2>1, <2>2, <2>3
    DEF R!Next, rvars, R!Migrate, R!CopyTree, R!RenameStaging, R!Verify, R!ReadConfig, R!Fail, R!Stop,
        R!InitConfig, R!RecordBase, R!EditSource, R!Others
<1>4. rjob' \in R!Job /\ (rjob'.step = "idle" <=> rjob' = R!Idle)
  <2>1. CASE UNCHANGED rjob
    BY <1>u, <2>1
  <2>2. CASE rjob' = R!Idle
    BY <2>2
  <2>3. CASE rjob' \in R!Job /\ rjob'.step # "idle"
    BY <2>3
  <2>4. (UNCHANGED rjob) \/ rjob' = R!Idle \/ (rjob' \in R!Job /\ rjob'.step # "idle")
    BY DEF R!Next, rvars, R!ReadConfig, R!ReplaceConfig, R!Fail, R!Stop, R!InitConfig, R!PutConfig, R!SpoilConfig,
           R!RecordBase, R!EditSource, R!Others
  <2> QED
    BY ONLY <2>1, <2>2, <2>3, <2>4
<1>5. rinit' \in [step: {"idle", "writing"}, stale: BOOLEAN]
  <2>1. ASSUME rinit' = [rinit EXCEPT !.stale = TRUE]
        PROVE  rinit' \in [step: {"idle", "writing"}, stale: BOOLEAN]
    BY <1>u, <2>1
  <2>2. CASE R!InitConfig \/ R!PutConfig
    <3>1. rinit' = [step |-> "writing", stale |-> FALSE] \/ rinit' = [step |-> "idle", stale |-> FALSE]
      BY <2>2 DEF R!InitConfig, R!PutConfig, R!NoInit
    <3>2. [step |-> "writing", stale |-> FALSE] \in [step: {"idle", "writing"}, stale: BOOLEAN]
      OBVIOUS
    <3>3. [step |-> "idle", stale |-> FALSE] \in [step: {"idle", "writing"}, stale: BOOLEAN]
      OBVIOUS
    <3> QED
      BY <3>1, <3>2, <3>3, Zenon
  <2> QED
    BY <1>u, <2>1, <2>2
    DEF R!Next, rvars, R!Migrate, R!CopyTree, R!RenameStaging, R!Verify, R!ReadConfig, R!ReplaceConfig, R!Fail,
        R!Stop, R!SpoilConfig, R!RecordBase, R!EditSource, R!Others
<1>6. rmoved' \in [copied: SUBSET Skills, compared: SUBSET Skills]
  <2>1. ASSUME NEW s \in Skills, R!Others(s)
        PROVE  rmoved' \in [copied: SUBSET Skills, compared: SUBSET Skills]
    <3>1. rmoved' = [when \in {"copied", "compared"} |-> rmoved[when] \cup {s}]
      BY <1>u, <2>1 DEF R!Others
    <3>2. /\ rmoved'.copied = rmoved.copied \cup {s} /\ rmoved'.compared = rmoved.compared \cup {s}
          /\ rmoved' = [copied |-> rmoved.copied \cup {s}, compared |-> rmoved.compared \cup {s}]
      BY <3>1
    <3> QED
      BY <1>u, <3>2
  <2> QED
    BY <1>u, <2>1
    DEF R!Next, rvars, R!Migrate, R!CopyTree, R!RenameStaging, R!Verify, R!ReadConfig, R!ReplaceConfig, R!Fail,
        R!Stop, R!InitConfig, R!PutConfig, R!SpoilConfig, R!RecordBase, R!EditSource
<1>7. rcounts' \in R!Counts
  <2>1. \/ rcounts' = rcounts
        \/ rcounts.migrations < MaxRuns /\ rcounts' = [rcounts EXCEPT !.migrations = @ + 1]
        \/ rcounts.failures < MaxFailures /\ rcounts' = [rcounts EXCEPT !.failures = @ + 1]
        \/ rcounts.edits < MaxEdits /\ rcounts' = [rcounts EXCEPT !.edits = @ + 1]
    BY DEF R!Next, rvars, R!Migrate, R!CopyTree, R!RenameStaging, R!Verify, R!ReadConfig, R!ReplaceConfig,
           R!Fail, R!Stop, R!InitConfig, R!PutConfig, R!SpoilConfig, R!RecordBase, R!EditSource,
           R!Others
  <2> QED
    BY <1>u, <2>1, LocalBoundAssumption DEF R!Counts
<1> QED
  BY <1>1, <1>2, <1>3, <1>4, <1>5, <1>6, <1>7 DEF R!RootTypeOK

\* A step that is not the user's or the daemon's leaves the old root and the
\* base record alone; theirs count each skill they change.
LEMMA RootMoves ==
    ASSUME R!RootTypeOK, [R!Next]_rvars, NEW s \in Skills
    PROVE  /\ s \notin rmoved'.copied =>
                 /\ rsource'[s] = rsource[s]
                 /\ s \notin rmoved.copied \/ \E bad \in SUBSET Skills : R!CopyTree(bad)
           /\ s \notin rmoved'.compared =>
                 /\ rbase'[s] = rbase[s]
                 /\ s \notin rmoved.compared \/ R!Verify
<1>t. /\ rsource \in R!Root /\ rbase \in R!Root
      /\ rmoved \in [copied: SUBSET Skills, compared: SUBSET Skills]
  BY DEF R!RootTypeOK
<1>1. ASSUME NEW t \in Skills, R!Others(t)
      PROVE  /\ rmoved'.copied = rmoved.copied \cup {t}
             /\ rmoved'.compared = rmoved.compared \cup {t}
  <2>1. rmoved' = [when \in {"copied", "compared"} |-> rmoved[when] \cup {t}]
    BY <1>t, <1>1 DEF R!Others
  <2> QED
    BY <2>1
<1>2. ASSUME NEW t \in Skills, NEW v \in R!Content, R!EditSource(t, v)
      PROVE  /\ t # s => rsource'[s] = rsource[s]
             /\ rbase' = rbase /\ R!Others(t)
  BY <1>t, <1>2 DEF R!EditSource, R!Root
<1>3. ASSUME NEW t \in Skills, R!RecordBase(t)
      PROVE  /\ t # s => rbase'[s] = rbase[s]
             /\ rsource' = rsource /\ R!Others(t)
  BY <1>t, <1>3 DEF R!RecordBase, R!Root
<1>4. ASSUME NEW t \in Skills, R!SpoilConfig(t)
      PROVE  rsource' = rsource /\ rbase' = rbase /\ R!Others(t)
  BY <1>4 DEF R!SpoilConfig
<1>5. ASSUME \/ R!Migrate \/ R!RenameStaging \/ R!ReadConfig \/ R!ReplaceConfig \/ R!Fail \/ R!Stop
             \/ R!InitConfig \/ R!PutConfig \/ UNCHANGED rvars
      PROVE  rsource' = rsource /\ rbase' = rbase /\ rmoved' = rmoved
  BY <1>5 DEF rvars, R!Migrate, R!RenameStaging, R!ReadConfig, R!ReplaceConfig, R!Fail, R!Stop, R!InitConfig,
              R!PutConfig
<1>6. ASSUME NEW bad \in SUBSET Skills, R!CopyTree(bad)
      PROVE  rsource' = rsource /\ rbase' = rbase /\ rmoved'.compared = rmoved.compared
  BY <1>t, <1>6 DEF R!CopyTree
<1>7. ASSUME R!Verify
      PROVE  rsource' = rsource /\ rbase' = rbase /\ rmoved'.copied = rmoved.copied
  BY <1>t, <1>7 DEF R!Verify
<1>8. ASSUME NEW t \in Skills,
             \/ \E v \in R!Content : R!EditSource(t, v)
             \/ R!RecordBase(t) \/ R!SpoilConfig(t)
      PROVE  /\ s \notin rmoved'.copied => rsource'[s] = rsource[s] /\ s \notin rmoved.copied
             /\ s \notin rmoved'.compared => rbase'[s] = rbase[s] /\ s \notin rmoved.compared
  <2>1. R!Others(t)
    BY <1>2, <1>3, <1>4, <1>8
  <2>2. t # s => rsource'[s] = rsource[s] /\ rbase'[s] = rbase[s]
    BY <1>2, <1>3, <1>4, <1>8
  <2> QED
    BY <1>1, <2>1, <2>2
<1> QED
  BY <1>5, <1>6, <1>7, <1>8 DEF R!Next

LEMMA RootSoundNext ==
    R!RootInv /\ [R!Next]_rvars =>
       R!ConfiguredRootExists' /\ R!StillOld' /\ R!RoomTillRenamed' /\ R!InitSawNone'
<1> SUFFICES ASSUME R!RootInv, [R!Next]_rvars
             PROVE  R!ConfiguredRootExists' /\ R!StillOld' /\ R!RoomTillRenamed' /\ R!InitSawNone'
  OBVIOUS
<1>u. /\ R!RootTypeOK /\ rconfig \in R!Config /\ rjob \in R!Job
      /\ rjob.step = "idle" <=> rjob = R!Idle
      /\ rinit \in [step: {"idle", "writing"}, stale: BOOLEAN]
      /\ R!ConfiguredRootExists /\ R!StillOld /\ R!RoomTillRenamed /\ R!InitSawNone
  BY DEF R!RootInv, R!RootTypeOK
<1>f. rjob.step \in {"writing", "replacing"} => rdest # R!NoDir
  BY RootConstants DEF R!RootInv, R!CopyIsFaithful, R!Faithful
<1>g. rjob.step = "renaming" => rjob.staging # R!NoDir
  BY RootConstants DEF R!RootInv, R!CopyIsFaithful, R!Faithful
<1> USE RootJobMoves, <1>u
<1>1. CASE R!Migrate
  BY <1>1 DEF R!Migrate, R!ConfiguredRootExists, R!StillOld, R!RoomTillRenamed, R!InitSawNone
<1>2. ASSUME NEW bad \in SUBSET Skills, R!CopyTree(bad)
      PROVE  R!ConfiguredRootExists' /\ R!StillOld' /\ R!RoomTillRenamed' /\ R!InitSawNone'
  BY <1>2 DEF R!CopyTree, R!ConfiguredRootExists, R!StillOld, R!RoomTillRenamed, R!InitSawNone
<1>3. CASE R!RenameStaging
  BY <1>3, <1>g DEF R!RenameStaging, R!ConfiguredRootExists, R!StillOld, R!RoomTillRenamed, R!InitSawNone
<1>4. CASE R!Verify
  BY <1>4 DEF R!Verify, R!ConfiguredRootExists, R!StillOld, R!RoomTillRenamed, R!InitSawNone
<1>5. CASE R!ReadConfig
  BY <1>5, <1>f DEF R!ReadConfig, R!ConfiguredRootExists, R!StillOld, R!RoomTillRenamed, R!InitSawNone
<1>12. CASE R!ReplaceConfig
  BY <1>12, <1>f DEF R!ReplaceConfig, R!ConfiguredRootExists, R!StillOld, R!RoomTillRenamed, R!InitSawNone
<1>6. CASE R!Fail
  BY <1>6 DEF R!Fail, R!Removed, R!ConfiguredRootExists, R!StillOld, R!RoomTillRenamed, R!InitSawNone
<1>7. CASE R!Stop
  BY <1>7 DEF R!Stop, R!ConfiguredRootExists, R!StillOld, R!RoomTillRenamed, R!InitSawNone
<1>8. CASE R!InitConfig
  BY <1>8 DEF R!InitConfig, R!ConfiguredRootExists, R!StillOld, R!RoomTillRenamed, R!InitSawNone
<1>9. CASE R!PutConfig
  BY <1>9 DEF R!PutConfig, R!NoConfig, R!NoInit, R!ConfiguredRootExists, R!StillOld, R!RoomTillRenamed, R!InitSawNone
<1>10. ASSUME NEW s \in Skills,
              \/ \E v \in R!Content : R!EditSource(s, v)
              \/ R!RecordBase(s) \/ R!SpoilConfig(s)
       PROVE  R!ConfiguredRootExists' /\ R!StillOld' /\ R!RoomTillRenamed' /\ R!InitSawNone'
  BY <1>10 DEF R!EditSource, R!RecordBase, R!SpoilConfig, R!Others, R!ConfiguredRootExists, R!StillOld,
              R!RoomTillRenamed, R!InitSawNone, R!Config
<1>11. CASE UNCHANGED rvars
  BY <1>11 DEF rvars, R!ConfiguredRootExists, R!StillOld, R!RoomTillRenamed, R!InitSawNone
<1> QED
  BY <1>1, <1>2, <1>3, <1>4, <1>5, <1>6, <1>7, <1>8, <1>9, <1>10, <1>11, <1>12 DEF R!Next

LEMMA RootFaithfulNext == R!RootInv /\ [R!Next]_rvars => R!CopyIsFaithful'
<1> SUFFICES ASSUME R!RootInv, [R!Next]_rvars
             PROVE  R!CopyIsFaithful'
  OBVIOUS
<1>u. /\ R!RootTypeOK /\ rjob \in R!Job /\ R!CopyIsFaithful
  BY DEF R!RootInv, R!RootTypeOK
\* A copy that was faithful stays so, as every skill that changes is counted.
<1>1. ASSUME NEW copy \in R!Copies, \A s \in Skills \ rmoved.copied : copy[s] \in {Damaged, rsource[s]},
             ~ \E bad \in SUBSET Skills : R!CopyTree(bad)
      PROVE  \A s \in Skills \ rmoved'.copied : copy[s] \in {Damaged, rsource'[s]}
  BY <1>u, <1>1, RootMoves
<1>2. ASSUME NEW bad \in SUBSET Skills, R!CopyTree(bad) PROVE R!CopyIsFaithful'
  <2>1. /\ rjob'.step = "renaming" /\ rjob'.staging \in R!Copies
        /\ \A s \in Skills : rjob'.staging[s] \in {Damaged, rsource[s]}
        /\ rsource' = rsource
    BY <1>u, <1>2, RootJobMoves DEF R!CopyTree
  <2> QED
    BY <2>1 DEF R!CopyIsFaithful, R!Faithful
<1>3. CASE R!RenameStaging
  <2>1. /\ rjob.step = "renaming" /\ rdest' = rjob.staging /\ rjob'.step = "verifying"
    BY <1>u, <1>3, RootJobMoves DEF R!RenameStaging
  <2>2. ~ \E bad \in SUBSET Skills : R!CopyTree(bad)
    BY <2>1 DEF R!CopyTree
  <2> QED
    BY <1>u, <1>1, <2>1, <2>2 DEF R!CopyIsFaithful, R!Faithful
<1>4. ASSUME rjob' = rjob, rdest' = rdest PROVE R!CopyIsFaithful'
  <2>1. CASE \E bad \in SUBSET Skills : R!CopyTree(bad)
    BY <1>2, <2>1
  <2>2. CASE ~ \E bad \in SUBSET Skills : R!CopyTree(bad)
    BY <1>u, <1>1, <1>4, <2>2 DEF R!CopyIsFaithful, R!Faithful
  <2> QED
    BY <2>1, <2>2
<1>5. CASE R!Verify
  <2>1. /\ rjob.step = "verifying" /\ rdest' = rdest /\ rjob'.step = "writing"
    BY <1>u, <1>5, RootJobMoves DEF R!Verify
  <2>2. ~ \E bad \in SUBSET Skills : R!CopyTree(bad)
    BY <2>1 DEF R!CopyTree
  <2> QED
    BY <1>u, <1>1, <2>1, <2>2 DEF R!CopyIsFaithful, R!Faithful
<1>7. CASE R!ReadConfig
  <2>1. /\ rjob.step = "writing" /\ rdest' = rdest /\ rjob'.step = "replacing"
    BY <1>u, <1>7, RootJobMoves DEF R!ReadConfig
  <2>2. ~ \E bad \in SUBSET Skills : R!CopyTree(bad)
    BY <2>1 DEF R!CopyTree
  <2> QED
    BY <1>u, <1>1, <2>1, <2>2 DEF R!CopyIsFaithful, R!Faithful
<1>6. ASSUME rjob'.step \in {"idle", "copying"} PROVE R!CopyIsFaithful'
  BY <1>6 DEF R!CopyIsFaithful
<1> QED
  BY <1>2, <1>3, <1>4, <1>5, <1>6, <1>7, <1>u, RootJobMoves
  DEF R!Next, rvars, R!Migrate, R!ReadConfig, R!ReplaceConfig, R!Fail, R!Stop, R!InitConfig, R!PutConfig,
      R!EditSource, R!RecordBase, R!SpoilConfig, R!Others

LEMMA RootComparedNext == R!RootInv /\ [R!Next]_rvars => R!ComparedIsSame'
<1> SUFFICES ASSUME R!RootInv, [R!Next]_rvars, rjob'.step \in {"writing", "replacing"}
             PROVE  /\ rdest' = rjob'.hashes
                    /\ \A s \in Skills \ rmoved'.compared : R!Outcome(rdest)'[s] = rjob'.outcome[s]
  BY DEF R!ComparedIsSame
<1>u. /\ R!RootTypeOK /\ rjob \in R!Job /\ R!ComparedIsSame
      /\ rjob.step \in {"verifying", "writing", "replacing"} => rdest \in R!Copies
  BY DEF R!RootInv, R!RootTypeOK, R!CopyIsFaithful, R!Faithful
<1>1. \/ /\ rjob.step \in {"writing", "replacing"} /\ rdest' = rdest /\ ~ R!Verify
         /\ rjob'.hashes = rjob.hashes /\ rjob'.outcome = rjob.outcome
      \/ R!Verify
  BY <1>u, RootJobMoves
  DEF R!Next, rvars, R!Migrate, R!CopyTree, R!RenameStaging, R!Verify, R!ReadConfig, R!ReplaceConfig, R!Fail,
      R!Stop, R!InitConfig, R!PutConfig, R!EditSource, R!RecordBase, R!SpoilConfig, R!Others
<1>2. /\ rjob.step \in {"verifying", "writing", "replacing"}
      /\ rdest' = rdest /\ rjob'.hashes = rjob.hashes /\ rjob'.outcome = rjob.outcome
      /\ rdest = rjob.hashes
      /\ \A s \in Skills \ rmoved'.compared : R!Outcome(rdest)[s] = rjob.outcome[s]
  <2>1. CASE R!Verify
    BY <1>u, <2>1, RootJobMoves DEF R!Verify, R!Verified
  <2>2. CASE /\ rjob.step \in {"writing", "replacing"} /\ rdest' = rdest /\ ~ R!Verify
             /\ rjob'.hashes = rjob.hashes /\ rjob'.outcome = rjob.outcome
    BY <1>u, <2>2, RootMoves DEF R!ComparedIsSame
  <2> QED
    BY <1>1, <2>1, <2>2
<1>3. ASSUME NEW s \in Skills \ rmoved'.compared PROVE R!Outcome(rdest)'[s] = R!Outcome(rdest)[s]
  BY <1>u, <1>2, RootMoves, RootOutcomeGoesOn
<1> QED
  BY <1>2, <1>3

LEMMA RootInvInit == R!Init => R!RootInv
BY RootTypeInit, RootAssumption
DEF R!Init, R!Idle, R!NoInit, R!RootInv, R!ConfiguredRootExists, R!StillOld, R!RoomTillRenamed,
    R!CopyIsFaithful, R!ComparedIsSame, R!InitSawNone

LEMMA RootInvNext == R!RootInv /\ [R!Next]_rvars => R!RootInv'
BY RootTypeNext, RootSoundNext, RootFaithfulNext, RootComparedNext DEF R!RootInv

\* Whenever a move of the local root stops, and whoever edits what meanwhile:
\* the configured root is there, the copy is as the old root or known to be
\* damaged, and what was compared decides as the old root did (local_root.py).
THEOREM RootInvariance == R!Spec => []R!RootInv
<1>1. R!Init => R!RootInv
  BY RootInvInit
<1>2. R!RootInv /\ [R!Next]_R!vars => R!RootInv'
  BY RootInvNext DEF rvars, R!vars
<1> QED
  BY <1>1, <1>2, PTL DEF R!Spec

LEMMA RootSwitch ==
    ASSUME R!RootInv, [R!Next]_R!vars, rconfig.root = "old", rconfig'.root = "new"
    PROVE  rjob.step = "replacing"
BY DEF R!Next, R!vars, R!Migrate, R!CopyTree, R!RenameStaging, R!Verify, R!ReadConfig, R!ReplaceConfig,
       R!Fail, R!Stop, R!InitConfig, R!PutConfig, R!NoConfig, R!EditSource, R!RecordBase,
       R!SpoilConfig, R!Others, R!RootInv, R!RootTypeOK, R!Config

LEMMA RootSwitchKeeps ==
    ASSUME R!RootInv, [R!Next]_R!vars, rconfig.root = "old", rconfig'.root = "new"
    PROVE  /\ \A s \in Skills \ rmoved.copied : rdest[s] = rsource[s]
           /\ \A s \in Skills \ rmoved.compared : R!Outcome(rdest)[s] = rjob.outcome[s]
<1>1. rjob.step = "replacing"
  BY RootSwitch
<1>2. /\ rdest = rjob.hashes /\ rjob.hashes \in R!Root
      /\ \A s \in Skills \ rmoved.compared : R!Outcome(rdest)[s] = rjob.outcome[s]
      /\ \A s \in Skills \ rmoved.copied : rdest[s] \in {Damaged, rsource[s]}
  BY <1>1 DEF R!RootInv, R!ComparedIsSame, R!RootTypeOK, R!Job, R!CopyIsFaithful, R!Faithful
<1>3. \A s \in Skills : rdest[s] # Damaged
  BY <1>2, RootAssumption DEF R!Root
<1> QED
  BY <1>2, <1>3

LEMMA RootRoom ==
    ASSUME R!RootInv, [R!Next]_R!vars, rjob # R!Idle, rjob' = R!Idle, rconfig' = rconfig,
           rcounts' = rcounts
    PROVE  rdest' \in {R!NoDir, R!Empty}
<1>u. /\ R!RootTypeOK /\ rconfig \in R!Config /\ rcounts \in R!Counts /\ rconfig.root = "old"
  BY DEF R!RootInv, R!RootTypeOK, R!StillOld
<1>c. rcounts # [rcounts EXCEPT !.failures = @ + 1]
  <2>1. rcounts.failures # rcounts.failures + 1
    BY <1>u, LocalBoundAssumption DEF R!Counts
  <2>2. [rcounts EXCEPT !.failures = @ + 1].failures = rcounts.failures + 1
    BY <1>u DEF R!Counts
  <2> QED
    BY <2>1, <2>2
<1>1. CASE R!Fail
  <2>1. rcounts' # [rcounts EXCEPT !.failures = @ + 1]
    BY <1>c
  <2>2. rjob.step \in {"verifying", "writing"}
    BY <1>1, <2>1 DEF R!Fail
  <2> QED
    BY <1>1, <2>2 DEF R!Fail, R!Removed
<1>2. CASE R!Stop
  BY <1>2, <1>c DEF R!Stop
<1>3. CASE R!ReplaceConfig
  BY <1>3, <1>u DEF R!ReplaceConfig, R!WithRoot, R!RootTypeOK, R!Job, R!Config
<1> QED
  BY <1>1, <1>2, <1>3, <1>u, RootJobMoves
  DEF R!Next, R!vars, R!Migrate, R!CopyTree, R!RenameStaging, R!Verify,
      R!InitConfig, R!PutConfig, R!EditSource, R!RecordBase, R!SpoilConfig, R!Others

LEMMA RootSections ==
    ASSUME R!RootInv, [R!Next]_R!vars, rconfig' # rconfig,
           IF rjob' # rjob THEN rjob.read = rconfig ELSE ~ rinit.stale
    PROVE  /\ rconfig.webdav => rconfig'.webdav
           /\ rconfig.root = "new" => rconfig'.root = "new"
<1>u. /\ rconfig \in R!Config /\ (~ rconfig.exists => rconfig = R!NoConfig) /\ R!InitSawNone
  BY DEF R!RootInv, R!RootTypeOK
<1>1. CASE R!ReplaceConfig
  BY <1>1, <1>u DEF R!ReplaceConfig, R!WithRoot, R!Idle, R!Config
<1>2. CASE R!PutConfig
  BY <1>2, <1>u DEF R!PutConfig, R!NoConfig, R!InitSawNone
<1>3. ASSUME NEW s \in Skills, R!SpoilConfig(s)
      PROVE  /\ rconfig.webdav => rconfig'.webdav
             /\ rconfig.root = "new" => rconfig'.root = "new"
  BY <1>3, <1>u DEF R!SpoilConfig, R!Config
<1> QED
  BY <1>1, <1>2, <1>3
  DEF R!Next, R!vars, R!Migrate, R!CopyTree, R!RenameStaging, R!Verify, R!ReadConfig, R!Fail, R!Stop,
      R!InitConfig, R!EditSource, R!RecordBase, R!Others

\* Moving the local root switches the configuration to a root that exists and
\* holds what the old one held, with the decisions it had; a failure leaves
\* room for the next attempt; the configuration keeps its sections, and a wrong
\* one is an error (local_root.py:41-134, config.py:157-166, 185, 252-272).
THEOREM RootMoveKeepsContentEver == LocalSpec => RootMoveKeepsContent
<1>1. R!RootInv /\ [R!Next]_R!vars =>
         [rconfig.root = "old" /\ rconfig'.root = "new" =>
            \A s \in Skills \ rmoved.copied : rdest[s] = rsource[s]]_R!vars
  BY RootSwitchKeeps
<1>2. R!RootInv /\ [R!Next]_R!vars =>
         [rconfig.root = "old" /\ rconfig'.root = "new" =>
            \A s \in Skills \ rmoved.compared : R!Outcome(rdest)[s] = rjob.outcome[s]]_R!vars
  BY RootSwitchKeeps
<1>3. R!RootInv /\ [R!Next]_R!vars =>
         [rjob # R!Idle /\ rjob' = R!Idle /\ rconfig' = rconfig /\ rcounts' = rcounts
            => rdest' \in {R!NoDir, R!Empty}]_R!vars
  BY RootRoom
<1>4. R!RootInv /\ [R!Next]_R!vars =>
         [rconfig' # rconfig /\ (IF rjob' # rjob THEN rjob.read = rconfig ELSE ~ rinit.stale) =>
            /\ rconfig.webdav => rconfig'.webdav
            /\ rconfig.root = "new" => rconfig'.root = "new"]_R!vars
  BY RootSections
<1>5. R!RootInv => R!ConfiguredRootExists /\ R!WrongConfigIsAnError
  BY DEF R!RootInv, R!WrongConfigIsAnError, R!Settings
<1> QED
  BY <1>1, <1>2, <1>3, <1>4, <1>5, RootInvariance, PTL
  DEF LocalSpec, RootMoveKeepsContent, R!Spec, R!SwitchKeepsContent, R!SwitchKeepsDecisions,
      R!FailureLeavesRoom, R!ConfigKeepsSections

-----------------------------------------------------------------------------
(* All of them *)

\* Whatever a failure, a crash or another actor leaves behind is a state that
\* the next run of each command can start from.
THEOREM LocalTypesOKEver == LocalSpec => []LocalTypesOK
<1>1. A!ApplyInv => A!ApplyTypeOK
  BY DEF A!ApplyInv
<1>2. I!InstallInv => I!InstallTypeOK
  BY DEF I!InstallInv
<1>3. H!ImportInv => H!ImportTypeOK
  BY DEF H!ImportInv
<1>4. L!LegacyInv => L!LegacyTypeOK
  BY DEF L!LegacyInv
<1>5. R!RootInv => R!RootTypeOK
  BY DEF R!RootInv
<1> QED
  BY <1>1, <1>2, <1>3, <1>4, <1>5, ApplyInvariance, InstallInvariance, ImportInvariance,
     LegacyInvariance, RootInvariance, PTL DEF LocalSpec, LocalTypesOK
=============================================================================
