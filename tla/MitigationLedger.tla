-------------------------- MODULE MitigationLedger --------------------------
(***************************************************************************)
(* Guardrails written into the agents' own settings, and taken out again   *)
(* (internal/mitigate/ledger.go): apply backs a file up, replaces it and   *)
(* appends to the ledger; revert restores what the ledger says was there.  *)
(* The agents go on editing the same files, and the program may die        *)
(* between any two of its steps.                                           *)
(*                                                                         *)
(* A settings file is its guardrails and the agents' own edits.  Hashes    *)
(* stand for the bytes hashed, so a record's id, the start of the hash of  *)
(* what was written, is that content.  One change at a time: the explorer  *)
(* serialises its own (serve.mitMu), and runs of the command are assumed   *)
(* not to overlap them.                                                    *)
(***************************************************************************)
EXTENDS Naturals, Sequences, FiniteSets

CONSTANTS
    Targets,    \* the settings files
    None,       \* no settings file
    Guards,     \* the guardrails there are
    MayCrash,   \* BOOLEAN: may the program die?
    MaxEdits,   \* bound: edits by the agents
    MaxApplies, \* bound: changes applied
    MaxRecords  \* bound: a longer ledger is given no first digits of an id

ASSUME TargetsAssumption == None \notin Targets /\ MaxEdits \in Nat

VARIABLES
    file,       \* the settings files
    ledger,     \* ledger.jsonl, and whether its last line was cut short
    torn,
    backups,    \* the contents the backup directory holds
    pc,         \* the change under way: its next step,
    target,     \*   the file it is about, the guardrails to put in it,
    items,
    cur,        \*   the bytes of the file as it read them,
    id, force,  \*   the record to revert, and whether to do so regardless,
    all, todo,  \*   is it all of them, and which are yet to be reverted,
    clean,      \*   and whether there was no error so far
    made,       \* history: the agents' edits
    exposed,    \* history: edits made between a change's read and its write
    discarded,  \* history: edits an agent removed, or a forced revert threw away
    unrecorded, \* history: files written without a record in the ledger
    orig,       \* history: each file before the changes still to be reverted
    live,       \* history: the ledger's changes not reverted since
    outOfTurn,  \* history: files with a later change that was passed over
    due,        \* history: the changed files no agent edited since RevertAll began
    acts        \* bound: what the agents did so far

config  == <<file, made, exposed, discarded, acts>>
log     == <<ledger, torn>>
change  == <<target, items, id, force, all>>
history == <<unrecorded, orig, live, outOfTurn>>
vars == <<config, log, change, history, backups, pc, cur, todo, clean, due>>

Config(there, guards, edits) == [there |-> there, guards |-> guards, edits |-> edits]
Absent == Config(FALSE, {}, {})
Configs == {c \in [there : BOOLEAN, guards : SUBSET Guards, edits : SUBSET (1 .. MaxEdits)] :
               ~c.there => c = Absent}

\* Render: what the agents put into the file is kept.  Not so of the file of rules for
\* Codex, which is agentdfir's own: its Render keeps the rules and no other line
\* (plan.go:409-457), and the module is about the settings files.
Render(c, is) == Config(TRUE, c.guards \cup is, c.edits)

\* A record: of an apply, under its own id, or of the revert of the one with id c.
Record(action, t, is, before, after, c) ==
    [action |-> action, target |-> t, items |-> is, before |-> before,
     after |-> after, id |-> c]
NewId(after) == after
Applies == {i \in DOMAIN ledger : ledger[i].action = "apply"}
WasReverted(c) ==
    \E i \in DOMAIN ledger : ledger[i].action = "revert" /\ ledger[i].id = c
\* The record an id names: the last one with that id.
Named(c) == CHOOSE i \in Applies :
               /\ ledger[i].id = c
               /\ \A j \in Applies : ledger[j].id = c => j <= i

LiveOn(t) == {i \in live : ledger[i].target = t}
-----------------------------------------------------------------------------
Init ==
    /\ file \in [Targets -> {Absent, Config(TRUE, {}, {})}]
    /\ ledger = <<>> /\ torn = FALSE /\ backups = {}
    /\ pc = "idle" /\ target = None /\ items = {} /\ cur = Absent
    /\ id = Absent /\ force = FALSE /\ all = FALSE /\ todo = {} /\ clean = TRUE
    /\ made = {} /\ exposed = {} /\ discarded = {} /\ unrecorded = {}
    /\ orig = file /\ live = {} /\ outOfTurn = {} /\ due = {} /\ acts = 0

\* The change is over, and what it held forgotten.
Idle ==
    /\ pc' = "idle" /\ target' = None /\ items' = {} /\ cur' = Absent /\ id' = Absent
    /\ force' = FALSE /\ all' = FALSE /\ todo' = {} /\ clean' = TRUE /\ due' = {}

\* An agent, or the person, adds to a file, takes a guardrail out, removes it.
Rewriting(t) == t = target /\ pc \in {"backup", "write", "restore"}
AgentEdits(t) ==
    /\ acts < MaxEdits /\ acts' = acts + 1
    /\ due' = due \ {t}
    /\ \/ /\ file' = [file EXCEPT ![t] = Config(TRUE, @.guards, @.edits \cup {acts'})]
          /\ made' = made \cup {acts'}
          /\ exposed' = IF Rewriting(t) THEN exposed \cup {acts'} ELSE exposed
          /\ UNCHANGED discarded
       \/ /\ \E g \in file[t].guards :
                 file' = [file EXCEPT ![t].guards = @ \ {g}]
          /\ UNCHANGED <<made, exposed, discarded>>
       \/ /\ file[t].there /\ file' = [file EXCEPT ![t] = Absent]
          /\ discarded' = discarded \cup file[t].edits
          /\ UNCHANGED <<made, exposed>>
    /\ UNCHANGED <<log, change, history, backups, pc, cur, todo, clean>>
-----------------------------------------------------------------------------
\* A change is planned on the file as it is now, and later applied.
PlanApply(t, is) ==
    /\ pc = "idle" /\ Cardinality(Applies) < MaxApplies
    /\ Render(file[t], is) # file[t]
    /\ pc' = "reread" /\ target' = t /\ items' = is
    /\ UNCHANGED <<config, log, id, force, all, history, backups, cur, todo, clean, due>>

\* applyOne reads it again, and leaves it if the guardrails are there by now.
Reread ==
    /\ pc = "reread"
    /\ IF Render(file[target], items) = file[target] THEN Idle
       ELSE /\ cur' = file[target]
            /\ pc' = IF cur'.there THEN "backup" ELSE "write"
            /\ UNCHANGED <<change, todo, clean, due>>
    /\ UNCHANGED <<config, log, history, backups>>

Backup ==
    /\ pc = "backup" /\ pc' = "write"
    /\ backups' = backups \cup {cur}
    /\ UNCHANGED <<config, log, change, history, cur, todo, clean, due>>

Write ==
    /\ pc = "write" /\ pc' = "record"
    /\ file' = [file EXCEPT ![target] = Render(cur, items)]
    /\ orig' = IF LiveOn(target) = {} THEN [orig EXCEPT ![target] = cur] ELSE orig
    /\ UNCHANGED <<log, change, backups, made, exposed, discarded, acts, unrecorded,
                   live, outOfTurn, cur, todo, clean, due>>

\* Mutant: a change is given up after the file was replaced.
ApplyFailsLate ==
    /\ pc \in {"backup", "write", "record"} /\ Idle
    /\ UNCHANGED <<config, log, history, backups>>

\* A backup, or a replacement, that fails leaves the file as it was.
ApplyFails ==
    /\ pc \in {"backup", "write"} /\ Idle
    /\ UNCHANGED <<config, log, history, backups>>

Entry == LET after == Render(cur, items)
         IN  Record("apply", target, items, cur, after, NewId(after))

\* appendLedger refuses to extend a ledger that does not verify.
RecordApply ==
    /\ pc = "record" /\ Idle
    /\ IF torn
       THEN unrecorded' = unrecorded \cup {target} /\ UNCHANGED <<ledger, live>>
       ELSE /\ ledger' = Append(ledger, Entry)
            /\ live' = live \cup {Len(ledger')}
            /\ UNCHANGED unrecorded
    /\ UNCHANGED <<config, torn, orig, outOfTurn, backups>>
-----------------------------------------------------------------------------
\* Revert of one record.
BeginRevert(i, f) ==
    /\ pc = "idle"
    /\ pc' = "check" /\ id' = ledger[i].id /\ force' = f
    /\ UNCHANGED <<config, log, target, items, all, history, backups, cur, todo, clean, due>>

\* RevertAll: what Status does not call reverted.
BeginRevertAll(f) ==
    /\ pc = "idle" /\ ~torn
    /\ todo' = {i \in Applies : ~WasReverted(ledger[i].id)}
    /\ pc' = "next" /\ force' = f /\ all' = TRUE
    /\ due' = {t \in Targets : LiveOn(t) # {}}
    /\ UNCHANGED <<config, log, target, items, id, history, backups, cur, clean>>

\* Mutant: oldest first.
NextRevertOldest ==
    /\ pc = "next"
    /\ \E i \in todo :
          /\ \A j \in todo : i <= j
          /\ todo' = todo \ {i} /\ id' = ledger[i].id /\ pc' = "check"
    /\ UNCHANGED <<config, log, target, items, force, all, history, backups, cur, clean, due>>

\* RevertAll goes on to the next record, the newest left.  Its end is a state of
\* its own, so that what it promises can be stated.
NextRevert ==
    /\ pc = "next"
    /\ \E i \in todo :
          /\ \A j \in todo : j <= i
          /\ todo' = todo \ {i} /\ id' = ledger[i].id /\ pc' = "check"
    /\ UNCHANGED <<config, log, target, items, force, all, history, backups, cur, clean, due>>

LastRevert ==
    /\ pc = "next" /\ todo = {}
    /\ IF all THEN pc' = "done" /\ UNCHANGED <<change, cur, todo, clean, due>> ELSE Idle
    /\ UNCHANGED <<config, log, history, backups>>

Done == pc = "done" /\ Idle /\ UNCHANGED <<config, log, history, backups>>

Refused == pc' = "next" /\ clean' = FALSE /\ UNCHANGED <<target, cur>>

\* Mutant: the file is not compared with what was written.
CheckRevertBlindly ==
    /\ pc = "check"
    /\ \E whole \in {all \/ Len(ledger) >= MaxRecords, TRUE} :
          IF torn \/ (whole /\ WasReverted(id)) THEN Refused
          ELSE LET r == ledger[Named(id)] IN
               /\ pc' = "restore" /\ target' = r.target /\ cur' = file[r.target]
               /\ UNCHANGED clean
    /\ UNCHANGED <<config, log, items, id, force, all, history, backups, todo, due>>

\* Revert refuses if the change was reverted before, or, unless forced, if the
\* file is no longer what was written.  Whoever reverts one change may give the first
\* digits of its id alone; these find the record, but not that it was reverted.
CheckRevert ==
    /\ pc = "check"
    /\ \E whole \in {all \/ Len(ledger) >= MaxRecords, TRUE} :
          IF torn \/ (whole /\ WasReverted(id)) THEN Refused
          ELSE LET r == ledger[Named(id)] IN
               IF file[r.target].there /\ file[r.target] # r.after /\ ~force THEN Refused
               ELSE /\ pc' = "restore" /\ target' = r.target /\ cur' = file[r.target]
                    /\ UNCHANGED clean
    /\ UNCHANGED <<config, log, items, id, force, all, history, backups, todo, due>>

\* The backup is put back, or a file that was created is removed.
Restore ==
    /\ pc = "restore"
    /\ LET before == ledger[Named(id)].before IN
       IF before.there /\ before \notin backups
       THEN pc' = "next" /\ clean' = FALSE /\ UNCHANGED <<file, discarded>>
       ELSE /\ file' = [file EXCEPT ![target] = before]
            /\ discarded' = IF force THEN discarded \cup (cur.edits \ before.edits)
                            ELSE discarded
            /\ pc' = "record revert" /\ UNCHANGED clean
    /\ UNCHANGED <<log, change, history, backups, made, exposed, acts, cur, todo, due>>

RestoreFails ==
    /\ pc = "restore" /\ pc' = "next" /\ clean' = FALSE
    /\ UNCHANGED <<config, log, change, history, backups, cur, todo, due>>

RecordRevert ==
    /\ pc = "record revert" /\ pc' = "next"
    /\ LET i == Named(id) IN
       /\ ledger' = Append(ledger, Record("revert", target, {}, cur, ledger[i].before, id))
       /\ live' = live \ {i}
       /\ outOfTurn' = IF \E j \in LiveOn(target) : j > i /\ ledger[j].id \notin {ledger[k].id : k \in todo}
                       THEN outOfTurn \cup {target} ELSE outOfTurn
    /\ UNCHANGED <<config, torn, change, unrecorded, orig, backups, cur, todo, clean, due>>

\* The program dies; a record it was appending may be cut short.
Crash ==
    /\ MayCrash /\ pc # "idle" /\ Idle
    /\ IF pc \in {"record", "record revert"}
       THEN unrecorded' = unrecorded \cup {target} /\ torn' \in {torn, TRUE}
       ELSE UNCHANGED <<unrecorded, torn>>
    /\ UNCHANGED <<config, ledger, orig, live, outOfTurn, backups>>

Apply == Reread \/ Backup \/ Write \/ ApplyFails \/ RecordApply
Revert == NextRevert \/ LastRevert \/ Done \/ CheckRevert \/ Restore \/ RestoreFails \/ RecordRevert
Next ==
    \/ \E t \in Targets : AgentEdits(t) \/ \E is \in (SUBSET Guards) \ {{}} : PlanApply(t, is)
    \/ \E f \in BOOLEAN : BeginRevertAll(f) \/ \E i \in Applies : BeginRevert(i, f)
    \/ Apply \/ Revert \/ Crash

Spec == Init /\ [][Next]_vars
-----------------------------------------------------------------------------
\* The change under way is of a known file, and backed up where it was there.
TypeOK ==
    /\ file \in [Targets -> Configs] /\ cur \in Configs /\ id \in Configs
    /\ backups \subseteq Configs /\ target \in Targets \cup {None} /\ items \subseteq Guards
    /\ pc \in {"idle", "reread", "backup", "write", "record", "next", "check",
              "restore", "record revert", "done"}
    /\ (pc \notin {"idle", "next", "check", "done"} => target \in Targets)
    /\ (pc = "write" => cur \in backups \cup {Absent})
    /\ torn \in BOOLEAN /\ force \in BOOLEAN /\ all \in BOOLEAN /\ clean \in BOOLEAN
    /\ live \subseteq Applies

\* What an agent writes into its settings is not lost: it stays in a file, unless
\* it was written in the instant between a change's read and its write, or someone
\* threw it away.  (docs/mitigate.md:101-103)
EditsSurvive ==
    \A e \in made : \/ e \in exposed \cup discarded
                   \/ \E t \in Targets : e \in file[t].edits

\* Every guardrail in a file is one the ledger tells of, so that it can be traced
\* and taken out, but for the one being recorded, and unless the program died or
\* the ledger refused the record.
GuardsAccounted ==
    \A t \in Targets \ unrecorded : \A g \in file[t].guards :
        \/ pc = "record" /\ t = target
        \/ \E i \in Applies : ledger[i].target = t /\ g \in ledger[i].items

\* "undo every applied change, newest first" (cli/mitigate_cmd.go:53): when it reports no error, every file
\* with a change still in it is as it was before the first of them.
RevertAllRestores ==
    (pc = "done" /\ clean) =>
        \A t \in due \ (unrecorded \cup outOfTurn) : file[t] = orig[t] /\ LiveOn(t) = {}

\* The same while no two changes have the same id.
RevertAllRestoresDistinct ==
    (\A i, j \in Applies : ledger[i].id = ledger[j].id => i = j) => RevertAllRestores
=============================================================================
