------------------------ MODULE MitigationLedgerProofs ------------------------
(***************************************************************************)
(* Proofs about MitigationLedger, for any settings files and guardrails,   *)
(* with crashes or without: the agents' edits survive, every guardrail is  *)
(* in the ledger, and a revert of everything restores every file as long   *)
(* as no two changes have the same id.                                     *)
(***************************************************************************)
EXTENDS MitigationLedger, SequenceTheorems, WellFoundedInduction, TLAPS

Records == [action : {"apply", "revert"}, target : Targets, items : SUBSET Guards,
            before : Configs, after : Configs, id : Configs]
Reverting == {"check", "restore", "record revert"}

FilesTyped ==
    /\ file \in [Targets -> Configs] /\ orig \in [Targets -> Configs]
    /\ cur \in Configs /\ backups \subseteq Configs /\ acts \in 0 .. MaxEdits
LedgerTyped ==
    /\ ledger \in Seq(Records) /\ live \subseteq Applies /\ todo \subseteq Applies
ChangeTyped ==
    /\ target \in Targets \cup {None} /\ items \subseteq Guards /\ id \in Configs
    /\ pc \in {"idle", "reread", "backup", "write", "record", "next", "check",
              "restore", "record revert", "done"}
    /\ (pc \notin {"idle", "next", "check", "done"} => target \in Targets)
    /\ (pc = "write" => cur \in backups \cup {Absent})
    /\ torn \in BOOLEAN /\ force \in BOOLEAN /\ all \in BOOLEAN /\ clean \in BOOLEAN
\* The record to revert is one of the ledger, and of the file at hand.
ReversalNamed ==
    /\ pc \in Reverting => \E i \in Applies : ledger[i].id = id
    /\ pc \in {"restore", "record revert"} => ledger[Named(id)].target = target
Typed == FilesTyped /\ LedgerTyped /\ ChangeTyped /\ ReversalNamed

LEMMA ConfigFields ==
    ASSUME NEW a, NEW b, NEW c
    PROVE  Config(a, b, c).there = a /\ Config(a, b, c).guards = b /\ Config(a, b, c).edits = c
  BY DEF Config

LEMMA ConfigIn ==
    /\ Absent \in Configs /\ Absent.guards = {} /\ Absent.edits = {} /\ Absent.there = FALSE
    /\ \A b \in SUBSET Guards, c \in SUBSET (1 .. MaxEdits) : Config(TRUE, b, c) \in Configs
    /\ \A x \in Configs :
          /\ x.there \in BOOLEAN /\ x.guards \in SUBSET Guards /\ x.edits \in SUBSET (1 .. MaxEdits)
          /\ ~x.there => x = Absent
<1>1. Absent.guards = {} /\ Absent.edits = {} /\ Absent.there = FALSE
  BY DEF Absent, Config
<1>2. Absent \in Configs
  BY DEF Absent, Config, Configs
<1>3. \A b \in SUBSET Guards, c \in SUBSET (1 .. MaxEdits) : Config(TRUE, b, c) \in Configs
  BY DEF Config, Configs
<1>4. \A x \in Configs :
          /\ x.there \in BOOLEAN /\ x.guards \in SUBSET Guards /\ x.edits \in SUBSET (1 .. MaxEdits)
          /\ ~x.there => x = Absent
  BY DEF Configs
<1> QED BY <1>1, <1>2, <1>3, <1>4

LEMMA RenderIn ==
    ASSUME NEW x \in Configs, NEW is \in SUBSET Guards
    PROVE  /\ Render(x, is) \in Configs /\ Render(x, is).there = TRUE
           /\ Render(x, is).guards = x.guards \cup is /\ Render(x, is).edits = x.edits
<1>1. Render(x, is) = Config(TRUE, x.guards \cup is, x.edits)
  BY DEF Render
<1>2. x.guards \cup is \in SUBSET Guards /\ x.edits \in SUBSET (1 .. MaxEdits)
  BY ConfigIn
<1>3. /\ Render(x, is).there = TRUE /\ Render(x, is).guards = x.guards \cup is
      /\ Render(x, is).edits = x.edits
  BY <1>1 DEF Config
<1>4. Render(x, is) \in Configs
  BY <1>1, <1>2, ConfigIn
<1> QED BY <1>3, <1>4

LEMMA RecordIn ==
    ASSUME NEW a \in {"apply", "revert"}, NEW t \in Targets, NEW is \in SUBSET Guards,
           NEW b \in Configs, NEW c \in Configs, NEW d \in Configs
    PROVE  /\ Record(a, t, is, b, c, d) \in Records
           /\ Record(a, t, is, b, c, d).action = a /\ Record(a, t, is, b, c, d).target = t
           /\ Record(a, t, is, b, c, d).items = is /\ Record(a, t, is, b, c, d).before = b
           /\ Record(a, t, is, b, c, d).after = c /\ Record(a, t, is, b, c, d).id = d
  BY DEF Record, Records

\* The ledger only grows, by a record at its end.
LEMMA Extended ==
    ASSUME ledger \in Seq(Records), NEW r \in Records, ledger' = Append(ledger, r)
    PROVE  /\ ledger' \in Seq(Records) /\ Len(ledger') = Len(ledger) + 1
           /\ Len(ledger) + 1 \notin DOMAIN ledger /\ ledger'[Len(ledger) + 1] = r
           /\ DOMAIN ledger' = DOMAIN ledger \cup {Len(ledger) + 1}
           /\ \A i \in DOMAIN ledger : ledger'[i] = ledger[i] /\ i \in Nat /\ i < Len(ledger) + 1
           /\ r.action = "apply" => Applies' = Applies \cup {Len(ledger) + 1}
           /\ r.action # "apply" => Applies' = Applies
<1>1. /\ ledger' \in Seq(Records) /\ Len(ledger') = Len(ledger) + 1
      /\ Len(ledger) + 1 \notin DOMAIN ledger /\ ledger'[Len(ledger) + 1] = r
      /\ DOMAIN ledger' = DOMAIN ledger \cup {Len(ledger) + 1}
      /\ \A i \in DOMAIN ledger : ledger'[i] = ledger[i] /\ i \in Nat /\ i < Len(ledger) + 1
  OBVIOUS
<1> QED BY <1>1 DEF Applies

LEMMA RecordAt ==
    ASSUME ledger \in Seq(Records), NEW i \in DOMAIN ledger
    PROVE  /\ ledger[i].target \in Targets /\ ledger[i].items \in SUBSET Guards
           /\ ledger[i].before \in Configs /\ ledger[i].after \in Configs
           /\ ledger[i].id \in Configs /\ ledger[i].action \in {"apply", "revert"}
<1>1. ledger[i] \in Records
  OBVIOUS
<1> QED BY <1>1 DEF Records

\* The last of a set of places, and so the record that an id names.
LEMMA LastPlace ==
    ASSUME NEW n \in Nat, NEW S \in SUBSET (1 .. n), S # {}
    PROVE  \E i \in S : \A j \in S : j <= i
<1> DEFINE T == {n - i : i \in S}
           R == OpToRel(<, Nat)
<1>1. \A i \in S : i \in Int /\ n - i \in Nat
  OBVIOUS
<1>2. T \subseteq Nat /\ T # {}
  BY <1>1
<1>3. IsWellFoundedOn(R, Nat)
  BY NatLessThanWellFounded
<1>3a. \A x, y \in Nat : <<x, y>> \in R <=> x < y
  BY DEF OpToRel
<1> HIDE DEF R
<1>4. PICK x \in T : \A y \in T : ~ (<<y, x>> \in R)
  <2> HIDE DEF T
  <2> QED BY <1>2, <1>3, WFMin
<1>5. PICK i \in S : x = n - i
  BY <1>4
<1>6. ASSUME NEW j \in S PROVE j <= i
  <2>1. n - j \in T /\ n - j \in Nat /\ x \in Nat
    BY <1>1, <1>2, <1>4
  <2>2. ~ (n - j < x)
    BY <1>3a, <1>4, <2>1
  <2> QED BY <1>1, <1>5, <2>2
<1> QED BY <1>6

LEMMA NamedIn ==
    ASSUME ledger \in Seq(Records), NEW c, \E i \in Applies : ledger[i].id = c
    PROVE  /\ Named(c) \in Applies /\ ledger[Named(c)].id = c /\ ledger[Named(c)] \in Records
           /\ \A j \in Applies : ledger[j].id = c => j <= Named(c)
<1> DEFINE S == {i \in Applies : ledger[i].id = c}
<1>1. Len(ledger) \in Nat /\ S \in SUBSET (1 .. Len(ledger)) /\ S # {}
  BY DEF Applies
<1>2. \E i \in S : \A j \in S : j <= i
  <2> HIDE DEF S
  <2> QED BY <1>1, LastPlace
<1>3. \E i \in Applies : ledger[i].id = c /\ \A j \in Applies : ledger[j].id = c => j <= i
  BY <1>2
<1>4. /\ Named(c) \in Applies /\ ledger[Named(c)].id = c
      /\ \A j \in Applies : ledger[j].id = c => j <= Named(c)
  BY <1>3 DEF Named
<1>5. \A i \in Applies : ledger[i] \in Records
  BY DEF Applies
<1> QED BY <1>4, <1>5

\* What an agent does to a file: it adds an edit, takes a guardrail out, or
\* removes it.
LEMMA AgentShape ==
    ASSUME Typed, NEW t \in Targets, AgentEdits(t)
    PROVE  /\ \E x \in Configs :
                 /\ file' = [file EXCEPT ![t] = x] /\ x.guards \subseteq file[t].guards
                 /\ \/ /\ x.edits = file[t].edits \cup {acts'} /\ made' = made \cup {acts'}
                       /\ exposed' = IF Rewriting(t) THEN exposed \cup {acts'} ELSE exposed
                       /\ UNCHANGED discarded
                    \/ x.edits = file[t].edits /\ UNCHANGED <<made, exposed, discarded>>
                    \/ /\ x = Absent /\ discarded' = discarded \cup file[t].edits
                       /\ UNCHANGED <<made, exposed>>
           /\ acts' \in 0 .. MaxEdits /\ due' = due \ {t}
           /\ UNCHANGED <<log, change, history, backups, pc, cur, todo, clean>>
<1>1. /\ acts' = acts + 1 /\ acts < MaxEdits /\ due' = due \ {t}
      /\ UNCHANGED <<log, change, history, backups, pc, cur, todo, clean>>
  BY DEF AgentEdits
<1>2. acts' \in 1 .. MaxEdits
  BY <1>1, TargetsAssumption DEF Typed, FilesTyped
<1>3. file[t] \in Configs /\ t \in DOMAIN file
  BY DEF Typed, FilesTyped
<1>4. /\ file[t].guards \in SUBSET Guards /\ file[t].edits \in SUBSET (1 .. MaxEdits)
      /\ ~file[t].there => file[t] = Absent
  BY <1>3, ConfigIn
<1>5. \E x \in Configs :
        /\ file' = [file EXCEPT ![t] = x] /\ x.guards \subseteq file[t].guards
        /\ \/ /\ x.edits = file[t].edits \cup {acts'} /\ made' = made \cup {acts'}
              /\ exposed' = IF Rewriting(t) THEN exposed \cup {acts'} ELSE exposed
              /\ UNCHANGED discarded
           \/ x.edits = file[t].edits /\ UNCHANGED <<made, exposed, discarded>>
           \/ /\ x = Absent /\ discarded' = discarded \cup file[t].edits
              /\ UNCHANGED <<made, exposed>>
  <2>1. CASE /\ file' = [file EXCEPT ![t] = Config(TRUE, @.guards, @.edits \cup {acts'})]
             /\ made' = made \cup {acts'}
             /\ exposed' = IF Rewriting(t) THEN exposed \cup {acts'} ELSE exposed
             /\ UNCHANGED discarded
    <3> DEFINE x == Config(TRUE, file[t].guards, file[t].edits \cup {acts'})
    <3>1. x \in Configs
      <4>1. file[t].edits \cup {acts'} \in SUBSET (1 .. MaxEdits)
        BY <1>2, <1>4
      <4> QED BY <1>4, <4>1, ConfigIn
    <3>2. x.guards = file[t].guards /\ x.edits = file[t].edits \cup {acts'}
      BY DEF Config
    <3>3. file' = [file EXCEPT ![t] = x]
      BY <2>1
    <3> HIDE DEF x
    <3> QED BY <2>1, <3>1, <3>2, <3>3
  <2>2. CASE \E g \in file[t].guards :
                /\ file' = [file EXCEPT ![t].guards = @ \ {g}]
                /\ UNCHANGED <<made, exposed, discarded>>
    <3>1. PICK g \in file[t].guards : /\ file' = [file EXCEPT ![t].guards = @ \ {g}]
                                      /\ UNCHANGED <<made, exposed, discarded>>
      BY <2>2
    <3> DEFINE x == [file[t] EXCEPT !.guards = @ \ {g}]
    <3>2. file[t].there = TRUE
      <4>1. file[t] # Absent
        BY <3>1, ConfigIn
      <4> QED BY <1>3, <1>4, <4>1, ConfigIn
    <3>3. x \in Configs /\ x.guards = file[t].guards \ {g} /\ x.edits = file[t].edits
      BY <1>3, <1>4, <3>2 DEF Configs
    <3>4. file' = [file EXCEPT ![t] = x]
      BY <3>1
    <3> HIDE DEF x
    <3> QED BY <3>1, <3>3, <3>4
  <2>3. CASE /\ file' = [file EXCEPT ![t] = Absent] /\ discarded' = discarded \cup file[t].edits
             /\ UNCHANGED <<made, exposed>>
    BY <2>3, ConfigIn
  <2> QED BY <2>1, <2>2, <2>3 DEF AgentEdits
<1>6. acts' \in 0 .. MaxEdits
  BY <1>2
<1> QED BY <1>1, <1>5, <1>6, Zenon

LEMMA TypedInit == Init => Typed
<1> SUFFICES ASSUME Init PROVE Typed
  OBVIOUS
<1>1. Absent \in Configs /\ Config(TRUE, {}, {}) \in Configs
  BY ConfigIn
<1>2. file \in [Targets -> Configs] /\ orig = file
  BY <1>1 DEF Init
<1>3. FilesTyped
  BY <1>1, <1>2, TargetsAssumption DEF Init, FilesTyped
<1>4. LedgerTyped
  BY DEF Init, LedgerTyped
<1>5. ChangeTyped /\ ReversalNamed
  BY <1>1 DEF Init, ChangeTyped, ReversalNamed, Reverting
<1> QED BY <1>3, <1>4, <1>5 DEF Typed

\* The record of what is applied, and that of a revert.
LEMMA EntryIn ==
    ASSUME Typed, pc = "record"
    PROVE  /\ Entry \in Records /\ Entry.action = "apply" /\ Entry.target = target
           /\ Entry.items = items /\ Entry.before = cur /\ Entry.after = Render(cur, items)
           /\ Entry.id = Entry.after
<1>1. target \in Targets /\ items \in SUBSET Guards /\ cur \in Configs
  BY DEF Typed, ChangeTyped, FilesTyped
<1>2. Render(cur, items) \in Configs
  BY <1>1, RenderIn
<1>3. Entry = Record("apply", target, items, cur, Render(cur, items), Render(cur, items))
  BY DEF Entry, NewId
<1> QED BY <1>1, <1>2, <1>3, RecordIn

LEMMA ReversalIn ==
    ASSUME Typed, pc = "record revert"
    PROVE  LET r == Record("revert", target, {}, cur, ledger[Named(id)].before, id)
           IN  r \in Records /\ r.action = "revert" /\ r.id = id
<1>1. target \in Targets /\ cur \in Configs /\ id \in Configs
  BY DEF Typed, ChangeTyped, FilesTyped
<1>2. \E i \in Applies : ledger[i].id = id
  BY DEF Typed, ReversalNamed, Reverting
<1>3. ledger[Named(id)].before \in Configs
  <2>1. ledger[Named(id)] \in Records
    BY <1>2, NamedIn DEF Typed, LedgerTyped
  <2> QED BY <2>1 DEF Records
<1>4. {} \in SUBSET Guards
  OBVIOUS
<1> DEFINE b == ledger[Named(id)].before
           r == Record("revert", target, {}, cur, b, id)
<1>5. b \in Configs
  BY <1>3
<1> HIDE DEF b
<1>6. r \in Records /\ r.action = "revert" /\ r.id = id
  BY <1>1, <1>4, <1>5 DEF Record, Records
<1> QED BY <1>6 DEF b

LEMMA TypedStep ==
    ASSUME Typed, [Next]_vars
    PROVE  Typed'
<1> USE DEF Reverting
<1>0. /\ file \in [Targets -> Configs] /\ orig \in [Targets -> Configs]
      /\ cur \in Configs /\ backups \subseteq Configs /\ acts \in 0 .. MaxEdits
      /\ ledger \in Seq(Records) /\ live \subseteq Applies /\ todo \subseteq Applies
      /\ target \in Targets \cup {None} /\ items \subseteq Guards /\ id \in Configs
      /\ torn \in BOOLEAN /\ force \in BOOLEAN /\ all \in BOOLEAN /\ clean \in BOOLEAN
  BY DEF Typed, FilesTyped, LedgerTyped, ChangeTyped
<1>1. UNCHANGED ledger => Applies' = Applies
  BY DEF Applies
<1>2. ASSUME Idle, torn' \in BOOLEAN, UNCHANGED <<file, orig, backups, acts>>,
             ledger' \in Seq(Records), live' \subseteq Applies'
      PROVE  Typed'
  BY <1>0, <1>2, ConfigIn DEF Idle, Typed, FilesTyped, LedgerTyped, ChangeTyped, ReversalNamed
<1>3. CASE \E t \in Targets : AgentEdits(t)
  <2>1. PICK t \in Targets : AgentEdits(t)
    BY <1>3
  <2>2. PICK x \in Configs : file' = [file EXCEPT ![t] = x]
    BY <2>1, AgentShape
  <2>3. /\ acts' \in 0 .. MaxEdits
        /\ UNCHANGED <<log, change, history, backups, pc, cur, todo, clean>>
    BY <2>1, AgentShape
  <2>4. FilesTyped'
    BY <1>0, <2>2, <2>3 DEF FilesTyped, history
  <2>5. LedgerTyped' /\ ChangeTyped' /\ ReversalNamed'
    BY <2>3 DEF Typed, LedgerTyped, ChangeTyped, ReversalNamed, log, change, history, Applies, Named
  <2> QED BY <2>4, <2>5 DEF Typed
<1>4. CASE \E t \in Targets : \E is \in (SUBSET Guards) \ {{}} : PlanApply(t, is)
  <2>1. PICK t \in Targets, is \in (SUBSET Guards) \ {{}} : PlanApply(t, is)
    BY <1>4
  <2> QED BY <1>0, <1>1, <2>1 DEF PlanApply, Typed, FilesTyped, LedgerTyped, ChangeTyped,
          ReversalNamed, config, log, history
<1>5. CASE Reread
  <2>1. /\ UNCHANGED <<file, orig, backups, acts, torn, ledger, live>>
        /\ pc = "reread" /\ target \in Targets
    BY <1>5 DEF Reread, config, log, history, Typed, ChangeTyped
  <2>2. CASE Idle
    BY <1>0, <1>1, <1>2, <2>1, <2>2
  <2>3. CASE /\ cur' = file[target] /\ pc' = IF cur'.there THEN "backup" ELSE "write"
             /\ UNCHANGED <<change, todo, clean, due>>
    <3>1. cur' \in Configs
      BY <1>0, <2>1, <2>3
    <3>2. pc' = "backup" \/ (pc' = "write" /\ cur' = Absent)
      BY <2>3, <3>1, ConfigIn
    <3> QED BY <1>0, <1>1, <2>1, <2>3, <3>1, <3>2 DEF Typed, FilesTyped, LedgerTyped, ChangeTyped,
            ReversalNamed, change
  <2> QED BY <1>5, <2>2, <2>3 DEF Reread
<1>6. CASE Backup
  BY <1>0, <1>1, <1>6 DEF Backup, Typed, FilesTyped, LedgerTyped, ChangeTyped, ReversalNamed,
     config, log, change, history
<1>7. CASE Write
  <2>1. pc = "write" /\ target \in Targets
    BY <1>7 DEF Write, Typed, ChangeTyped
  <2>2. Render(cur, items) \in Configs
    BY <1>0, RenderIn
  <2>3. file' \in [Targets -> Configs] /\ orig' \in [Targets -> Configs]
    BY <1>0, <1>7, <2>2 DEF Write
  <2> QED BY <1>0, <1>1, <1>7, <2>1, <2>3 DEF Write, Typed, FilesTyped, LedgerTyped, ChangeTyped,
          ReversalNamed, log, change
<1>8. CASE ApplyFails \/ Done
  BY <1>0, <1>1, <1>2, <1>8 DEF ApplyFails, Done, config, log, history
<1>9. CASE RecordApply
  <2>1. Idle /\ UNCHANGED <<file, orig, backups, acts, torn>> /\ pc = "record"
    BY <1>9 DEF RecordApply, config
  <2>2. CASE UNCHANGED <<ledger, live>>
    BY <1>0, <1>1, <1>2, <2>1, <2>2
  <2>3. CASE ledger' = Append(ledger, Entry) /\ live' = live \cup {Len(ledger')}
    <3>1. ledger' \in Seq(Records) /\ Applies' = Applies \cup {Len(ledger')}
      BY <1>0, <2>1, <2>3, EntryIn, Extended
    <3> QED BY <1>0, <1>2, <2>1, <2>3, <3>1
  <2> QED BY <1>9, <2>2, <2>3 DEF RecordApply
<1>10. CASE \E f \in BOOLEAN : BeginRevertAll(f)
  <2>1. PICK f \in BOOLEAN : BeginRevertAll(f)
    BY <1>10
  <2> QED BY <1>0, <1>1, <2>1 DEF BeginRevertAll, Typed, FilesTyped, LedgerTyped, ChangeTyped,
          ReversalNamed, config, log, history
<1>11. CASE \E f \in BOOLEAN : \E i \in Applies : BeginRevert(i, f)
  <2>1. PICK f \in BOOLEAN, i \in Applies : BeginRevert(i, f)
    BY <1>11
  <2>2. ledger[i].id \in Configs
    BY <1>0, RecordAt DEF Applies
  <2> QED BY <1>0, <1>1, <2>1, <2>2 DEF BeginRevert, Typed, FilesTyped, LedgerTyped, ChangeTyped,
          ReversalNamed, config, log, history
<1>12. CASE NextRevert
  <2>1. PICK i \in todo : todo' = todo \ {i} /\ id' = ledger[i].id /\ pc' = "check"
    BY <1>12 DEF NextRevert
  <2>2. ledger[i].id \in Configs /\ i \in Applies
    BY <1>0, <2>1, RecordAt DEF Applies
  <2> QED BY <1>0, <1>1, <1>12, <2>1, <2>2 DEF NextRevert, Typed, FilesTyped, LedgerTyped,
          ChangeTyped, ReversalNamed, config, log, history
<1>13. CASE LastRevert
  <2>1. UNCHANGED <<file, orig, backups, acts, torn, ledger, live>>
    BY <1>13 DEF LastRevert, config, log, history
  <2>2. CASE Idle
    BY <1>0, <1>1, <1>2, <2>1, <2>2
  <2>3. CASE pc' = "done" /\ UNCHANGED <<change, cur, todo, clean, due>>
    BY <1>0, <1>1, <2>1, <2>3 DEF Typed, FilesTyped, LedgerTyped, ChangeTyped, ReversalNamed, change
  <2> QED BY <1>13, <2>2, <2>3 DEF LastRevert
<1>14. CASE CheckRevert
  <2>1. /\ UNCHANGED <<file, orig, backups, acts, torn, ledger, live, items, id, force, all, todo>>
        /\ pc = "check"
    BY <1>14 DEF CheckRevert, config, log, history
  <2>2. CASE Refused
    BY <1>0, <1>1, <2>1, <2>2 DEF Refused, Typed, FilesTyped, LedgerTyped, ChangeTyped, ReversalNamed
  <2>3. CASE LET r == ledger[Named(id)]
             IN  pc' = "restore" /\ target' = r.target /\ cur' = file[r.target] /\ UNCHANGED clean
    <3>1. \E i \in Applies : ledger[i].id = id
      BY <2>1 DEF Typed, ReversalNamed
    <3>2. ledger[Named(id)].target \in Targets
      <4>1. ledger[Named(id)] \in Records
        BY <1>0, <3>1, NamedIn
      <4> QED BY <4>1 DEF Records
    <3>3. cur' \in Configs
      BY <1>0, <2>3, <3>2
    <3>4. Named(id)' = Named(id)
      BY <2>1 DEF Named, Applies
    <3>5. ReversalNamed'
      BY <1>1, <2>1, <2>3, <3>1, <3>4 DEF ReversalNamed
    <3>6. FilesTyped' /\ LedgerTyped' /\ ChangeTyped'
      BY <1>0, <1>1, <2>1, <2>3, <3>2, <3>3 DEF FilesTyped, LedgerTyped, ChangeTyped
    <3> QED BY <3>5, <3>6 DEF Typed
  <2> QED BY <1>14, <2>2, <2>3 DEF CheckRevert
<1>15. CASE Restore \/ RestoreFails
  <2>1. /\ UNCHANGED <<log, change, history, backups, acts, cur, todo>> /\ pc = "restore"
        /\ target \in Targets /\ clean' \in BOOLEAN /\ pc' \in {"next", "record revert"}
    BY <1>0, <1>15 DEF Restore, RestoreFails, config, Typed, ChangeTyped
  <2>2. ledger[Named(id)].before \in Configs
    <3>1. \E i \in Applies : ledger[i].id = id
      BY <2>1 DEF Typed, ReversalNamed
    <3>2. ledger[Named(id)] \in Records
      BY <1>0, <3>1, NamedIn
    <3> QED BY <3>2 DEF Records
  <2>3. UNCHANGED file \/ file' = [file EXCEPT ![target] = ledger[Named(id)].before]
    BY <1>15 DEF Restore, RestoreFails, config
  <2>4. FilesTyped'
    BY <1>0, <2>1, <2>2, <2>3 DEF FilesTyped, history
  <2>5. LedgerTyped' /\ ChangeTyped'
    BY <1>0, <1>1, <2>1 DEF LedgerTyped, ChangeTyped, log, change, history
  <2>6. ReversalNamed'
    BY <2>1 DEF Typed, ReversalNamed, log, change, Named, Applies
  <2> QED BY <2>4, <2>5, <2>6 DEF Typed
<1>16. CASE RecordRevert
  <2>1. /\ UNCHANGED <<file, orig, backups, acts, torn, target, items, id, force, all, cur, todo, clean>>
        /\ pc = "record revert" /\ pc' = "next" /\ live' \subseteq live
        /\ ledger' = Append(ledger, Record("revert", target, {}, cur, ledger[Named(id)].before, id))
    BY <1>16 DEF RecordRevert, config, change
  <2>2. ledger' \in Seq(Records) /\ Applies' = Applies
    BY <1>0, <2>1, ReversalIn, Extended
  <2> QED BY <1>0, <2>1, <2>2 DEF Typed, FilesTyped, LedgerTyped, ChangeTyped, ReversalNamed
<1>17. CASE Crash
  <2>1. Idle /\ UNCHANGED <<file, orig, backups, acts, ledger, live>> /\ torn' \in BOOLEAN
    BY <1>0, <1>17 DEF Crash, config
  <2> QED BY <1>0, <1>1, <1>2, <2>1
<1>18. CASE UNCHANGED vars
  BY <1>18 DEF vars, config, log, change, history, Typed, FilesTyped, LedgerTyped, ChangeTyped,
     ReversalNamed, Applies, Named
<1> QED BY <1>3, <1>4, <1>5, <1>6, <1>7, <1>8, <1>9, <1>10, <1>11, <1>12, <1>13, <1>14, <1>15,
        <1>16, <1>17, <1>18 DEF Next, Apply, Revert

\* Type correctness of the change under way (Apply, Revert, RevertAll).
THEOREM LedgerTypes == Spec => []TypeOK
<1>1. Typed => TypeOK
  BY DEF Typed, FilesTyped, LedgerTyped, ChangeTyped, TypeOK
<1> QED BY <1>1, TypedInit, TypedStep, PTL DEF Spec
-----------------------------------------------------------------------------
\* A record tells what was written: its guardrails, on top of what was there.
RecordsTell ==
    \A i \in Applies :
        /\ ledger[i].id = ledger[i].after
        /\ ledger[i].after = Render(ledger[i].before, ledger[i].items)

\* How a step changes the ledger: by the record of what was applied, or of a revert.
LEMMA LedgerStep ==
    ASSUME Typed, [Next]_vars
    PROVE  \/ UNCHANGED ledger /\ Applies' = Applies
           \/ /\ RecordApply /\ pc = "record" /\ ledger' = Append(ledger, Entry)
              /\ live' = live \cup {Len(ledger')}
           \/ /\ RecordRevert
              /\ ledger' = Append(ledger, Record("revert", target, {}, cur,
                                                 ledger[Named(id)].before, id))
<1>1. UNCHANGED ledger => Applies' = Applies
  BY DEF Applies
<1>2. CASE RecordApply
  BY <1>1, <1>2 DEF RecordApply
<1>3. CASE RecordRevert
  BY <1>3 DEF RecordRevert
<1>4. CASE \E t \in Targets : AgentEdits(t) \/ \E is \in (SUBSET Guards) \ {{}} : PlanApply(t, is)
  BY <1>1, <1>4 DEF AgentEdits, PlanApply, log
<1>5. CASE \E f \in BOOLEAN : BeginRevertAll(f) \/ \E i \in Applies : BeginRevert(i, f)
  BY <1>1, <1>5 DEF BeginRevertAll, BeginRevert, log
<1>6. CASE Reread \/ Backup \/ Write \/ ApplyFails
  BY <1>1, <1>6 DEF Reread, Backup, Write, ApplyFails, log
<1>7. CASE NextRevert \/ LastRevert \/ Done \/ CheckRevert \/ Restore \/ RestoreFails \/ Crash
  BY <1>1, <1>7 DEF NextRevert, LastRevert, Done, CheckRevert, Restore, RestoreFails, Crash, log
<1>8. CASE UNCHANGED vars
  BY <1>1, <1>8 DEF vars, log
<1> QED BY <1>2, <1>3, <1>4, <1>5, <1>6, <1>7, <1>8 DEF Next, Apply, Revert

\* The ledger only grows, and what it has stays.
LEMMA LedgerGrows ==
    ASSUME Typed, [Next]_vars
    PROVE  /\ \A i \in Applies : i \in Applies' /\ ledger'[i] = ledger[i]
           /\ \A i \in Applies' : i \in Applies \/ (i = Len(ledger) + 1 /\ ledger'[i] = Entry
                                                   /\ RecordApply /\ pc = "record")
<1>0. ledger \in Seq(Records) /\ Applies \subseteq DOMAIN ledger
  BY DEF Typed, LedgerTyped, Applies
<1>1. CASE UNCHANGED ledger /\ Applies' = Applies
  BY <1>1
<1>2. CASE RecordApply /\ pc = "record" /\ ledger' = Append(ledger, Entry)
  BY <1>0, <1>2, EntryIn, Extended
<1>3. CASE /\ RecordRevert
           /\ ledger' = Append(ledger, Record("revert", target, {}, cur, ledger[Named(id)].before, id))
  <2>1. pc = "record revert"
    BY <1>3 DEF RecordRevert
  <2> DEFINE r == Record("revert", target, {}, cur, ledger[Named(id)].before, id)
  <2>2. r \in Records /\ r.action # "apply"
    BY <2>1, ReversalIn
  <2>3. ledger' = Append(ledger, r)
    BY <1>3
  <2> HIDE DEF r
  <2> QED BY <1>0, <2>2, <2>3, Extended
<1> QED BY <1>1, <1>2, <1>3, LedgerStep

LEMMA RecordsTellStep ==
    ASSUME Typed, RecordsTell, [Next]_vars
    PROVE  RecordsTell'
<1> SUFFICES ASSUME NEW i \in Applies'
             PROVE  /\ ledger'[i].id = ledger'[i].after
                    /\ ledger'[i].after = Render(ledger'[i].before, ledger'[i].items)
  BY DEF RecordsTell, Render, Config
<1>1. CASE i \in Applies
  BY <1>1, LedgerGrows DEF RecordsTell
<1>2. CASE ledger'[i] = Entry /\ pc = "record"
  BY <1>2, EntryIn
<1> QED BY <1>1, <1>2, LedgerGrows

\* What of the file's edits a change read, and what a revert puts back.
EditsInv ==
    /\ EditsSurvive
    /\ pc \in {"backup", "write", "restore"} => file[target].edits \subseteq cur.edits \cup exposed
    /\ pc = "restore" /\ ~force => cur.edits \subseteq ledger[Named(id)].before.edits

LEMMA EditsStep ==
    ASSUME Typed, RecordsTell, EditsInv, [Next]_vars
    PROVE  EditsInv'
<1>0. /\ file \in [Targets -> Configs] /\ cur \in Configs /\ items \in SUBSET Guards
      /\ pc \in {"backup", "write", "restore"} => target \in Targets
      /\ ledger \in Seq(Records)
  BY DEF Typed, FilesTyped, ChangeTyped, LedgerTyped
<1>1. ASSUME UNCHANGED config, pc' \notin {"backup", "write", "restore"} PROVE EditsInv'
  BY <1>1 DEF config, EditsInv, EditsSurvive
<1>2. CASE \E t \in Targets : AgentEdits(t)
  <2>1. PICK t \in Targets : AgentEdits(t)
    BY <1>2
  <2>2. PICK x \in Configs :
            /\ file' = [file EXCEPT ![t] = x]
            /\ \/ /\ x.edits = file[t].edits \cup {acts'} /\ made' = made \cup {acts'}
                  /\ exposed' = IF Rewriting(t) THEN exposed \cup {acts'} ELSE exposed
                  /\ UNCHANGED discarded
               \/ x.edits = file[t].edits /\ UNCHANGED <<made, exposed, discarded>>
               \/ /\ x = Absent /\ discarded' = discarded \cup file[t].edits
                  /\ UNCHANGED <<made, exposed>>
    BY <2>1, AgentShape
  <2>3. UNCHANGED <<ledger, target, id, force, pc, cur>>
    BY <2>1, AgentShape DEF log, change
  <2>4. file'[t] = x /\ \A s \in Targets : s # t => file'[s] = file[s]
    BY <1>0, <2>2
  <2>5. Absent.edits = {}
    BY ConfigIn
  <2>6. EditsSurvive'
    <3>1. \A e \in exposed \cup discarded : e \in exposed' \cup discarded'
      BY <2>2
    <3>2. \A e \in made' : e \in made \/ e \in file'[t].edits
      BY <2>2, <2>4
    <3>3. \A e \in file[t].edits : e \in file'[t].edits \/ e \in discarded'
      BY <2>2, <2>4
    <3> QED BY <2>4, <3>1, <3>2, <3>3 DEF EditsInv, EditsSurvive
  <2>7. pc' \in {"backup", "write", "restore"} =>
            file'[target'].edits \subseteq cur'.edits \cup exposed'
    <3> SUFFICES ASSUME pc \in {"backup", "write", "restore"}
                 PROVE  file'[target].edits \subseteq cur.edits \cup exposed'
      BY <2>3
    <3>1. file[target].edits \subseteq cur.edits \cup exposed /\ target \in Targets
      BY <1>0 DEF EditsInv
    <3>2. \A e \in exposed : e \in exposed'
      BY <2>2
    <3>3. CASE t = target
      <4>1. Rewriting(t)
        BY <3>3 DEF Rewriting
      <4> QED BY <2>2, <2>4, <2>5, <3>1, <3>2, <3>3, <4>1
    <3>4. CASE t # target
      BY <2>4, <3>1, <3>2, <3>4
    <3> QED BY <3>3, <3>4
  <2>8. pc' = "restore" /\ ~force' => cur'.edits \subseteq ledger'[Named(id)'].before.edits
    <3>1. Named(id)' = Named(id)
      BY <2>3 DEF Named, Applies
    <3> QED BY <2>3, <3>1 DEF EditsInv
  <2> QED BY <2>6, <2>7, <2>8 DEF EditsInv
<1>3. CASE Reread
  <2>1. UNCHANGED config
    BY <1>3 DEF Reread
  <2>2. CASE Idle
    BY <1>1, <2>1, <2>2 DEF Idle
  <2>3. CASE /\ cur' = file[target] /\ pc' = IF cur'.there THEN "backup" ELSE "write"
             /\ UNCHANGED <<change, todo, clean, due>>
    BY <2>1, <2>3 DEF config, change, EditsInv, EditsSurvive
  <2> QED BY <1>3, <2>2, <2>3 DEF Reread
<1>4. CASE Backup
  BY <1>4 DEF Backup, config, change, EditsInv, EditsSurvive
<1>5. CASE Write
  <2>1. /\ pc = "write" /\ pc' = "record" /\ file' = [file EXCEPT ![target] = Render(cur, items)]
        /\ UNCHANGED <<made, exposed, discarded>>
    BY <1>5 DEF Write
  <2>2. target \in Targets /\ file[target].edits \subseteq cur.edits \cup exposed
    BY <1>0, <2>1 DEF EditsInv
  <2>3. /\ file'[target].edits = cur.edits
        /\ \A s \in Targets : s # target => file'[s] = file[s]
    BY <1>0, <2>1, <2>2, RenderIn
  <2> QED BY <2>1, <2>2, <2>3 DEF EditsInv, EditsSurvive
<1>6. CASE CheckRevert
  <2>1. UNCHANGED config /\ UNCHANGED <<ledger, id, force>> /\ pc = "check"
    BY <1>6 DEF CheckRevert, log
  <2>2. CASE Refused
    BY <1>1, <2>1, <2>2 DEF Refused
  <2>3. CASE LET r == ledger[Named(id)]
             IN  /\ ~(file[r.target].there /\ file[r.target] # r.after /\ ~force)
                 /\ pc' = "restore" /\ target' = r.target /\ cur' = file[r.target] /\ UNCHANGED clean
    <3> DEFINE r == ledger[Named(id)]
    <3>1. Named(id) \in Applies
      <4>1. \E i \in Applies : ledger[i].id = id
        BY <2>1 DEF Typed, ReversalNamed, Reverting
      <4> QED BY <1>0, <4>1, NamedIn
    <3>2. r.after = Render(r.before, r.items)
      BY <3>1 DEF RecordsTell
    <3>3. r.target \in Targets /\ r.before \in Configs /\ r.items \in SUBSET Guards
      BY <1>0, <3>1, RecordAt DEF Applies
    <3>4. r.after.edits = r.before.edits
      <4> DEFINE b == r.before
                 is == r.items
      <4>1. b \in Configs /\ is \in SUBSET Guards /\ r.after = Render(b, is)
        BY <3>2, <3>3
      <4> HIDE DEF b, is
      <4>2. Render(b, is).edits = b.edits
        BY <4>1, RenderIn
      <4> QED BY <4>1, <4>2 DEF b
    <3>5. /\ ~(file[r.target].there /\ file[r.target] # r.after /\ ~force)
          /\ pc' = "restore" /\ target' = r.target /\ cur' = file[r.target]
      BY <2>3
    <3>6. Named(id)' = Named(id)
      BY <2>1 DEF Named, Applies
    <3>7. ledger'[Named(id)'].before = r.before
      BY <2>1, <3>6
    <3> HIDE DEF r
    <3>8. file[r.target] \in Configs
      BY <1>0, <3>3
    <3>9. ~force => file[r.target].edits \subseteq r.before.edits
      <4>1. ~file[r.target].there => file[r.target].edits = {}
        BY <3>8, ConfigIn
      <4> QED BY <3>4, <3>5, <4>1
    <3>10. EditsSurvive' /\ file' = file
      BY <2>1 DEF config, EditsInv, EditsSurvive
    <3> QED BY <2>1, <3>5, <3>7, <3>9, <3>10 DEF EditsInv
  <2> QED BY <1>6, <2>2, <2>3 DEF CheckRevert
<1>7. CASE Restore
  <2>1. pc = "restore" /\ pc' \in {"next", "record revert"} /\ UNCHANGED <<made, exposed>>
    BY <1>7 DEF Restore
  <2>2. CASE UNCHANGED <<file, discarded>>
    BY <2>1, <2>2 DEF EditsInv, EditsSurvive
  <2>3. CASE LET before == ledger[Named(id)].before
             IN  /\ file' = [file EXCEPT ![target] = before]
                 /\ discarded' = IF force THEN discarded \cup (cur.edits \ before.edits)
                                 ELSE discarded
    <3> DEFINE before == ledger[Named(id)].before
    <3>1. /\ target \in Targets /\ file[target].edits \subseteq cur.edits \cup exposed
          /\ ~force => cur.edits \subseteq before.edits
      BY <1>0, <2>1 DEF EditsInv
    <3>2. /\ file' = [file EXCEPT ![target] = before]
          /\ discarded' = IF force THEN discarded \cup (cur.edits \ before.edits) ELSE discarded
      BY <2>3
    <3> HIDE DEF before
    <3>3. file'[target] = before /\ \A s \in Targets : s # target => file'[s] = file[s]
      BY <1>0, <3>1, <3>2
    <3>4. \A e \in file[target].edits : e \in exposed \/ e \in before.edits \/ e \in discarded'
      BY <3>1, <3>2
    <3>5. \A e \in discarded : e \in discarded'
      BY <3>2
    <3> QED BY <2>1, <3>1, <3>3, <3>4, <3>5 DEF EditsInv, EditsSurvive
  <2> QED BY <1>7, <2>2, <2>3 DEF Restore
<1>8. CASE \E t \in Targets : \E is \in (SUBSET Guards) \ {{}} : PlanApply(t, is)
  BY <1>1, <1>8 DEF PlanApply
<1>9. CASE \E f \in BOOLEAN : BeginRevertAll(f) \/ \E i \in Applies : BeginRevert(i, f)
  BY <1>1, <1>9 DEF BeginRevertAll, BeginRevert
<1>10. CASE ApplyFails \/ RecordApply \/ Done \/ Crash
  BY <1>1, <1>10 DEF ApplyFails, RecordApply, Done, Crash, Idle
<1>11. CASE NextRevert \/ LastRevert \/ RestoreFails \/ RecordRevert
  BY <1>1, <1>11 DEF NextRevert, LastRevert, RestoreFails, RecordRevert, Idle
<1>12. CASE UNCHANGED vars
  BY <1>12 DEF vars, config, log, change, EditsInv, EditsSurvive, Named, Applies
<1> QED BY <1>2, <1>3, <1>4, <1>5, <1>6, <1>7, <1>8, <1>9, <1>10, <1>11, <1>12
    DEF Next, Apply, Revert

\* What an agent writes into its settings stays in a file, however changes are
\* applied and reverted around it (applyOne, Revert): unless it was written in the
\* instant between a change's read and its write, or someone threw it away.
THEOREM AgentsEditsSurvive == Spec => []EditsSurvive
<1>1. Init => RecordsTell /\ EditsInv
  BY DEF Init, RecordsTell, Applies, EditsInv, EditsSurvive
<1>2. Typed /\ RecordsTell /\ EditsInv /\ [Next]_vars => (Typed /\ RecordsTell /\ EditsInv)'
  BY TypedStep, RecordsTellStep, EditsStep
<1>3. EditsInv => EditsSurvive
  BY DEF EditsInv
<1> QED BY <1>1, <1>2, <1>3, TypedInit, PTL DEF Spec

\* The files' guardrails the ledger tells of.
Told == UNION {{ledger[i].target} \X ledger[i].items : i \in Applies}

LEMMA ToldOf ==
    /\ \A t, g : <<t, g>> \in Told <=> \E i \in Applies : ledger[i].target = t /\ g \in ledger[i].items
    /\ \A t, g : <<t, g>> \in Told' <=>
                    \E i \in Applies' : ledger'[i].target = t /\ g \in ledger'[i].items
  BY DEF Told

\* What a file had before a change, what a change read of it, and what it has.
GuardsInv ==
    /\ \A i \in Applies : ledger[i].target \notin unrecorded =>
          \A g \in ledger[i].before.guards : <<ledger[i].target, g>> \in Told
    /\ \A t \in Targets \ unrecorded : \A g \in file[t].guards :
          <<t, g>> \in Told \/ (pc = "record" /\ t = target /\ g \in cur.guards \cup items)
    /\ pc \in {"backup", "write", "record"} /\ target \notin unrecorded =>
          \A g \in cur.guards : <<target, g>> \in Told

LEMMA GuardsStep ==
    ASSUME Typed, GuardsInv, [Next]_vars
    PROVE  GuardsInv'
<1>0. /\ file \in [Targets -> Configs] /\ cur \in Configs /\ items \in SUBSET Guards
      /\ pc \in {"reread", "backup", "write", "record", "restore"} => target \in Targets
      /\ ledger \in Seq(Records)
  BY DEF Typed, FilesTyped, ChangeTyped, LedgerTyped
<1>1. /\ \A i \in Applies : i \in Applies' /\ ledger'[i] = ledger[i]
      /\ \A i \in Applies' : i \in Applies \/ (i = Len(ledger) + 1 /\ ledger'[i] = Entry
                                              /\ RecordApply /\ pc = "record")
  BY LedgerGrows
<1>2. Told \subseteq Told'
  BY <1>1 DEF Told
\* No step but RecordApply adds a record, and then of what was told before.
<1>3. ASSUME \A t \in unrecorded : t \in unrecorded', ~RecordApply
      PROVE  \A i \in Applies' : ledger'[i].target \notin unrecorded' =>
                \A g \in ledger'[i].before.guards : <<ledger'[i].target, g>> \in Told'
  <2> SUFFICES ASSUME NEW i \in Applies', ledger'[i].target \notin unrecorded',
                      NEW g \in ledger'[i].before.guards
               PROVE  <<ledger'[i].target, g>> \in Told'
    OBVIOUS
  <2>1. i \in Applies /\ ledger'[i] = ledger[i]
    BY <1>1, <1>3
  <2>2. <<ledger[i].target, g>> \in Told
    BY <1>3, <2>1 DEF GuardsInv
  <2> QED BY <1>2, <2>1, <2>2
<1>4. ASSUME \A t \in unrecorded : t \in unrecorded', ~RecordApply,
             \A t \in Targets : file'[t].guards \subseteq file[t].guards,
             pc = "record" => UNCHANGED <<pc, target, cur, items>> \/ target \in unrecorded',
             /\ pc' \in {"backup", "write", "record"} /\ target' \notin unrecorded' =>
                \A g \in cur'.guards : <<target', g>> \in Told'
      PROVE  GuardsInv'
  <2>1. ASSUME NEW t \in Targets \ unrecorded', NEW g \in file'[t].guards
        PROVE  <<t, g>> \in Told' \/ (pc' = "record" /\ t = target' /\ g \in cur'.guards \cup items')
    <3>1. t \in Targets \ unrecorded /\ g \in file[t].guards
      BY <1>4
    <3>2. <<t, g>> \in Told \/ (pc = "record" /\ t = target /\ g \in cur.guards \cup items)
      BY <3>1 DEF GuardsInv
    <3> QED BY <1>2, <1>4, <2>1, <3>2
  <2> QED BY <1>3, <1>4, <2>1 DEF GuardsInv
<1>5. ASSUME UNCHANGED file, UNCHANGED unrecorded, ~RecordApply, pc # "record",
             pc' \notin {"backup", "write", "record"}
      PROVE  GuardsInv'
  BY <1>4, <1>5
<1>6. CASE \E t \in Targets : AgentEdits(t)
  <2>1. PICK t \in Targets : AgentEdits(t)
    BY <1>6
  <2>2. PICK x \in Configs : file' = [file EXCEPT ![t] = x] /\ x.guards \subseteq file[t].guards
    BY <2>1, AgentShape
  <2>3. UNCHANGED <<ledger, unrecorded, target, items, pc, cur>>
    BY <2>1, AgentShape DEF log, change, history
  <2>4. \A s \in Targets : file'[s].guards \subseteq file[s].guards
    BY <1>0, <2>2
  <2>5. ~RecordApply
    BY <2>1 DEF AgentEdits, RecordApply, Idle, log, config, history, change
  <2>6. pc' \in {"backup", "write", "record"} /\ target' \notin unrecorded' =>
                \A g \in cur'.guards : <<target', g>> \in Told'
    BY <1>2, <2>3 DEF GuardsInv
  <2> QED BY <1>4, <2>3, <2>4, <2>5, <2>6
<1>7. CASE Reread
  <2>1. UNCHANGED <<file, unrecorded>> /\ pc = "reread"
    BY <1>7 DEF Reread, config, history
  <2>2. CASE Idle
    BY <1>5, <2>1, <2>2 DEF Idle, RecordApply
  <2>3. CASE cur' = file[target] /\ UNCHANGED change
    <3>1. target' = target /\ target \in Targets
      BY <1>0, <2>1, <2>3 DEF change
    <3>2. target \notin unrecorded => \A g \in file[target].guards : <<target, g>> \in Told
      BY <2>1, <3>1 DEF GuardsInv
    <3>3. ~RecordApply
      BY <2>1 DEF RecordApply
    <3> QED BY <1>2, <1>4, <2>1, <2>3, <3>1, <3>2, <3>3
  <2> QED BY <1>7, <2>2, <2>3 DEF Reread
<1>8. CASE Backup
  <2>1. UNCHANGED <<file, unrecorded, target, cur>> /\ pc = "backup" /\ ~RecordApply
    BY <1>8 DEF Backup, config, history, change, RecordApply
  <2>2. target \notin unrecorded => \A g \in cur.guards : <<target, g>> \in Told
    BY <2>1 DEF GuardsInv
  <2> QED BY <1>2, <1>4, <2>1, <2>2
<1>9. CASE Write
  <2>1. /\ pc = "write" /\ pc' = "record" /\ file' = [file EXCEPT ![target] = Render(cur, items)]
        /\ UNCHANGED <<unrecorded, target, cur, items>> /\ ~RecordApply
    BY <1>9 DEF Write, change, RecordApply
  <2>2. target \in Targets
    BY <1>0, <2>1
  <2>3. /\ file'[target].guards = cur.guards \cup items
        /\ \A s \in Targets : s # target => file'[s] = file[s]
    BY <1>0, <2>1, <2>2, RenderIn
  <2>4. target \notin unrecorded => \A g \in cur.guards : <<target, g>> \in Told
    BY <2>1 DEF GuardsInv
  <2>5. ASSUME NEW t \in Targets \ unrecorded, NEW g \in file'[t].guards
        PROVE  <<t, g>> \in Told' \/ (t = target /\ g \in cur.guards \cup items)
    BY <1>2, <2>1, <2>3, <2>5 DEF GuardsInv
  <2> QED BY <1>2, <1>3, <2>1, <2>4, <2>5 DEF GuardsInv
<1>10. CASE RecordApply
  <2>1. Idle /\ UNCHANGED file /\ pc = "record"
    BY <1>10 DEF RecordApply, config
  <2>2. target \in Targets
    BY <1>0, <2>1
  <2>3. CASE unrecorded' = unrecorded \cup {target} /\ UNCHANGED ledger
    <3>1. \A i \in Applies' : i \in Applies /\ ledger'[i] = ledger[i]
      BY <2>3 DEF Applies
    <3>2. ASSUME NEW i \in Applies', ledger'[i].target \notin unrecorded',
                 NEW g \in ledger'[i].before.guards
          PROVE  <<ledger'[i].target, g>> \in Told'
      BY <1>2, <2>3, <3>1, <3>2 DEF GuardsInv
    <3>3. ASSUME NEW t \in Targets \ unrecorded', NEW g \in file'[t].guards
          PROVE  <<t, g>> \in Told'
      BY <1>2, <2>1, <2>3, <3>3 DEF GuardsInv
    <3> QED BY <2>1, <3>2, <3>3 DEF GuardsInv, Idle
  <2>4. CASE UNCHANGED unrecorded /\ ledger' = Append(ledger, Entry)
    <3>1. Entry.target = target /\ Entry.before = cur /\ Entry.items = items
      BY <2>1, EntryIn
    <3>2. Len(ledger) + 1 \in Applies' /\ ledger'[Len(ledger) + 1] = Entry
      BY <1>0, <2>1, <2>4, EntryIn, Extended
    <3>3. \A g \in items : <<target, g>> \in Told'
      BY <3>1, <3>2, ToldOf
    <3>4. target \notin unrecorded => \A g \in cur.guards : <<target, g>> \in Told
      BY <2>1 DEF GuardsInv
    <3>5. ASSUME NEW i \in Applies', ledger'[i].target \notin unrecorded',
                 NEW g \in ledger'[i].before.guards
          PROVE  <<ledger'[i].target, g>> \in Told'
      <4>1. CASE i \in Applies
        <5>1. ledger'[i] = ledger[i]
          BY <1>1, <4>1
        <5>2. <<ledger[i].target, g>> \in Told
          BY <2>4, <3>5, <4>1, <5>1 DEF GuardsInv
        <5> QED BY <1>2, <5>1, <5>2
      <4>2. CASE ledger'[i] = Entry
        BY <1>2, <2>4, <3>1, <3>4, <3>5, <4>2
      <4> QED BY <1>1, <4>1, <4>2
    <3>6. ASSUME NEW t \in Targets \ unrecorded', NEW g \in file'[t].guards
          PROVE  <<t, g>> \in Told'
      <4>1. <<t, g>> \in Told \/ (t = target /\ g \in cur.guards \cup items)
        BY <2>1, <2>4, <3>6 DEF GuardsInv
      <4> QED BY <1>2, <2>4, <3>3, <3>4, <3>6, <4>1
    <3> QED BY <2>1, <3>5, <3>6 DEF GuardsInv, Idle
  <2> QED BY <1>10, <2>3, <2>4 DEF RecordApply
<1>11. CASE Restore
  <2>1. pc = "restore" /\ pc' \in {"next", "record revert"} /\ UNCHANGED unrecorded
    BY <1>11 DEF Restore, history
  <2>2. ~RecordApply
    BY <2>1 DEF RecordApply
  <2>3. CASE UNCHANGED file
    BY <1>5, <2>1, <2>2, <2>3
  <2>4. CASE file' = [file EXCEPT ![target] = ledger[Named(id)].before]
    <3>1. \E i \in Applies : ledger[i].id = id
      BY <2>1 DEF Typed, ReversalNamed, Reverting
    <3>2. Named(id) \in Applies /\ ledger[Named(id)].target = target /\ target \in Targets
      BY <1>0, <2>1, <3>1, NamedIn DEF Typed, ReversalNamed
    <3>3. target \notin unrecorded =>
             \A g \in ledger[Named(id)].before.guards : <<target, g>> \in Told
      BY <3>2 DEF GuardsInv
    <3>4. /\ file'[target] = ledger[Named(id)].before
          /\ \A s \in Targets : s # target => file'[s] = file[s]
      BY <1>0, <2>4, <3>2
    <3>5. ASSUME NEW t \in Targets \ unrecorded, NEW g \in file'[t].guards
          PROVE  <<t, g>> \in Told'
      BY <1>2, <2>1, <3>3, <3>4, <3>5 DEF GuardsInv
    <3> QED BY <1>3, <2>1, <2>2, <3>5 DEF GuardsInv
  <2> QED BY <1>11, <2>3, <2>4 DEF Restore
<1>12. CASE Crash
  <2>1. Idle /\ UNCHANGED <<file, ledger>>
    BY <1>12 DEF Crash, config
  <2>2. /\ \A t \in unrecorded : t \in unrecorded'
        /\ pc = "record" => target \in unrecorded'
    BY <1>12 DEF Crash
  <2>3. ~RecordApply \/ (UNCHANGED ledger /\ pc = "record")
    BY <2>1 DEF RecordApply
  <2>4. \A i \in Applies' : i \in Applies /\ ledger'[i] = ledger[i]
    BY <2>1 DEF Applies
  <2>5. ASSUME NEW i \in Applies', ledger'[i].target \notin unrecorded',
               NEW g \in ledger'[i].before.guards
        PROVE  <<ledger'[i].target, g>> \in Told'
    BY <1>2, <2>2, <2>4, <2>5 DEF GuardsInv
  <2>6. ASSUME NEW t \in Targets \ unrecorded', NEW g \in file'[t].guards
        PROVE  <<t, g>> \in Told'
    BY <1>2, <2>1, <2>2, <2>6 DEF GuardsInv
  <2> QED BY <2>1, <2>5, <2>6 DEF GuardsInv, Idle
<1>13. CASE \E t \in Targets : \E is \in (SUBSET Guards) \ {{}} : PlanApply(t, is)
  BY <1>5, <1>13 DEF PlanApply, config, history, RecordApply
<1>14. CASE \E f \in BOOLEAN : BeginRevertAll(f) \/ \E i \in Applies : BeginRevert(i, f)
  BY <1>5, <1>14 DEF BeginRevertAll, BeginRevert, config, history, RecordApply
<1>15. CASE ApplyFails \/ Done
  BY <1>5, <1>15 DEF ApplyFails, Done, Idle, config, history, RecordApply
<1>16. CASE NextRevert \/ LastRevert
  BY <1>5, <1>16 DEF NextRevert, LastRevert, Idle, config, history, RecordApply
<1>17. CASE CheckRevert \/ RestoreFails \/ RecordRevert
  BY <1>5, <1>17 DEF CheckRevert, Refused, RestoreFails, RecordRevert, config, history, RecordApply
<1>18. CASE UNCHANGED vars
  BY <1>18 DEF vars, config, log, change, history, GuardsInv, Told, Applies
<1> QED BY <1>6, <1>7, <1>8, <1>9, <1>10, <1>11, <1>12, <1>13, <1>14, <1>15, <1>16, <1>17, <1>18
    DEF Next, Apply, Revert

\* Every guardrail in a file is one the ledger tells of (applyOne, appendLedger),
\* but for the one being recorded, and unless the program died or the ledger
\* refused the record.
THEOREM GuardsInLedger == Spec => []GuardsAccounted
<1>1. Init => GuardsInv
  <2> SUFFICES ASSUME Init PROVE GuardsInv
    OBVIOUS
  <2>1. \A t \in Targets : file[t].guards = {}
    <3>1. Absent.guards = {} /\ Config(TRUE, {}, {}).guards = {}
      BY DEF Absent, Config
    <3> QED BY <3>1 DEF Init
  <2> QED BY <2>1 DEF Init, Applies, GuardsInv
<1>2. Typed /\ GuardsInv /\ [Next]_vars => (Typed /\ GuardsInv)'
  BY TypedStep, GuardsStep
<1>3. GuardsInv => GuardsAccounted
  <2> SUFFICES ASSUME GuardsInv, NEW t \in Targets \ unrecorded, NEW g \in file[t].guards
               PROVE  \/ pc = "record" /\ t = target
                      \/ \E i \in Applies : ledger[i].target = t /\ g \in ledger[i].items
    BY Zenon DEF GuardsAccounted
  <2>1. <<t, g>> \in Told \/ (pc = "record" /\ t = target)
    BY Zenon DEF GuardsInv
  <2>2. <<t, g>> \in Told =>
           \E i \in Applies : ledger[i].target = t /\ g \in ledger[i].items
    BY ToldOf
  <2> QED BY <2>1, <2>2, Zenon
<1> QED BY <1>1, <1>2, <1>3, TypedInit, PTL DEF Spec
-----------------------------------------------------------------------------
Distinct == \A i, j \in Applies : ledger[i].id = ledger[j].id => i = j

\* The ids of the changes the ledger says were reverted.
Reverted == {ledger[k].id : k \in {k \in DOMAIN ledger : ledger[k].action = "revert"}}

LEMMA RevertedOf ==
    \A c : c \in Reverted <=> WasReverted(c)
  BY DEF Reverted, WasReverted

\* A change not live is one the ledger says was reverted, and the other way round.
Recorded ==
    /\ \A i \in Applies : i \in live <=> ledger[i].id \notin Reverted
    /\ Reverted \subseteq {ledger[j].id : j \in Applies}

\* What is yet to be reverted is older than what is being reverted, only a revert
\* leaves anything to do, and only one of a single change is made again.
InTurn ==
    /\ pc \in Reverting => \A i \in Applies : ledger[i].id = id => \A j \in todo : j < i
    /\ pc \in {"restore", "record revert"} => id \notin Reverted \/ due = {}
    /\ ~all => due = {}
    /\ pc \notin Reverting \cup {"next", "done"} => due = {} /\ todo = {}
    /\ pc = "done" => todo = {}
    /\ due \subseteq Targets

\* The oldest live change of a file was made to what the file was originally.
Originals ==
    \A t \in Targets \ (unrecorded \cup outOfTurn) :
        /\ \A i \in LiveOn(t) : (\A j \in LiveOn(t) : i <= j) => ledger[i].before = orig[t]
        /\ pc = "record" /\ t = target /\ LiveOn(t) = {} => orig[t] = cur

\* RevertAll so far: what is live of a file is still to be reverted, and a file
\* with nothing live is as it was originally.
SoFar ==
    clean => \A t \in due \ (unrecorded \cup outOfTurn) :
        /\ \A i \in LiveOn(t) : i \in todo \/ (pc \in Reverting /\ ledger[i].id = id)
        /\ LiveOn(t) = {} => file[t] = orig[t]
        /\ pc = "record revert" /\ t = target =>
              \A i \in Applies : ledger[i].id = id => file[t] = ledger[i].before

RevertInv == Distinct => Recorded /\ InTurn /\ Originals /\ SoFar

LEMMA DistinctBefore ==
    ASSUME Typed, [Next]_vars, Distinct'
    PROVE  Distinct
<1> SUFFICES ASSUME NEW i \in Applies, NEW j \in Applies, ledger[i].id = ledger[j].id
             PROVE  i = j
  BY DEF Distinct
<1>1. i \in Applies' /\ j \in Applies' /\ ledger'[i].id = ledger'[j].id
  BY LedgerGrows
<1> QED BY <1>1 DEF Distinct

\* The places of a ledger that stays as it is.
LEMMA SameLedger ==
    ASSUME UNCHANGED ledger
    PROVE  /\ Applies' = Applies /\ Reverted' = Reverted
           /\ UNCHANGED live => \A t : LiveOn(t)' = LiveOn(t)
  BY DEF Applies, Reverted, LiveOn

\* The change a revert is about.
LEMMA OneNamed ==
    ASSUME Typed, Distinct, pc \in Reverting
    PROVE  /\ Named(id) \in Applies /\ Named(id) \in Nat /\ ledger[Named(id)].id = id
           /\ \A i \in Applies : ledger[i].id = id => i = Named(id)
           /\ pc \in {"restore", "record revert"} =>
                 ledger[Named(id)].target = target /\ target \in Targets
<1>1. \E i \in Applies : ledger[i].id = id
  BY DEF Typed, ReversalNamed
<1>2. Named(id) \in Applies /\ ledger[Named(id)].id = id
  BY <1>1, NamedIn DEF Typed, LedgerTyped
<1>3. \A i \in Applies : ledger[i].id = id => i = Named(id)
  BY <1>2 DEF Distinct
<1>4. Named(id) \in Nat
  BY <1>2 DEF Applies, Typed, LedgerTyped
<1> QED BY <1>2, <1>3, <1>4 DEF Typed, ReversalNamed, ChangeTyped

\* A step that leaves the ledger and the originals alone.
LEMMA QuietStep ==
    ASSUME Recorded, Originals, UNCHANGED <<ledger, live, orig>>,
           unrecorded \subseteq unrecorded', outOfTurn \subseteq outOfTurn',
           pc' # "record" \/ UNCHANGED <<pc, target, cur>>
    PROVE  Recorded' /\ Originals'
<1>1. Applies' = Applies /\ Reverted' = Reverted /\ \A t : LiveOn(t)' = LiveOn(t)
  BY SameLedger
<1>2. Recorded'
  BY <1>1 DEF Recorded
<1>3. Originals'
  <2> SUFFICES ASSUME NEW t \in Targets, t \notin unrecorded' \cup outOfTurn'
               PROVE  /\ \A i \in LiveOn(t)' : (\A j \in LiveOn(t)' : i <= j) =>
                                                 ledger'[i].before = orig'[t]
                      /\ pc' = "record" /\ t = target' /\ LiveOn(t)' = {} => orig'[t] = cur'
    BY DEF Originals
  <2>1. /\ \A i \in LiveOn(t) : (\A j \in LiveOn(t) : i <= j) => ledger[i].before = orig[t]
        /\ pc = "record" /\ t = target /\ LiveOn(t) = {} => orig[t] = cur
    BY DEF Originals
  <2> QED BY <1>1, <2>1
<1> QED BY <1>2, <1>3

\* With nothing left to revert there is nothing to keep in turn.
LEMMA NothingDue ==
    ASSUME due' = {}, todo' = {}, pc' \notin {"restore", "record revert"}
    PROVE  InTurn' /\ SoFar'
  BY DEF InTurn, SoFar

\* A step of a revert that leaves the ledger alone, and what a change still to be
\* reverted was, keeps RevertAll's account if it keeps the files.
LEMMA RevertingStep ==
    ASSUME SoFar, UNCHANGED <<ledger, live, orig, unrecorded, outOfTurn, due>>,
           clean' => clean,
           \A i \in live : i \in todo \/ (pc \in Reverting /\ ledger[i].id = id) =>
               i \in todo' \/ (pc' \in Reverting /\ ledger[i].id = id') \/ ~clean',
           UNCHANGED file, pc' # "record revert"
    PROVE  SoFar'
<1>1. Applies' = Applies /\ \A t : LiveOn(t)' = LiveOn(t)
  BY SameLedger
<1> SUFFICES ASSUME clean', NEW t \in due \ (unrecorded \cup outOfTurn)
             PROVE  /\ \A i \in LiveOn(t) : i \in todo' \/ (pc' \in Reverting /\ ledger[i].id = id')
                    /\ LiveOn(t) = {} => file[t] = orig[t]
  BY <1>1 DEF SoFar
<1>2. /\ \A i \in LiveOn(t) : i \in todo \/ (pc \in Reverting /\ ledger[i].id = id)
      /\ LiveOn(t) = {} => file[t] = orig[t]
  BY DEF SoFar
<1>3. LiveOn(t) \subseteq live
  BY DEF LiveOn
<1> QED BY <1>2, <1>3

\* A step that is not the program's keeps RevertAll's account of the files it
\* leaves alone.
LEMMA SameAccount ==
    ASSUME SoFar, UNCHANGED <<ledger, live, orig, unrecorded, outOfTurn, pc, target, id, todo, clean>>,
           due' \subseteq due, \A t \in due' : file'[t] = file[t]
    PROVE  SoFar'
<1>1. Applies' = Applies /\ \A t : LiveOn(t)' = LiveOn(t)
  BY SameLedger
<1> SUFFICES ASSUME clean', NEW t \in due' \ (unrecorded' \cup outOfTurn')
             PROVE  /\ \A i \in LiveOn(t)' : i \in todo' \/ (pc' \in Reverting /\ ledger'[i].id = id')
                    /\ LiveOn(t)' = {} => file'[t] = orig'[t]
                    /\ pc' = "record revert" /\ t = target' =>
                          \A i \in Applies' : ledger'[i].id = id' => file'[t] = ledger'[i].before
  BY DEF SoFar
<1>2. /\ \A i \in LiveOn(t) : i \in todo \/ (pc \in Reverting /\ ledger[i].id = id)
      /\ LiveOn(t) = {} => file[t] = orig[t]
      /\ pc = "record revert" /\ t = target =>
            \A i \in Applies : ledger[i].id = id => file[t] = ledger[i].before
  BY DEF SoFar
<1>3. file'[t] = file[t] /\ LiveOn(t)' = LiveOn(t)
  BY <1>1
<1> QED BY <1>1, <1>2, <1>3

LEMMA RecordApplyStep ==
    ASSUME Typed, Distinct, Distinct', Recorded, Originals, pc = "record", RecordApply
    PROVE  Recorded' /\ Originals'
<1>1. Idle /\ UNCHANGED <<orig, outOfTurn>>
  BY DEF RecordApply
<1>2. CASE unrecorded' = unrecorded \cup {target} /\ UNCHANGED <<ledger, live>>
  BY <1>1, <1>2, QuietStep DEF Idle
<1>3. CASE ledger' = Append(ledger, Entry) /\ live' = live \cup {Len(ledger')} /\ UNCHANGED unrecorded
  <2> DEFINE n == Len(ledger) + 1
  <2>1. ledger \in Seq(Records) /\ Entry \in Records /\ live \subseteq Applies
    BY EntryIn DEF Typed, LedgerTyped
  <2>2. Entry.action = "apply" /\ Entry.target = target /\ Entry.before = cur
    BY EntryIn
  <2>3. /\ n \notin DOMAIN ledger /\ ledger'[n] = Entry /\ Len(ledger') = n
        /\ DOMAIN ledger' = DOMAIN ledger \cup {n} /\ Applies' = Applies \cup {n}
        /\ \A i \in DOMAIN ledger : ledger'[i] = ledger[i] /\ i \in Nat /\ i < n
    BY <1>3, <2>1, <2>2, Extended
  <2>4. n \in Nat /\ Applies \subseteq DOMAIN ledger
    BY <2>1 DEF Applies
  <2> HIDE DEF n
  <2>5. Reverted' = Reverted
    BY <2>2, <2>3 DEF Reverted
  <2>6. Entry.id \notin Reverted
    <3> SUFFICES ASSUME NEW j \in Applies, ledger[j].id = Entry.id PROVE FALSE
      BY DEF Recorded
    <3>1. j \in Applies' /\ n \in Applies' /\ ledger'[j].id = ledger'[n].id /\ j # n
      BY <2>3, <2>4
    <3> QED BY <3>1 DEF Distinct
  <2>7. Recorded'
    <3>1. \A i \in Applies' : i \in live' <=> ledger'[i].id \notin Reverted'
      BY <1>3, <2>1, <2>3, <2>4, <2>5, <2>6 DEF Recorded
    <3>2. Reverted' \subseteq {ledger'[j].id : j \in Applies'}
      BY <2>3, <2>4, <2>5 DEF Recorded
    <3> QED BY <3>1, <3>2 DEF Recorded
  <2>8. Originals'
    <3> SUFFICES ASSUME NEW t \in Targets \ (unrecorded \cup outOfTurn), NEW i \in LiveOn(t)',
                        \A j \in LiveOn(t)' : i <= j
                 PROVE  ledger'[i].before = orig[t]
      BY <1>1, <1>3 DEF Originals, Idle
    <3>1. /\ \A j \in LiveOn(t) : (\A k \in LiveOn(t) : j <= k) => ledger[j].before = orig[t]
          /\ t = target /\ LiveOn(t) = {} => orig[t] = cur
      BY DEF Originals
    <3>2. LiveOn(t)' = LiveOn(t) \cup (IF t = target THEN {n} ELSE {})
      BY <1>3, <2>1, <2>2, <2>3, <2>4 DEF LiveOn
    <3>3. LiveOn(t) \subseteq DOMAIN ledger
      BY <2>1, <2>4 DEF LiveOn
    <3>4. CASE i \in LiveOn(t)
      BY <2>3, <3>1, <3>2, <3>3, <3>4
    <3>5. CASE i = n /\ t = target
      <4>1. LiveOn(t) = {}
        BY <2>3, <2>4, <3>2, <3>3, <3>5
      <4> QED BY <2>2, <2>3, <3>1, <3>5, <4>1
    <3> QED BY <3>2, <3>4, <3>5
  <2> QED BY <2>7, <2>8
<1> QED BY <1>2, <1>3 DEF RecordApply

\* The record of a revert is of a live change, and of the last live one of its file
\* unless that file is out of turn from now on.
LEMMA RecordRevertStep ==
    ASSUME Typed, Distinct, Recorded, InTurn, Originals, SoFar, RecordRevert
    PROVE  Recorded' /\ InTurn' /\ Originals' /\ SoFar'
<1> DEFINE k == Named(id)
           r == Record("revert", target, {}, cur, ledger[k].before, id)
<1>1. /\ pc = "record revert" /\ pc' = "next" /\ ledger' = Append(ledger, r) /\ live' = live \ {k}
      /\ outOfTurn' = IF \E j \in LiveOn(target) : j > k /\ ledger[j].id \notin {ledger[m].id : m \in todo}
                      THEN outOfTurn \cup {target} ELSE outOfTurn
      /\ UNCHANGED <<file, target, id, unrecorded, orig, cur, todo, clean, due, all>>
  BY DEF RecordRevert, config, change
<1>2. /\ k \in Applies /\ k \in Nat /\ ledger[k].id = id /\ ledger[k].target = target
      /\ target \in Targets /\ \A i \in Applies : ledger[i].id = id => i = k
  BY <1>1, OneNamed DEF Reverting
<1>3. r \in Records /\ r.action = "revert" /\ r.id = id
  BY <1>1, ReversalIn
<1> HIDE DEF k, r
<1>4. ledger \in Seq(Records) /\ live \subseteq Applies /\ todo \subseteq Applies
  BY DEF Typed, LedgerTyped
<1>5. /\ DOMAIN ledger' = DOMAIN ledger \cup {Len(ledger) + 1} /\ Applies' = Applies
      /\ Len(ledger) + 1 \notin DOMAIN ledger /\ ledger'[Len(ledger) + 1] = r
      /\ \A i \in DOMAIN ledger : ledger'[i] = ledger[i] /\ i \in Nat
  BY <1>1, <1>3, <1>4, Extended
<1>6. Applies \subseteq DOMAIN ledger
  BY DEF Applies
<1>7. Reverted' = Reverted \cup {id}
  BY <1>3, <1>5 DEF Reverted
<1>8. k \in live \/ due = {}
  BY <1>1, <1>2 DEF InTurn, Recorded
<1>9. Recorded'
  <2>1. \A i \in Applies' : i \in live' <=> ledger'[i].id \notin Reverted'
    BY <1>1, <1>2, <1>5, <1>6, <1>7 DEF Recorded
  <2>2. Reverted' \subseteq {ledger'[j].id : j \in Applies'}
    BY <1>2, <1>5, <1>6, <1>7 DEF Recorded
  <2> QED BY <2>1, <2>2 DEF Recorded
<1>10. InTurn'
  BY <1>1 DEF InTurn, Reverting
<1>11. \A t : LiveOn(t)' = LiveOn(t) \ {k}
  BY <1>1, <1>4, <1>5, <1>6 DEF LiveOn
<1>12. \A t : LiveOn(t) \subseteq live
  BY DEF LiveOn
<1>13. \A t : t # target => LiveOn(t)' = LiveOn(t)
  BY <1>2, <1>11 DEF LiveOn
<1>14. target \notin outOfTurn' => \A j \in LiveOn(target) : j <= k
  <2> SUFFICES ASSUME target \notin outOfTurn', NEW j \in LiveOn(target), ~(j <= k) PROVE FALSE
    OBVIOUS
  <2>1. j \in Applies /\ j \in Nat
    BY <1>4, <1>5, <1>6, <1>12
  <2>2. j > k
    BY <1>2, <2>1
  <2>3. PICK m \in todo : ledger[j].id = ledger[m].id
    BY <1>1, <2>2
  <2>4. j = m
    BY <1>4, <2>1, <2>3 DEF Distinct
  <2>5. j < k
    BY <1>1, <1>2, <2>3, <2>4 DEF InTurn, Reverting
  <2> QED BY <1>2, <2>1, <2>2, <2>5
<1>15. outOfTurn \subseteq outOfTurn'
  BY <1>1
<1>16. Originals'
  <2> SUFFICES ASSUME NEW t \in Targets \ (unrecorded \cup outOfTurn'), NEW i \in LiveOn(t)',
                      \A j \in LiveOn(t)' : i <= j
               PROVE  ledger'[i].before = orig[t]
    BY <1>1 DEF Originals
  <2>1. \A j \in LiveOn(t) : (\A m \in LiveOn(t) : j <= m) => ledger[j].before = orig[t]
    BY <1>15 DEF Originals
  <2>2. i \in LiveOn(t) /\ ledger'[i] = ledger[i]
    BY <1>4, <1>5, <1>6, <1>11, <1>12
  <2>3. k \in LiveOn(t) => i <= k
    <3>1. k \in LiveOn(t) => t = target
      BY <1>2 DEF LiveOn
    <3> QED BY <1>14, <2>2, <3>1
  <2>4. \A j \in LiveOn(t) : i <= j
    BY <1>11, <2>3
  <2> QED BY <2>1, <2>2, <2>4
<1>17. SoFar'
  <2> SUFFICES ASSUME clean, NEW t \in due \ (unrecorded \cup outOfTurn')
               PROVE  /\ \A i \in LiveOn(t)' : i \in todo
                      /\ LiveOn(t)' = {} => file[t] = orig[t]
    BY <1>1 DEF SoFar
  <2>1. /\ \A i \in LiveOn(t) : i \in todo \/ ledger[i].id = id
        /\ LiveOn(t) = {} => file[t] = orig[t]
        /\ t = target => \A i \in Applies : ledger[i].id = id => file[t] = ledger[i].before
    BY <1>1, <1>15 DEF SoFar
  <2>2. \A i \in LiveOn(t)' : i \in todo
    BY <1>2, <1>4, <1>11, <1>12, <2>1
  <2>3. ASSUME LiveOn(t)' = {} PROVE file[t] = orig[t]
    <3>1. CASE t # target
      BY <1>13, <2>1, <2>3, <3>1
    <3>2. CASE t = target
      <4>1. LiveOn(t) = {k}
        BY <1>2, <1>8, <1>11, <2>3, <3>2 DEF LiveOn
      <4>2. t \in Targets \ (unrecorded \cup outOfTurn)
        BY <1>2, <1>15, <3>2
      <4>3. ledger[k].before = orig[t]
        BY <1>2, <4>1, <4>2 DEF Originals
      <4> QED BY <1>2, <2>1, <3>2, <4>3
    <3> QED BY <3>1, <3>2
  <2> QED BY <2>2, <2>3
<1> QED BY <1>9, <1>10, <1>16, <1>17

\* The program puts back what was there before.
LEMMA RestoreStep ==
    ASSUME Typed, Distinct, Recorded, InTurn, SoFar, Restore
    PROVE  InTurn' /\ SoFar'
<1> DEFINE k == Named(id)
<1>1. /\ pc = "restore" /\ UNCHANGED <<ledger, live, orig, unrecorded, outOfTurn, id, target, todo, due, all>>
      /\ \/ pc' = "next" /\ clean' = FALSE
         \/ /\ file' = [file EXCEPT ![target] = ledger[k].before]
            /\ pc' = "record revert" /\ UNCHANGED clean
  BY DEF Restore, log, change, history
<1>2. /\ k \in Applies /\ ledger[k].id = id /\ ledger[k].target = target
      /\ target \in Targets /\ \A i \in Applies : ledger[i].id = id => i = k
  BY <1>1, OneNamed DEF Reverting
<1>3. file \in [Targets -> Configs]
  BY DEF Typed, FilesTyped
<1> HIDE DEF k
<1>4. Applies' = Applies /\ Reverted' = Reverted /\ \A t : LiveOn(t)' = LiveOn(t)
  BY <1>1, SameLedger
<1>5. InTurn'
  BY <1>1, <1>4 DEF InTurn, Reverting
<1>6. CASE clean' = FALSE
  BY <1>5, <1>6 DEF SoFar
<1>7. CASE /\ file' = [file EXCEPT ![target] = ledger[k].before]
           /\ pc' = "record revert" /\ UNCHANGED clean
  <2> SUFFICES ASSUME clean', NEW t \in due' \ (unrecorded' \cup outOfTurn')
               PROVE  /\ \A i \in LiveOn(t)' : i \in todo' \/ (pc' \in Reverting /\ ledger'[i].id = id')
                      /\ LiveOn(t)' = {} => file'[t] = orig'[t]
                      /\ t = target' =>
                            \A i \in Applies' : ledger'[i].id = id' => file'[t] = ledger'[i].before
    BY <1>5 DEF SoFar
  <2>1. k \in LiveOn(target)
    BY <1>1, <1>2 DEF InTurn, Recorded, LiveOn
  <2>2. /\ \A i \in LiveOn(t) : i \in todo \/ ledger[i].id = id
        /\ LiveOn(t) = {} => file[t] = orig[t]
    BY <1>1, <1>7 DEF SoFar
  <2>3. file'[target] = ledger[k].before /\ (t # target => file'[t] = file[t])
    <3>1. t \in Targets
      BY <1>1 DEF InTurn
    <3> QED BY <1>2, <1>3, <1>7, <3>1
  <2>4. /\ \A i \in LiveOn(t) : i \in todo \/ ledger[i].id = id
        /\ LiveOn(t) = {} => file'[t] = orig[t]
        /\ t = target => \A i \in Applies : ledger[i].id = id => file'[t] = ledger[i].before
    BY <1>2, <2>1, <2>2, <2>3
  <2>5. LiveOn(t)' = LiveOn(t)
    BY <1>4
  <2> QED BY <1>1, <1>4, <1>7, <2>4, <2>5 DEF Reverting
<1> QED BY <1>1, <1>6, <1>7

\* The file is replaced by one with the guardrails: what was there is the original
\* if nothing of the ledger's is in it.
LEMMA WriteStep ==
    ASSUME Typed, Recorded, Originals, Write
    PROVE  Recorded' /\ Originals'
<1>1. /\ pc = "write" /\ UNCHANGED <<ledger, live, unrecorded, outOfTurn, target, cur>>
      /\ orig' = IF LiveOn(target) = {} THEN [orig EXCEPT ![target] = cur] ELSE orig
      /\ target \in Targets /\ orig \in [Targets -> Configs]
  BY DEF Write, log, change, Typed, ChangeTyped, FilesTyped
<1>2. Applies' = Applies /\ Reverted' = Reverted /\ \A t : LiveOn(t)' = LiveOn(t)
  BY <1>1, SameLedger
<1>3. Recorded'
  BY <1>1, <1>2 DEF Recorded
<1>4. Originals'
  <2> SUFFICES ASSUME NEW t \in Targets \ (unrecorded \cup outOfTurn)
               PROVE  /\ \A i \in LiveOn(t) : (\A j \in LiveOn(t) : i <= j) =>
                                                 ledger[i].before = orig'[t]
                      /\ t = target /\ LiveOn(t) = {} => orig'[t] = cur
    BY <1>1, <1>2 DEF Originals
  <2>1. \A i \in LiveOn(t) : (\A j \in LiveOn(t) : i <= j) => ledger[i].before = orig[t]
    BY DEF Originals
  <2>2. LiveOn(t) # {} => orig'[t] = orig[t]
    BY <1>1
  <2> QED BY <1>1, <2>1, <2>2
<1> QED BY <1>3, <1>4

LEMMA RevertStep ==
    ASSUME Typed, RevertInv, [Next]_vars
    PROVE  RevertInv'
<1> SUFFICES ASSUME Distinct'
             PROVE  Recorded' /\ InTurn' /\ Originals' /\ SoFar'
  BY DEF RevertInv
<1>0. Distinct /\ Recorded /\ InTurn /\ Originals /\ SoFar
  BY DistinctBefore DEF RevertInv
<1>1. UNCHANGED ledger => Applies' = Applies /\ Reverted' = Reverted
  BY SameLedger
<1>2. UNCHANGED <<ledger, live>> => \A t : LiveOn(t)' = LiveOn(t)
  BY SameLedger
<1>3. ASSUME UNCHANGED <<ledger, live, orig, unrecorded, outOfTurn>>,
             pc' # "record" \/ UNCHANGED <<pc, target, cur>>
      PROVE  Recorded' /\ Originals'
  BY <1>0, <1>3, QuietStep
<1>4. ASSUME Idle PROVE InTurn' /\ SoFar'
  BY <1>4, NothingDue DEF Idle
<1>5. pc \notin Reverting \cup {"next", "done"} => due = {} /\ todo = {}
  BY <1>0 DEF InTurn
<1>6. CASE \E t \in Targets : AgentEdits(t)
  <2>1. PICK t \in Targets : AgentEdits(t)
    BY <1>6
  <2>2. /\ UNCHANGED <<ledger, live, orig, unrecorded, outOfTurn, pc, target, cur, id, todo, clean, all>>
        /\ due' = due \ {t} /\ \A s \in Targets : s # t => file'[s] = file[s]
    <3>1. PICK x \in Configs : file' = [file EXCEPT ![t] = x]
      BY <2>1, AgentShape
    <3>2. \A s \in Targets : s # t => file'[s] = file[s]
      BY <3>1 DEF Typed, FilesTyped
    <3> QED BY <2>1, <3>2, AgentShape DEF log, change, history
  <2>3. Recorded' /\ Originals'
    BY <1>3, <2>2
  <2>4. InTurn'
    BY <1>0, <1>1, <2>2 DEF InTurn
  <2>5. SoFar'
    <3>1. due' \subseteq due /\ \A s \in due' : file'[s] = file[s]
      BY <1>0, <2>2 DEF InTurn
    <3> QED BY <1>0, <2>2, <3>1, SameAccount
  <2> QED BY <2>3, <2>4, <2>5
<1>7. CASE \E t \in Targets : \E is \in (SUBSET Guards) \ {{}} : PlanApply(t, is)
  <2>1. /\ UNCHANGED <<ledger, live, orig, unrecorded, outOfTurn, todo, due>>
        /\ pc = "idle" /\ pc' = "reread"
    BY <1>7 DEF PlanApply, log, history
  <2>2. due' = {} /\ todo' = {}
    BY <1>5, <2>1 DEF Reverting
  <2> QED BY <1>3, <2>1, <2>2, NothingDue
<1>8. CASE Reread
  <2>1. UNCHANGED <<ledger, live, orig, unrecorded, outOfTurn>> /\ pc = "reread"
    BY <1>8 DEF Reread, log, history
  <2>2. CASE Idle
    BY <1>3, <1>4, <2>1, <2>2 DEF Idle
  <2>3. CASE pc' \in {"backup", "write"} /\ UNCHANGED <<todo, due>>
    <3>1. due' = {} /\ todo' = {}
      BY <1>5, <2>1, <2>3 DEF Reverting
    <3> QED BY <1>3, <2>1, <2>3, <3>1, NothingDue
  <2> QED BY <1>8, <2>2, <2>3 DEF Reread
<1>9. CASE Backup
  <2>1. /\ UNCHANGED <<ledger, live, orig, unrecorded, outOfTurn, todo, due>>
        /\ pc = "backup" /\ pc' = "write"
    BY <1>9 DEF Backup, log, history
  <2>2. due' = {} /\ todo' = {}
    BY <1>5, <2>1 DEF Reverting
  <2> QED BY <1>3, <2>1, <2>2, NothingDue
<1>10. CASE Write
  <2>1. UNCHANGED <<todo, due>> /\ pc = "write" /\ pc' = "record"
    BY <1>10 DEF Write
  <2>2. due' = {} /\ todo' = {}
    BY <1>5, <2>1 DEF Reverting
  <2> QED BY <1>0, <1>10, <2>1, <2>2, NothingDue, WriteStep
<1>11. CASE ApplyFails \/ Done
  <2>1. UNCHANGED <<ledger, live, orig, unrecorded, outOfTurn>> /\ Idle
    BY <1>11 DEF ApplyFails, Done, log, history
  <2> QED BY <1>3, <1>4, <2>1 DEF Idle
<1>12. CASE RecordApply
  <2>1. Idle /\ pc = "record"
    BY <1>12 DEF RecordApply
  <2> QED BY <1>0, <1>4, <1>12, <2>1, RecordApplyStep
<1>13. CASE \E f \in BOOLEAN : BeginRevertAll(f)
  <2>1. /\ UNCHANGED <<ledger, live, orig, unrecorded, outOfTurn>>
        /\ pc' = "next" /\ due' = {t \in Targets : LiveOn(t) # {}} /\ all' = TRUE
        /\ todo' = {i \in Applies : ~WasReverted(ledger[i].id)}
    BY <1>13 DEF BeginRevertAll, log, history
  <2>2. Recorded' /\ Originals'
    BY <1>3, <2>1
  <2>3. InTurn'
    BY <2>1 DEF InTurn, Reverting
  <2>4. \A t : LiveOn(t) \subseteq todo'
    <3>1. live \subseteq todo'
      BY <1>0, <2>1, RevertedOf DEF Recorded, Typed, LedgerTyped
    <3> QED BY <3>1 DEF LiveOn
  <2>5. SoFar'
    BY <1>2, <2>1, <2>4 DEF SoFar
  <2> QED BY <2>2, <2>3, <2>5
<1>14. CASE \E f \in BOOLEAN : \E i \in Applies : BeginRevert(i, f)
  <2>1. /\ UNCHANGED <<ledger, live, orig, unrecorded, outOfTurn, todo, due>>
        /\ pc = "idle" /\ pc' = "check"
    BY <1>14 DEF BeginRevert, log, history
  <2>2. due' = {} /\ todo' = {}
    BY <1>5, <2>1 DEF Reverting
  <2> QED BY <1>3, <2>1, <2>2, NothingDue
<1>15. CASE NextRevert
  <2>1. PICK i \in todo : /\ \A j \in todo : j <= i
                          /\ todo' = todo \ {i} /\ id' = ledger[i].id /\ pc' = "check"
    BY <1>15 DEF NextRevert
  <2>2. UNCHANGED <<ledger, live, orig, unrecorded, outOfTurn, clean, due, file, all>> /\ pc = "next"
    BY <1>15 DEF NextRevert, log, history, config
  <2>3. todo \subseteq Applies /\ live \subseteq Applies /\ \A j \in Applies : j \in Nat
    BY DEF Typed, LedgerTyped, Applies
  <2>4. \A j \in Applies : ledger[j].id = id' => j = i
    BY <1>0, <2>1, <2>3 DEF Distinct
  <2>5. InTurn'
    <3>1. \A j \in todo' : j < i
      BY <2>1, <2>3
    <3> QED BY <1>0, <1>1, <2>1, <2>2, <2>4, <3>1 DEF InTurn, Reverting
  <2>6. SoFar'
    <3>1. \A j \in live : j \in todo \/ (pc \in Reverting /\ ledger[j].id = id) =>
             j \in todo' \/ (pc' \in Reverting /\ ledger[j].id = id')
      BY <2>1, <2>2 DEF Reverting
    <3> QED BY <1>0, <2>1, <2>2, <3>1, RevertingStep
  <2> QED BY <1>3, <2>1, <2>2, <2>5, <2>6
<1>16. CASE LastRevert
  <2>1. /\ UNCHANGED <<ledger, live, orig, unrecorded, outOfTurn, file>>
        /\ pc = "next" /\ todo = {}
    BY <1>16 DEF LastRevert, log, history, config
  <2>2. CASE Idle
    BY <1>3, <1>4, <2>1, <2>2 DEF Idle
  <2>3. CASE pc' = "done" /\ UNCHANGED <<change, cur, todo, clean, due>>
    <3>1. InTurn'
      BY <1>0, <2>1, <2>3 DEF InTurn, Reverting, change
    <3>2. SoFar'
      BY <1>0, <2>1, <2>3, RevertingStep DEF Reverting
    <3> QED BY <1>3, <2>1, <2>3, <3>1, <3>2
  <2> QED BY <1>16, <2>2, <2>3 DEF LastRevert
<1>17. CASE CheckRevert
  <2>1. /\ UNCHANGED <<ledger, live, orig, unrecorded, outOfTurn, file, id, todo, due, all>>
        /\ pc = "check"
        /\ \/ Refused
           \/ (all => ~WasReverted(id)) /\ pc' = "restore" /\ UNCHANGED clean
    BY <1>17 DEF CheckRevert, log, history, config
  <2>2. pc' \in {"next", "restore"} /\ (pc' = "next" => ~clean') /\ (clean' => clean)
    BY <2>1 DEF Refused
  <2>3. InTurn'
    BY <1>0, <1>1, <2>1, <2>2, RevertedOf DEF InTurn, Reverting, Refused
  <2>4. SoFar'
    <3>1. pc' = "next" => ~clean'
      BY <2>2
    <3> QED BY <1>0, <2>1, <2>2, RevertingStep DEF Reverting
  <2> QED BY <1>3, <2>1, <2>2, <2>3, <2>4
<1>18. CASE Restore
  <2>1. UNCHANGED <<ledger, live, orig, unrecorded, outOfTurn>> /\ pc' # "record"
    BY <1>18 DEF Restore, log, history
  <2> QED BY <1>0, <1>3, <1>18, <2>1, RestoreStep
<1>19. CASE RestoreFails
  <2>1. /\ UNCHANGED <<ledger, live, orig, unrecorded, outOfTurn, todo, due, all>>
        /\ pc = "restore" /\ pc' = "next" /\ clean' = FALSE
    BY <1>19 DEF RestoreFails, log, history, change
  <2>2. InTurn'
    BY <1>0, <2>1 DEF InTurn, Reverting
  <2>3. SoFar'
    BY <2>1 DEF SoFar
  <2> QED BY <1>3, <2>1, <2>2, <2>3
<1>20. CASE RecordRevert
  BY <1>0, <1>20, RecordRevertStep
<1>21. CASE Crash
  <2>1. /\ Idle /\ UNCHANGED <<ledger, live, orig, outOfTurn>> /\ unrecorded \subseteq unrecorded'
    BY <1>21 DEF Crash
  <2>2. Recorded' /\ Originals'
    BY <1>0, <2>1, QuietStep DEF Idle
  <2> QED BY <1>4, <2>1, <2>2
<1>22. CASE UNCHANGED vars
  <2>1. UNCHANGED <<file, ledger, live, orig, unrecorded, outOfTurn, pc, target, cur, id, todo, clean, due, all>>
    BY <1>22 DEF vars, config, log, change, history
  <2>2. Recorded' /\ Originals'
    BY <1>3, <2>1
  <2>3. InTurn'
    BY <1>0, <1>1, <2>1 DEF InTurn
  <2>4. SoFar'
    BY <1>0, <2>1, SameAccount
  <2> QED BY <2>2, <2>3, <2>4
<1> QED BY <1>6, <1>7, <1>8, <1>9, <1>10, <1>11, <1>12, <1>13, <1>14, <1>15, <1>16, <1>17, <1>18,
        <1>19, <1>20, <1>21, <1>22 DEF Next, Apply, Revert

\* RevertAll undoes every applied change, newest first (cli/mitigate_cmd.go:53):
\* when it reports no error, every file no agent edited meanwhile is as it was
\* before the first change still in it, as long as no two changes have the same id.
THEOREM RevertAllUndoes == Spec => []RevertAllRestoresDistinct
<1>1. Init => RevertInv
  BY DEF Init, RevertInv, Recorded, InTurn, Originals, SoFar, Reverting, Applies, Reverted, LiveOn
<1>2. Typed /\ RevertInv /\ [Next]_vars => (Typed /\ RevertInv)'
  BY TypedStep, RevertStep
<1>3. RevertInv => RevertAllRestoresDistinct
  <2> SUFFICES ASSUME RevertInv, Distinct, pc = "done", clean,
                      NEW t \in due \ (unrecorded \cup outOfTurn)
               PROVE  file[t] = orig[t] /\ LiveOn(t) = {}
    BY DEF RevertAllRestoresDistinct, RevertAllRestores, Distinct
  <2>1. InTurn /\ SoFar
    BY DEF RevertInv
  <2>2. LiveOn(t) = {}
    BY <2>1 DEF InTurn, SoFar, Reverting
  <2> QED BY <2>1, <2>2 DEF SoFar
<1> QED BY <1>1, <1>2, <1>3, TypedInit, PTL DEF Spec
===============================================================================
