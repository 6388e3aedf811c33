------------------------------ MODULE Call_proofs ------------------------------
(* What is promised of the books of a call, proved for any calls, contacts,   *)
(* torn lines and Autopilots: every step of the call loop's saves, of         *)
(* post-call analysis and of the stores under them keeps BooksInv.            *)
EXTENDS MCCall, FiniteSetTheorems, TLAPS

LEMMA AppendParts ==
    ASSUME NEW S, NEW q \in Seq(S), NEW e \in S
    PROVE  /\ Append(q, e) \in Seq(S) /\ Len(Append(q, e)) = Len(q) + 1
           /\ \A i \in 1..Len(q) : Append(q, e)[i] = q[i]
           /\ Append(q, e)[Len(q) + 1] = e
OBVIOUS
-----------------------------------------------------------------------------
(* The books of a call *)

BookTypes ==
    /\ kind \in Kinds /\ up \in BOOLEAN /\ era \in 1..MaxEras
    /\ stage \in [Calls -> {"none", "live", "ended", "lost"}]
    /\ made \in [Calls -> 0..MaxSaves] /\ owner \in [Calls -> 1..MaxEras]
    /\ index \in [Calls -> Records] /\ file \in [Calls -> Records]
    /\ rows \in [Calls -> Records] /\ acked \in [Calls -> Records]
    /\ link \in [Calls -> Contacts \cup {Nobody}]
    /\ torn \in BOOLEAN /\ tears \in 0..MaxTears
    /\ refused \subseteq Calls

JobTypes ==
    /\ queue \in [1..MaxEras -> Seq(Calls)]
    /\ job \in [Calls -> {"none", "queued", "lost"} \cup Busy \cup Reported]
    /\ found \in [Calls -> Analyses] /\ latest \in [Calls -> Records]
    /\ uploads \in [Calls -> 0..1]

\* No call is of an Autopilot to come; there is room for the last save of one that goes on, as for the
\* next start of a process that died.  A call that has not begun has no record, and one that goes on
\* under an Autopilot that was shut down has none in the table.
OwnersFit ==
    /\ \A c \in Calls : owner[c] <= era
    /\ \A c \in Calls : stage[c] \in {"none", "live"} => made[c] < MaxSaves
    /\ \A c \in Calls : stage[c] = "none" => made[c] = 0 /\ acked[c] = NoRecord
    /\ \A c \in Calls : kind = "crm" /\ stage[c] = "live" /\ owner[c] < era => acked[c] = NoRecord
    /\ ~up => era < MaxEras

\* A call whose Autopilot closed its table before the first save.
ShutOut(c) == kind = "crm" /\ owner[c] < era /\ acked[c] = NoRecord

\* What was saved last is the newest there is, unless a save was refused or all of them met a closed
\* table; and no store is ahead of it.
SavesFit ==
    \A c \in Calls : /\ c \notin refused => acked[c].v = made[c] \/ ShutOut(c)
                     /\ acked[c].v <= made[c] /\ index[c].v <= made[c] /\ file[c].v <= made[c]

\* Records whose line is not the one that was saved last: one for each torn line, but for the one that
\* may still be torn.
Behind == {c \in Calls : file[c] # acked[c]}
TearsFit ==
    kind = "jsonl" => /\ IsFiniteSet(Behind)
                      /\ torn => Cardinality(Behind) + 1 <= tears
                      /\ ~torn => Cardinality(Behind) <= tears

\* A queue holds calls of its own Autopilot that wait, each of them once.
QueuesFit ==
    \A e \in 1..MaxEras : \A i \in 1..Len(queue[e]) :
        /\ job[queue[e][i]] = "queued" /\ owner[queue[e][i]] = e
        /\ \A k \in 1..Len(queue[e]) : queue[e][i] = queue[e][k] => i = k

\* What an analysis finds in the history is the last record of its call, with nothing taken from it; and
\* nothing is uploaded before the upload.
JobFits(c) ==
    /\ job[c] # "none" => stage[c] = "ended"
    /\ job[c] \in {"queued"} \cup Busy /\ owner[c] = era => Stored(c).v = made[c]
    /\ job[c] = "saving" => latest[c].v = made[c]
    /\ job[c] \in {"none", "queued", "probing"} => uploads[c] = 0
    /\ kind = "jsonl" /\ job[c] = "kept" /\ owner[c] = era => index[c] = [v |-> made[c], post |-> found[c]]
JobsFit == \A c \in Calls : JobFits(c)

BooksInv == BookTypes /\ JobTypes /\ OwnersFit /\ SavesFit /\ TearsFit /\ QueuesFit /\ JobsFit

LEMMA Kept2 == NoRecord \in Records /\ \A v \in 0..MaxSaves : [v |-> v, post |-> "none"] \in Records
BY RecordsAssumption DEF NoRecord, Records, Analyses

\* What a save may do to the stores, to what is promised of them, and to nothing else.
LEMMA SaveEffects ==
    ASSUME BookTypes, NEW c \in Calls, NEW rec \in Records, NEW ok \in BOOLEAN, Saved(c, rec, ok)
    PROVE  /\ index' = index \/ index' = [index EXCEPT ![c] = rec]
           /\ file' = file \/ file' = [file EXCEPT ![c] = rec]
           /\ rows' = rows \/ rows' = [rows EXCEPT ![c].v = rec.v]
           /\ acked' = IF ok THEN [acked EXCEPT ![c] = rec] ELSE acked
           /\ link' \in [Calls -> Contacts \cup {Nobody}]
           /\ \A d \in Calls : link[d] # Nobody => link'[d] = link[d]
           /\ refused \subseteq refused' /\ refused' \subseteq Calls
           /\ ~ok => c \in refused' \/ (kind = "crm" /\ owner[c] # era)
           /\ kind = "jsonl" /\ owner[c] = era => index'[c] = rec
           /\ kind = "crm" /\ ok => rows'[c].v = rec.v /\ owner[c] = era
           /\ kind = "crm" => index' = index
<1>1. /\ index \in [Calls -> Records] /\ rows \in [Calls -> Records] /\ link \in [Calls -> Contacts \cup {Nobody}]
      /\ refused \subseteq Calls
  BY DEF BookTypes
<1>2. /\ ~ok => c \in refused' \/ (kind = "crm" /\ owner[c] # era)
      /\ refused \subseteq refused' /\ refused' \subseteq Calls
  BY <1>1 DEF Saved
<1>3. CASE kind = "jsonl" /\ LogSave(c, rec, ok)
  <2>1. /\ index' = IF owner[c] = era THEN [index EXCEPT ![c] = rec] ELSE index
        /\ file' = file \/ file' = [file EXCEPT ![c] = rec]
        /\ acked' = IF ok THEN [acked EXCEPT ![c] = rec] ELSE acked
        /\ rows' = rows /\ link' = link
    BY <1>3 DEF LogSave, AppendLine
  <2>2. kind # "crm"
    BY <1>3
  <2> QED
    BY <1>1, <1>2, <2>1, <2>2
<1>4. CASE kind = "crm" /\ (ok => owner[c] = era) /\ TableSave(c, rec, ok)
  <2>1. /\ rows' = IF ok THEN [rows EXCEPT ![c].v = rec.v] ELSE rows
        /\ link' = IF ok THEN [link EXCEPT ![c] = AutoLink(c)] ELSE link
        /\ acked' = IF ok THEN [acked EXCEPT ![c] = rec] ELSE acked
        /\ index' = index /\ file' = file
    BY <1>4 DEF TableSave
  <2>2. AutoLink(c) \in Contacts \cup {Nobody} /\ (link[c] # Nobody => AutoLink(c) = link[c])
    <3>1. Matching(party[c]) \subseteq Contacts
      BY DEF Matching
    <3> QED
      BY <1>1, <3>1 DEF AutoLink
  <2>3. /\ link' \in [Calls -> Contacts \cup {Nobody}]
        /\ \A d \in Calls : link[d] # Nobody => link'[d] = link[d]
    BY <1>1, <2>1, <2>2
  <2>4. ok => rows'[c].v = rec.v /\ owner[c] = era
    BY <1>1, <1>4, <2>1 DEF Records
  <2>5. kind # "jsonl"
    BY <1>4
  <2> QED
    BY <1>2, <2>1, <2>3, <2>4, <2>5
<1> QED
  BY <1>3, <1>4 DEF Saved

LEMMA SavesKeepTypes ==
    ASSUME BookTypes, NEW c \in Calls, NEW rec \in Records, NEW ok \in BOOLEAN, Saved(c, rec, ok)
    PROVE  /\ index' \in [Calls -> Records] /\ file' \in [Calls -> Records]
           /\ rows' \in [Calls -> Records] /\ acked' \in [Calls -> Records]
           /\ torn' \in BOOLEAN /\ tears' \in 0..MaxTears
<1>1. /\ index' = index \/ index' = [index EXCEPT ![c] = rec]
      /\ file' = file \/ file' = [file EXCEPT ![c] = rec]
      /\ rows' = rows \/ rows' = [rows EXCEPT ![c].v = rec.v]
      /\ acked' = acked \/ acked' = [acked EXCEPT ![c] = rec]
  BY SaveEffects
<1>2. /\ index \in [Calls -> Records] /\ file \in [Calls -> Records]
      /\ rows \in [Calls -> Records] /\ acked \in [Calls -> Records]
  BY DEF BookTypes
<1>3. [rows[c] EXCEPT !.v = rec.v] \in Records
  BY <1>2 DEF Records
<1>4. /\ index' \in [Calls -> Records] /\ file' \in [Calls -> Records] /\ acked' \in [Calls -> Records]
  BY <1>1, <1>2
<1>5. rows' \in [Calls -> Records]
  BY <1>1, <1>2, <1>3
<1>6. torn' \in BOOLEAN
  BY DEF BookTypes, Saved, LogSave, AppendLine, TableSave
<1>7. tears' = tears \/ (tears' = tears + 1 /\ tears < MaxTears)
  <2>1. CASE AppendLine(c, rec, ok)
    <3>1. tears' = (IF ~ok /\ torn' /\ ~torn THEN tears + 1 ELSE tears)
      BY <2>1 DEF AppendLine
    <3>2. ~ok /\ torn' /\ ~torn => tears < MaxTears
      BY <2>1 DEF AppendLine
    <3> QED
      BY <3>1, <3>2
  <2>2. CASE TableSave(c, rec, ok)
    BY <2>2 DEF TableSave
  <2> QED
    BY <2>1, <2>2 DEF Saved, LogSave
<1>8. tears' \in 0..MaxTears
  BY <1>7, RecordsAssumption DEF BookTypes
<1> QED
  BY <1>4, <1>5, <1>6, <1>8

\* A line that is lost costs one record: the one that was to be saved behind the stump.
LEMMA SavesKeepTears ==
    ASSUME BookTypes, TearsFit, NEW c \in Calls, NEW rec \in Records, NEW ok \in BOOLEAN, Saved(c, rec, ok),
           kind' = kind
    PROVE  TearsFit'
<1> SUFFICES ASSUME kind = "jsonl"
             PROVE  /\ IsFiniteSet(Behind')
                    /\ torn' => Cardinality(Behind') + 1 <= tears'
                    /\ ~torn' => Cardinality(Behind') <= tears'
  BY DEF TearsFit
<1>1. /\ AppendLine(c, rec, ok)
      /\ acked' = IF ok THEN [acked EXCEPT ![c] = rec] ELSE acked
  <2>1. kind # "crm"
    OBVIOUS
  <2> QED
    BY <2>1 DEF Saved, LogSave
<1>2. /\ IsFiniteSet(Behind)
      /\ torn => Cardinality(Behind) + 1 <= tears
      /\ ~torn => Cardinality(Behind) <= tears
  BY DEF TearsFit
<1>3. Cardinality(Behind) \in Nat /\ tears \in Nat
  BY <1>2, FS_CardinalityType, RecordsAssumption DEF BookTypes
<1>4. file \in [Calls -> Records] /\ acked \in [Calls -> Records]
  BY DEF BookTypes
<1>5. CASE ok /\ ~torn
  <2>1. file' = [file EXCEPT ![c] = rec] /\ acked' = [acked EXCEPT ![c] = rec]
    BY <1>1, <1>5 DEF AppendLine
  <2>2. Behind' \subseteq Behind
    BY <1>4, <2>1 DEF Behind
  <2>3. IsFiniteSet(Behind') /\ Cardinality(Behind') <= Cardinality(Behind)
    BY <1>2, <2>2, FS_Subset
  <2>4. ~torn' /\ tears' = tears
    BY <1>1, <1>5 DEF AppendLine
  <2>5. Cardinality(Behind') \in Nat
    BY <2>3, FS_CardinalityType
  <2>6. Cardinality(Behind') <= tears
    BY <1>2, <1>3, <1>5, <2>3, <2>5
  <2> QED
    BY <2>3, <2>4, <2>6
<1>6. CASE ok /\ torn
  <2>1. file' = file /\ acked' = [acked EXCEPT ![c] = rec]
    BY <1>1, <1>6 DEF AppendLine
  <2>2. Behind' \subseteq Behind \cup {c}
    BY <1>4, <2>1 DEF Behind
  <2>3. IsFiniteSet(Behind \cup {c}) /\ Cardinality(Behind \cup {c}) <= Cardinality(Behind) + 1
    <3>1. /\ IsFiniteSet(Behind \cup {c})
          /\ Cardinality(Behind \cup {c}) = Cardinality(Behind) \/ Cardinality(Behind \cup {c}) = Cardinality(Behind) + 1
      BY <1>2, FS_AddElement
    <3> QED
      BY <1>3, <3>1
  <2>4. /\ IsFiniteSet(Behind') /\ Cardinality(Behind') <= Cardinality(Behind \cup {c})
        /\ Cardinality(Behind') \in Nat /\ Cardinality(Behind \cup {c}) \in Nat
    BY <2>2, <2>3, FS_Subset, FS_CardinalityType
  <2>5. ~torn' /\ tears' = tears
    BY <1>1, <1>6 DEF AppendLine
  <2>6. Cardinality(Behind') <= tears
    BY <1>2, <1>3, <1>6, <2>3, <2>4
  <2> QED
    BY <2>4, <2>5, <2>6
<1>7. CASE ~ok
  <2>1. Behind' = Behind
    BY <1>1, <1>7 DEF AppendLine, Behind
  <2>2. (torn' /\ torn /\ tears' = tears) \/ (torn' /\ ~torn /\ tears' = tears + 1) \/ (~torn' /\ ~torn /\ tears' = tears)
    BY <1>1, <1>7 DEF AppendLine, BookTypes
  <2> QED
    BY <1>2, <1>3, <2>1, <2>2
<1> QED
  BY <1>5, <1>6, <1>7

\* A record the call loop makes, and saves.
LEMMA CallRecorded ==
    ASSUME BooksInv, NEW c \in Calls, NEW ok \in BOOLEAN, RecordCall(c, ok) PROVE BooksInv'
<1> DEFINE rec == [v |-> made[c] + 1, post |-> "none"]
<1>0. BookTypes /\ JobTypes /\ OwnersFit /\ SavesFit /\ TearsFit /\ QueuesFit /\ JobsFit
  BY DEF BooksInv
<1>1. /\ Saved(c, rec, ok) /\ stage[c] \in {"none", "live"}
      /\ made' = [made EXCEPT ![c] = made[c] + 1]
      /\ \/ stage' = [stage EXCEPT ![c] = "live"] /\ made[c] < MaxSaves - 1
         \/ stage' = [stage EXCEPT ![c] = "ended"]
      /\ UNCHANGED <<owner, setting, found, latest, uploads>>
  BY DEF RecordCall, SaveProgress, SaveFinal
<1>2. /\ stage \in [Calls -> {"none", "live", "ended", "lost"}] /\ made \in [Calls -> 0..MaxSaves]
      /\ owner \in [Calls -> 1..MaxEras] /\ MaxSaves \in Nat
      /\ job \in [Calls -> {"none", "queued", "lost"} \cup Busy \cup Reported]
      /\ queue \in [1..MaxEras -> Seq(Calls)]
  BY <1>0, RecordsAssumption DEF BookTypes, JobTypes
<1>3. made[c] < MaxSaves /\ job[c] = "none"
  BY <1>0, <1>1, <1>2 DEF OwnersFit, JobsFit, JobFits
<1>4. rec \in Records /\ rec.v = made[c] + 1
  BY <1>2, <1>3 DEF Records, Analyses
<1> HIDE DEF rec
<1>5. /\ made' \in [Calls -> 0..MaxSaves] /\ made'[c] = made[c] + 1 /\ made[c] + 1 \in 0..MaxSaves
      /\ \A d \in Calls : d # c => made'[d] = made[d]
  BY <1>1, <1>2, <1>3
<1>6. /\ index' = index \/ index' = [index EXCEPT ![c] = rec]
      /\ file' = file \/ file' = [file EXCEPT ![c] = rec]
      /\ rows' = rows \/ rows' = [rows EXCEPT ![c].v = rec.v]
      /\ acked' = IF ok THEN [acked EXCEPT ![c] = rec] ELSE acked
      /\ link' \in [Calls -> Contacts \cup {Nobody}]
      /\ refused \subseteq refused' /\ refused' \subseteq Calls
      /\ ~ok => c \in refused' \/ (kind = "crm" /\ owner[c] # era)
      /\ kind = "jsonl" /\ owner[c] = era => index'[c] = rec
      /\ kind = "crm" /\ ok => rows'[c].v = rec.v /\ owner[c] = era
  BY <1>0, <1>1, <1>4, SaveEffects
<1>7. /\ index' \in [Calls -> Records] /\ file' \in [Calls -> Records]
      /\ rows' \in [Calls -> Records] /\ acked' \in [Calls -> Records]
      /\ torn' \in BOOLEAN /\ tears' \in 0..MaxTears
  BY <1>0, <1>1, <1>4, SavesKeepTypes
<1>8. stage' \in [Calls -> {"none", "live", "ended", "lost"}]
  BY <1>1, <1>2
<1>9. BookTypes'
  <2>1. UNCHANGED <<kind, up, era, owner>>
    BY <1>1 DEF setting
  <2> QED
    BY <1>0, <1>5, <1>6, <1>7, <1>8, <2>1 DEF BookTypes
<1>10. \A d \in Calls : d # c => /\ index'[d] = index[d] /\ file'[d] = file[d] /\ rows'[d] = rows[d] /\ acked'[d] = acked[d]
                                 /\ stage'[d] = stage[d]
  <2>1. index \in [Calls -> Records] /\ file \in [Calls -> Records] /\ rows \in [Calls -> Records] /\ acked \in [Calls -> Records]
    BY <1>0 DEF BookTypes
  <2> QED
    BY <1>1, <1>2, <1>6, <2>1
<1>17. kind = "crm" /\ owner[c] < era => acked'[c] = NoRecord
  <2> SUFFICES ASSUME kind = "crm", owner[c] < era PROVE acked'[c] = NoRecord
    OBVIOUS
  <2>1. owner[c] # era
    BY <1>0, <1>2 DEF BookTypes
  <2>2. ~ok /\ acked' = acked
    BY <1>6, <2>1
  <2>3. acked[c] = NoRecord
    BY <1>0, <1>1 DEF OwnersFit
  <2> QED
    BY <2>2, <2>3
<1>11. OwnersFit'
  <2>1. UNCHANGED <<kind, up, era, owner>>
    BY <1>1 DEF setting
  <2>2. (stage'[c] \in {"none", "live"} => made[c] + 1 < MaxSaves) /\ stage'[c] # "none"
    BY <1>1, <1>2
  <2>3. \A d \in Calls : stage'[d] \in {"none", "live"} => made'[d] < MaxSaves
    BY <1>0, <1>3, <1>5, <1>10, <2>2 DEF OwnersFit
  <2>4. \A d \in Calls : stage'[d] = "none" => made'[d] = 0 /\ acked'[d] = NoRecord
    BY <1>0, <1>5, <1>10, <2>2 DEF OwnersFit
  <2>5. \A d \in Calls : kind = "crm" /\ stage'[d] = "live" /\ owner[d] < era => acked'[d] = NoRecord
    BY <1>0, <1>10, <1>17 DEF OwnersFit
  <2> QED
    BY <1>0, <2>1, <2>3, <2>4, <2>5 DEF OwnersFit
<1>12. SavesFit'
  <2>0. UNCHANGED <<kind, era, owner>>
    BY <1>1 DEF setting
  <2>1. /\ c \notin refused' => acked'[c].v = made'[c] \/ ShutOut(c)'
        /\ acked'[c].v <= made'[c] /\ index'[c].v <= made'[c] /\ file'[c].v <= made'[c]
    <3>1. index \in [Calls -> Records] /\ file \in [Calls -> Records] /\ acked \in [Calls -> Records]
      BY <1>0 DEF BookTypes
    <3>2. acked[c].v <= made[c] /\ index[c].v <= made[c] /\ file[c].v <= made[c]
      BY <1>0 DEF SavesFit
    <3>3. acked[c].v \in Nat /\ index[c].v \in Nat /\ file[c].v \in Nat /\ made[c] \in Nat
      BY <1>2, <3>1 DEF Records
    <3>4. acked'[c] = rec \/ acked'[c] = acked[c]
      BY <1>6, <3>1
    <3>5. index'[c] = rec \/ index'[c] = index[c]
      BY <1>6, <3>1
    <3>6. file'[c] = rec \/ file'[c] = file[c]
      BY <1>6, <3>1
    <3>7. c \notin refused' => acked'[c] = rec \/ ShutOut(c)'
      <4>1. ok => acked'[c] = rec
        BY <1>6, <3>1
      <4>2. owner[c] # era => owner[c] < era
        BY <1>0, <1>2 DEF OwnersFit, BookTypes
      <4>3. ~ok /\ c \notin refused' => kind = "crm" /\ owner[c] < era
        BY <1>6, <4>2
      <4> QED
        BY <1>17, <2>0, <4>1, <4>3 DEF ShutOut
    <3> QED
      BY <1>4, <1>5, <3>2, <3>3, <3>4, <3>5, <3>6, <3>7
  <2>2. \A d \in Calls : d # c => /\ d \notin refused' => acked'[d].v = made'[d] \/ ShutOut(d)'
                                  /\ acked'[d].v <= made'[d] /\ index'[d].v <= made'[d] /\ file'[d].v <= made'[d]
    BY <1>0, <1>5, <1>6, <1>10, <2>0 DEF SavesFit, ShutOut
  <2> QED
    BY <2>1, <2>2 DEF SavesFit
<1>13. TearsFit'
  <2>1. kind' = kind
    BY <1>1 DEF setting
  <2> QED
    BY <1>0, <1>1, <1>4, <2>1, SavesKeepTears
<1>14. \A d \in Calls : d # c => Stored(d)' = Stored(d)
  BY <1>1, <1>10 DEF Stored, setting
<1>15. CASE ~Due(c) /\ UNCHANGED <<queue, job>>
  <2>1. JobTypes' /\ QueuesFit'
    BY <1>0, <1>1, <1>15 DEF JobTypes, QueuesFit
  <2>2. JobsFit'
    BY <1>0, <1>1, <1>3, <1>5, <1>10, <1>14, <1>15 DEF JobsFit, JobFits, setting, Busy
  <2> QED
    BY <1>9, <1>11, <1>12, <1>13, <2>1, <2>2 DEF BooksInv
<1>16. CASE /\ Due(c) /\ job' = [job EXCEPT ![c] = "queued"]
            /\ queue' = [queue EXCEPT ![owner[c]] = Append(@, c)]
  <2>1. stage'[c] = "ended" /\ acked'[c].v = made[c] + 1
    BY <1>5, <1>16 DEF Due
  <2>2. job' \in [Calls -> {"none", "queued", "lost"} \cup Busy \cup Reported]
    BY <1>2, <1>16
  <2>3. job'[c] = "queued" /\ \A d \in Calls : d # c => job'[d] = job[d]
    BY <1>2, <1>16
  <2>4. PICK e \in 1..MaxEras : e = owner[c]
    BY <1>2
  <2>5. /\ queue'[e] \in Seq(Calls) /\ Len(queue'[e]) = Len(queue[e]) + 1
        /\ \A i \in 1..Len(queue[e]) : queue'[e][i] = queue[e][i]
        /\ queue'[e][Len(queue[e]) + 1] = c
    <3>1. queue[e] \in Seq(Calls) /\ queue'[e] = Append(queue[e], c)
      BY <1>2, <1>16, <2>4
    <3> QED
      BY <3>1, AppendParts
  <2>6. \A f \in 1..MaxEras : f # e => queue'[f] = queue[f]
    BY <1>2, <1>16, <2>4
  <2>7. queue' \in [1..MaxEras -> Seq(Calls)]
    BY <1>2, <1>16, <2>4, <2>5
  <2>8. JobTypes'
    BY <1>0, <1>1, <2>2, <2>7 DEF JobTypes
  <2>9. QueuesFit'
    <3>1. \A f \in 1..MaxEras : Len(queue[f]) \in Nat /\ \A i \in 1..Len(queue[f]) : queue[f][i] \in Calls
      <4> TAKE f \in 1..MaxEras
      <4>1. queue[f] \in Seq(Calls)
        BY <1>2
      <4> QED
        BY <4>1
    <3>2. \A f \in 1..MaxEras : \A i \in 1..Len(queue[f]) : queue[f][i] # c
      BY <1>0, <1>3 DEF QueuesFit
    <3>3. ASSUME NEW f \in 1..MaxEras, f # e, NEW i \in 1..Len(queue'[f])
          PROVE  /\ job'[queue'[f][i]] = "queued" /\ owner[queue'[f][i]] = f
                 /\ \A k \in 1..Len(queue'[f]) : queue'[f][i] = queue'[f][k] => i = k
      <4>1. queue'[f] = queue[f] /\ queue[f][i] \in Calls /\ queue[f][i] # c
        BY <2>6, <3>1, <3>2, <3>3
      <4>2. /\ job[queue[f][i]] = "queued" /\ owner[queue[f][i]] = f
            /\ \A k \in 1..Len(queue[f]) : queue[f][i] = queue[f][k] => i = k
        BY <1>0, <3>3, <4>1 DEF QueuesFit
      <4> QED
        BY <2>3, <4>1, <4>2
    <3>4. ASSUME NEW i \in 1..Len(queue[e])
          PROVE  /\ job'[queue'[e][i]] = "queued" /\ owner[queue'[e][i]] = e
                 /\ \A k \in 1..Len(queue'[e]) : queue'[e][i] = queue'[e][k] => i = k
      <4>1. queue'[e][i] = queue[e][i] /\ queue[e][i] \in Calls /\ queue[e][i] # c
        BY <2>5, <3>1, <3>2
      <4>2. /\ job[queue[e][i]] = "queued" /\ owner[queue[e][i]] = e
            /\ \A k \in 1..Len(queue[e]) : queue[e][i] = queue[e][k] => i = k
        BY <1>0 DEF QueuesFit
      <4>3. \A k \in 1..Len(queue'[e]) : k \in 1..Len(queue[e]) \/ k = Len(queue[e]) + 1
        BY <2>5, <3>1
      <4> QED
        BY <2>3, <2>5, <4>1, <4>2, <4>3
    <3>5. /\ job'[queue'[e][Len(queue[e]) + 1]] = "queued" /\ owner[queue'[e][Len(queue[e]) + 1]] = e
          /\ \A k \in 1..Len(queue'[e]) : queue'[e][Len(queue[e]) + 1] = queue'[e][k] => Len(queue[e]) + 1 = k
      <4>1. \A k \in 1..Len(queue'[e]) : k \in 1..Len(queue[e]) \/ k = Len(queue[e]) + 1
        BY <2>5, <3>1
      <4> QED
        BY <2>3, <2>4, <2>5, <3>2, <4>1
    <3>6. \A i \in 1..Len(queue'[e]) : i \in 1..Len(queue[e]) \/ i = Len(queue[e]) + 1
      BY <2>5, <3>1
    <3>7. owner' = owner
      BY <1>1
    <3> QED
      BY <3>3, <3>4, <3>5, <3>6, <3>7 DEF QueuesFit
  <2>10. JobsFit'
    <3>1. owner'[c] = era' => Stored(c)'.v = made'[c]
      <4>0. UNCHANGED <<era, owner>>
        BY <1>1 DEF setting
      <4>1. ok
        <5> SUFFICES ASSUME ~ok PROVE FALSE
          OBVIOUS
        <5>1. acked' = acked /\ acked[c].v <= made[c] /\ acked[c].v \in Nat /\ made[c] \in Nat
          BY <1>0, <1>2, <1>6 DEF SavesFit, BookTypes, Records
        <5> QED
          BY <2>1, <5>1
      <4>2. kind' = kind /\ kind \in {"jsonl", "crm"}
        BY <1>0, <1>1, RecordsAssumption DEF BookTypes, setting
      <4>3. (kind = "jsonl" /\ owner[c] = era => index'[c] = rec) /\ (kind = "crm" => rows'[c].v = rec.v)
        BY <1>6, <4>1
      <4> QED
        BY <1>4, <1>5, <4>0, <4>2, <4>3 DEF Stored
    <3>2. uploads'[c] = 0
      BY <1>0, <1>1, <1>3 DEF JobsFit, JobFits
    <3>3. \A d \in Calls : d # c => JobFits(d)'
      BY <1>0, <1>1, <1>5, <1>10, <1>14, <2>3 DEF JobsFit, JobFits, setting
    <3>4. JobFits(c)'
      BY <2>1, <2>3, <3>1, <3>2 DEF JobFits
    <3> QED
      BY <3>3, <3>4 DEF JobsFit
  <2> QED
    BY <1>9, <1>11, <1>12, <1>13, <2>8, <2>9, <2>10 DEF BooksInv
<1> QED
  BY <1>15, <1>16 DEF RecordCall

\* A step of an analysis that leaves the stores alone.
LEMMA AnalysisMoves ==
    ASSUME BooksInv, NEW c \in Calls, Probe(c) \/ Transcribed(c) \/ Summarised(c) \/ ReadBack(c) PROVE BooksInv'
<1>0. BookTypes /\ JobTypes /\ OwnersFit /\ SavesFit /\ TearsFit /\ QueuesFit /\ JobsFit
  BY DEF BooksInv
<1>1. /\ job \in [Calls -> {"none", "queued", "lost"} \cup Busy \cup Reported]
      /\ found \in [Calls -> Analyses] /\ latest \in [Calls -> Records] /\ uploads \in [Calls -> 0..1]
      /\ queue \in [1..MaxEras -> Seq(Calls)]
      /\ made \in [Calls -> 0..MaxSaves] /\ index \in [Calls -> Records] /\ rows \in [Calls -> Records]
  BY <1>0 DEF JobTypes, BookTypes
<1>2. PICK to \in {"uploading", "summing", "reading", "saving"} :
          /\ job[c] \in Busy /\ job' = [job EXCEPT ![c] = to]
          /\ UNCHANGED <<recordVars, queue>>
          /\ found' \in [Calls -> Analyses] /\ uploads' \in [Calls -> 0..1] /\ latest' \in [Calls -> Records]
          /\ \A d \in Calls : d # c => found'[d] = found[d] /\ uploads'[d] = uploads[d] /\ latest'[d] = latest[d]
          /\ to = "saving" => latest'[c].v = made[c]
  <2>1. CASE Probe(c)
    <3>1. job[c] = "probing" => uploads[c] = 0
      BY <1>0 DEF JobsFit, JobFits
    <3>2. CASE Step(c, "probing", "reading") /\ found' = [found EXCEPT ![c] = "skipped"] /\ UNCHANGED uploads
      BY <1>1, <2>1, <3>2 DEF Probe, Step, Busy, Analyses
    <3>3. CASE Step(c, "probing", "uploading") /\ uploads' = [uploads EXCEPT ![c] = uploads[c] + 1] /\ UNCHANGED found
      BY <1>1, <2>1, <3>1, <3>3 DEF Probe, Step, Busy
    <3> QED
      BY <2>1, <3>2, <3>3 DEF Probe
  <2>2. CASE Transcribed(c)
    BY <1>1, <2>2 DEF Transcribed, Step, Busy, Analyses
  <2>3. CASE Summarised(c)
    BY <1>1, <2>3 DEF Summarised, Step, Busy
  <2>4. CASE ReadBack(c)
    <3>1. PICK r \in Records : /\ latest' = [latest EXCEPT ![c] = r]
                               /\ r.v = made[c]
      <4>1. [v |-> made[c], post |-> "none"] \in Records
        BY <1>1, Kept2
      <4>2. Stored(c) \in Records
        BY <1>1 DEF Stored
      <4>3. job[c] = "reading" /\ owner[c] = era => Stored(c).v = made[c]
        BY <1>0 DEF JobsFit, JobFits, Busy
      <4>4. job[c] = "reading"
        BY <2>4 DEF ReadBack, Step
      <4>5. OwnStored(c) \in Records /\ OwnStored(c).v = made[c]
        BY <4>1, <4>2, <4>3, <4>4 DEF OwnStored
      <4> QED
        BY <2>4, <4>1, <4>5 DEF ReadBack
    <3>2. /\ job[c] = "reading" /\ job' = [job EXCEPT ![c] = "saving"] /\ UNCHANGED <<recordVars, queue, found, uploads>>
      BY <2>4 DEF ReadBack, Step
    <3>3. job[c] \in Busy
      BY <3>2 DEF Busy
    <3>4. latest' \in [Calls -> Records] /\ latest'[c].v = made[c] /\ \A d \in Calls : d # c => latest'[d] = latest[d]
      BY <1>1, <3>1
    <3> QED
      BY <1>1, <3>2, <3>3, <3>4
  <2> QED
    BY <2>1, <2>2, <2>3, <2>4
<1>3. UNCHANGED <<kind, up, era, stage, made, owner, index, file, rows, acked, link, torn, tears, refused, queue>>
  BY <1>2 DEF recordVars, callVars, storeVars, setting
<1>4. BookTypes' /\ OwnersFit' /\ SavesFit' /\ TearsFit'
  BY <1>0, <1>3 DEF BookTypes, OwnersFit, SavesFit, ShutOut, TearsFit, Behind
<1>5. /\ job' \in [Calls -> {"none", "queued", "lost"} \cup Busy \cup Reported]
      /\ job'[c] = to /\ \A d \in Calls : d # c => job'[d] = job[d]
  BY <1>1, <1>2 DEF Busy
<1>6. JobTypes'
  BY <1>1, <1>2, <1>3, <1>5 DEF JobTypes
<1>7. QueuesFit'
  <2>1. \A f \in 1..MaxEras : \A i \in 1..Len(queue[f]) : queue[f][i] \in Calls
    <3> TAKE f \in 1..MaxEras
    <3>1. queue[f] \in Seq(Calls)
      BY <1>1
    <3> QED
      BY <3>1
  <2>2. \A f \in 1..MaxEras : \A i \in 1..Len(queue[f]) : queue[f][i] # c
    BY <1>0, <1>2 DEF QueuesFit, Busy
  <2>3. \A f \in 1..MaxEras : \A i \in 1..Len(queue[f]) : job'[queue[f][i]] = job[queue[f][i]]
    BY <1>5, <2>1, <2>2
  <2> QED
    BY <1>0, <1>3, <2>3 DEF QueuesFit
<1>8. \A d \in Calls : Stored(d)' = Stored(d)
  BY <1>3 DEF Stored
<1>9. JobsFit'
  <2>1. stage'[c] = "ended" /\ (owner'[c] = era' => Stored(c)'.v = made'[c])
    BY <1>0, <1>2, <1>3, <1>8 DEF JobsFit, JobFits, Busy
  <2>2. to \notin {"none", "queued", "probing", "kept"}
    BY <1>2
  <2>3. \A d \in Calls : d # c => JobFits(d)'
    BY <1>0, <1>2, <1>3, <1>5, <1>8 DEF JobsFit, JobFits
  <2>4. job'[c] = "saving" => latest'[c].v = made'[c]
    BY <1>2, <1>3, <1>5
  <2>5. JobFits(c)'
    BY <1>5, <2>1, <2>2, <2>4 DEF JobFits
  <2> QED
    BY <2>3, <2>5 DEF JobsFit
<1> QED
  BY <1>4, <1>6, <1>7, <1>9 DEF BooksInv

LEMMA HeadAndTail ==
    ASSUME NEW S, NEW q \in Seq(S), q # <<>>
    PROVE  /\ Len(q) \in Nat /\ 1 <= Len(q) /\ Head(q) = q[1] /\ Head(q) \in S
           /\ Tail(q) \in Seq(S) /\ Len(Tail(q)) = Len(q) - 1
           /\ \A i \in 1..(Len(q) - 1) : Tail(q)[i] = q[i + 1]
OBVIOUS

\* An analyser takes the call that has waited longest.
LEMMA Pumped == ASSUME BooksInv, NEW e \in 1..MaxEras, Pump(e) PROVE BooksInv'
<1>0. BookTypes /\ JobTypes /\ OwnersFit /\ SavesFit /\ TearsFit /\ QueuesFit /\ JobsFit
  BY DEF BooksInv
<1>1. /\ queue[e] # <<>> /\ queue' = [queue EXCEPT ![e] = Tail(queue[e])]
      /\ job' = [job EXCEPT ![Head(queue[e])] = "probing"]
      /\ UNCHANGED <<recordVars, found, latest, uploads>>
  BY DEF Pump
<1>2. /\ job \in [Calls -> {"none", "queued", "lost"} \cup Busy \cup Reported]
      /\ queue \in [1..MaxEras -> Seq(Calls)]
  BY <1>0 DEF JobTypes
<1>3. queue[e] \in Seq(Calls)
  BY <1>2
<1>4. PICK c \in Calls : c = Head(queue[e])
  BY <1>1, <1>3, HeadAndTail
<1>5. /\ Len(queue[e]) \in Nat /\ 1 <= Len(queue[e]) /\ queue[e][1] = c
      /\ queue'[e] \in Seq(Calls) /\ Len(queue'[e]) = Len(queue[e]) - 1
      /\ \A i \in 1..(Len(queue[e]) - 1) : queue'[e][i] = queue[e][i + 1]
      /\ \A f \in 1..MaxEras : f # e => queue'[f] = queue[f]
  <2>1. queue'[e] = Tail(queue[e]) /\ \A f \in 1..MaxEras : f # e => queue'[f] = queue[f]
    BY <1>1, <1>2
  <2>2. /\ Len(queue[e]) \in Nat /\ 1 <= Len(queue[e]) /\ Head(queue[e]) = queue[e][1]
        /\ Tail(queue[e]) \in Seq(Calls) /\ Len(Tail(queue[e])) = Len(queue[e]) - 1
        /\ \A i \in 1..(Len(queue[e]) - 1) : Tail(queue[e])[i] = queue[e][i + 1]
    BY <1>1, <1>3, HeadAndTail
  <2> QED
    BY <1>4, <2>1, <2>2
<1>6. UNCHANGED <<kind, up, era, stage, made, owner, index, file, rows, acked, link, torn, tears, refused>>
  BY <1>1 DEF recordVars, callVars, storeVars, setting
<1>7. BookTypes' /\ OwnersFit' /\ SavesFit' /\ TearsFit'
  BY <1>0, <1>6 DEF BookTypes, OwnersFit, SavesFit, ShutOut, TearsFit, Behind
<1>8. /\ job' \in [Calls -> {"none", "queued", "lost"} \cup Busy \cup Reported]
      /\ job'[c] = "probing" /\ \A d \in Calls : d # c => job'[d] = job[d]
  BY <1>1, <1>2, <1>4 DEF Busy
<1>9. queue' \in [1..MaxEras -> Seq(Calls)]
  BY <1>1, <1>2, <1>5
<1>10. JobTypes'
  BY <1>0, <1>1, <1>8, <1>9 DEF JobTypes
<1>11. job[c] = "queued" /\ owner[c] = e /\ \A k \in 1..Len(queue[e]) : queue[e][k] = c => k = 1
  <2>1. 1 \in 1..Len(queue[e])
    BY <1>5
  <2> QED
    BY <1>0, <1>5, <2>1 DEF QueuesFit
<1>12. QueuesFit'
  <2>1. \A f \in 1..MaxEras : \A i \in 1..Len(queue[f]) : queue[f][i] \in Calls
    <3> TAKE f \in 1..MaxEras
    <3>1. queue[f] \in Seq(Calls)
      BY <1>2
    <3> QED
      BY <3>1
  <2>2. ASSUME NEW f \in 1..MaxEras, f # e, NEW i \in 1..Len(queue'[f])
        PROVE  /\ job'[queue'[f][i]] = "queued" /\ owner[queue'[f][i]] = f
               /\ \A k \in 1..Len(queue'[f]) : queue'[f][i] = queue'[f][k] => i = k
    <3>1. queue'[f] = queue[f]
      BY <1>5, <2>2
    <3>2. /\ job[queue[f][i]] = "queued" /\ owner[queue[f][i]] = f
          /\ \A k \in 1..Len(queue[f]) : queue[f][i] = queue[f][k] => i = k
      BY <1>0, <2>2, <3>1 DEF QueuesFit
    <3>3. queue[f][i] # c /\ queue[f][i] \in Calls
      BY <1>11, <2>1, <2>2, <3>1, <3>2
    <3> QED
      BY <1>8, <3>1, <3>2, <3>3
  <2>3. ASSUME NEW i \in 1..Len(queue'[e])
        PROVE  /\ job'[queue'[e][i]] = "queued" /\ owner[queue'[e][i]] = e
               /\ \A k \in 1..Len(queue'[e]) : queue'[e][i] = queue'[e][k] => i = k
    <3>1. \A k \in 1..Len(queue'[e]) : k \in 1..(Len(queue[e]) - 1) /\ k + 1 \in 1..Len(queue[e]) /\ k + 1 # 1
      BY <1>5
    <3>2. \A k \in 1..Len(queue'[e]) : queue'[e][k] = queue[e][k + 1]
      BY <1>5, <3>1
    <3>3. /\ job[queue[e][i + 1]] = "queued" /\ owner[queue[e][i + 1]] = e
          /\ \A k \in 1..Len(queue[e]) : queue[e][i + 1] = queue[e][k] => i + 1 = k
      BY <1>0, <3>1 DEF QueuesFit
    <3>4. queue[e][i + 1] # c /\ queue[e][i + 1] \in Calls
      BY <1>11, <2>1, <3>1
    <3>5. \A k \in 1..Len(queue'[e]) : i + 1 = k + 1 => i = k
      OBVIOUS
    <3>6. \A k \in 1..Len(queue'[e]) : queue'[e][i] = queue'[e][k] => i = k
      BY <3>1, <3>2, <3>3, <3>5
    <3> QED
      BY <1>8, <3>2, <3>3, <3>4, <3>6
  <2> QED
    BY <1>6, <2>2, <2>3 DEF QueuesFit
<1>13. \A d \in Calls : Stored(d)' = Stored(d)
  BY <1>6 DEF Stored
<1>14. JobsFit'
  <2>1. /\ stage'[c] = "ended" /\ uploads'[c] = 0
        /\ owner'[c] = era' => Stored(c)'.v = made'[c]
    BY <1>0, <1>1, <1>6, <1>11, <1>13 DEF JobsFit, JobFits
  <2>2. \A d \in Calls : d # c => JobFits(d)'
    BY <1>0, <1>1, <1>6, <1>8, <1>13 DEF JobsFit, JobFits
  <2>3. JobFits(c)'
    BY <1>8, <2>1 DEF JobFits
  <2> QED
    BY <2>2, <2>3 DEF JobsFit
<1> QED
  BY <1>7, <1>10, <1>12, <1>14 DEF BooksInv

\* The analysis of a call is written back.
LEMMA Attached ==
    ASSUME BooksInv, NEW c \in Calls, NEW ok \in BOOLEAN, Attach(c, ok) PROVE BooksInv'
<1> DEFINE rec == [latest[c] EXCEPT !.post = found[c]]
<1>0. BookTypes /\ JobTypes /\ OwnersFit /\ SavesFit /\ TearsFit /\ QueuesFit /\ JobsFit
  BY DEF BooksInv
<1>1. /\ job[c] = "saving" /\ Saved(c, rec, ok)
      /\ job' = [job EXCEPT ![c] = IF ok THEN "kept" ELSE "unsaved"]
      /\ UNCHANGED <<callVars, setting, queue, found, latest, uploads>>
  BY DEF Attach
<1>2. /\ job \in [Calls -> {"none", "queued", "lost"} \cup Busy \cup Reported]
      /\ found \in [Calls -> Analyses] /\ latest \in [Calls -> Records]
      /\ queue \in [1..MaxEras -> Seq(Calls)]
      /\ made \in [Calls -> 0..MaxSaves] /\ index \in [Calls -> Records] /\ rows \in [Calls -> Records]
      /\ file \in [Calls -> Records] /\ acked \in [Calls -> Records]
  BY <1>0 DEF JobTypes, BookTypes
<1>3. stage[c] = "ended" /\ latest[c].v = made[c]
  BY <1>0, <1>1 DEF JobsFit, JobFits
<1>4. rec \in Records /\ rec.v = made[c] /\ rec = [v |-> made[c], post |-> found[c]]
  BY <1>2, <1>3 DEF Records
<1> HIDE DEF rec
<1>5. UNCHANGED <<kind, up, era, stage, made, owner, queue, found, latest, uploads>>
  BY <1>1 DEF callVars, setting
<1>6. /\ index' = index \/ index' = [index EXCEPT ![c] = rec]
      /\ file' = file \/ file' = [file EXCEPT ![c] = rec]
      /\ rows' = rows \/ rows' = [rows EXCEPT ![c].v = rec.v]
      /\ acked' = IF ok THEN [acked EXCEPT ![c] = rec] ELSE acked
      /\ link' \in [Calls -> Contacts \cup {Nobody}]
      /\ refused \subseteq refused' /\ refused' \subseteq Calls
      /\ kind = "jsonl" /\ owner[c] = era => index'[c] = rec
      /\ kind = "crm" /\ ok => owner[c] = era
  BY <1>0, <1>1, <1>4, SaveEffects
<1>7. /\ index' \in [Calls -> Records] /\ file' \in [Calls -> Records]
      /\ rows' \in [Calls -> Records] /\ acked' \in [Calls -> Records]
      /\ torn' \in BOOLEAN /\ tears' \in 0..MaxTears
  BY <1>0, <1>1, <1>4, SavesKeepTypes
<1>9. \A d \in Calls : d # c => /\ index'[d] = index[d] /\ file'[d] = file[d] /\ rows'[d] = rows[d] /\ acked'[d] = acked[d]
  BY <1>2, <1>6
<1>8. BookTypes' /\ OwnersFit'
  <2>1. BookTypes'
    BY <1>0, <1>5, <1>6, <1>7 DEF BookTypes
  <2>2. /\ \A d \in Calls : stage[d] = "none" => acked'[d] = NoRecord
        /\ \A d \in Calls : kind = "crm" /\ stage[d] = "live" /\ owner[d] < era => acked'[d] = NoRecord
    BY <1>0, <1>3, <1>9 DEF OwnersFit
  <2> QED
    BY <1>0, <1>5, <2>1, <2>2 DEF OwnersFit
<1>10. SavesFit'
  <2>1. /\ c \notin refused' => acked'[c].v = made'[c] \/ ShutOut(c)'
        /\ acked'[c].v <= made'[c] /\ index'[c].v <= made'[c] /\ file'[c].v <= made'[c]
    <3>1. made[c] \in Nat /\ made[c] <= made[c]
      BY <1>2
    <3>2. /\ c \notin refused => acked[c].v = made[c] \/ ShutOut(c)
          /\ acked[c].v <= made[c] /\ index[c].v <= made[c] /\ file[c].v <= made[c]
      BY <1>0 DEF SavesFit
    <3>3. acked'[c] = rec \/ acked'[c] = acked[c]
      BY <1>2, <1>6
    <3>4. index'[c] = rec \/ index'[c] = index[c]
      BY <1>2, <1>6
    <3>5. file'[c] = rec \/ file'[c] = file[c]
      BY <1>2, <1>6
    <3>6. c \notin refused' => acked'[c].v = made'[c] \/ ShutOut(c)'
      <4>1. c \notin refused' => c \notin refused
        BY <1>6
      <4>2. CASE acked'[c] = rec
        BY <1>4, <1>5, <4>2
      <4>3. CASE acked'[c] = acked[c]
        BY <1>5, <3>2, <4>1, <4>3 DEF ShutOut
      <4> QED
        BY <3>3, <4>2, <4>3
    <3> QED
      BY <1>4, <1>5, <1>6, <3>1, <3>2, <3>3, <3>4, <3>5, <3>6
  <2>2. \A d \in Calls : d # c => /\ d \notin refused' => acked'[d].v = made'[d] \/ ShutOut(d)'
                                  /\ acked'[d].v <= made'[d] /\ index'[d].v <= made'[d] /\ file'[d].v <= made'[d]
    BY <1>0, <1>5, <1>6, <1>9 DEF SavesFit, ShutOut
  <2> QED
    BY <2>1, <2>2 DEF SavesFit
<1>11. TearsFit'
  BY <1>0, <1>1, <1>4, <1>5, SavesKeepTears
<1>12. /\ job' \in [Calls -> {"none", "queued", "lost"} \cup Busy \cup Reported]
       /\ job'[c] \in {"kept", "unsaved"} /\ \A d \in Calls : d # c => job'[d] = job[d]
  BY <1>1, <1>2 DEF Reported
<1>13. JobTypes'
  BY <1>0, <1>5, <1>12 DEF JobTypes
<1>14. QueuesFit'
  <2>1. \A f \in 1..MaxEras : \A i \in 1..Len(queue[f]) : queue[f][i] \in Calls
    <3> TAKE f \in 1..MaxEras
    <3>1. queue[f] \in Seq(Calls)
      BY <1>2
    <3> QED
      BY <3>1
  <2>2. \A f \in 1..MaxEras : \A i \in 1..Len(queue[f]) : queue[f][i] # c
    BY <1>0, <1>1 DEF QueuesFit
  <2>3. \A f \in 1..MaxEras : \A i \in 1..Len(queue[f]) : job'[queue[f][i]] = job[queue[f][i]]
    BY <1>12, <2>1, <2>2
  <2> QED
    BY <1>0, <1>5, <2>3 DEF QueuesFit
<1>15. JobsFit'
  <2>1. kind = "jsonl" /\ owner[c] = era => index'[c] = [v |-> made[c], post |-> found[c]]
    BY <1>4, <1>6
  <2>2. \A d \in Calls : d # c => Stored(d)' = Stored(d)
    BY <1>5, <1>9 DEF Stored
  <2>3. \A d \in Calls : d # c => JobFits(d)'
    BY <1>0, <1>5, <1>9, <1>12, <2>2 DEF JobsFit, JobFits
  <2>4. job'[c] \notin {"none", "queued", "probing", "saving"} /\ job'[c] \notin Busy
    BY <1>12 DEF Busy
  <2> QED
    BY <1>3, <1>5, <2>1, <2>3, <2>4 DEF JobsFit, JobFits
<1> QED
  BY <1>8, <1>10, <1>11, <1>13, <1>14, <1>15 DEF BooksInv

\* What the operator changes is not of the call loop: a phone book, and whose call it was.
LEMMA Edited == ASSUME BooksInv, EditBook \/ Correct PROVE BooksInv'
<1>1. BookTypes /\ JobTypes /\ OwnersFit /\ SavesFit /\ TearsFit /\ QueuesFit /\ JobsFit
  BY DEF BooksInv
<1>2. /\ UNCHANGED <<kind, up, era, stage, made, owner, index, file, rows, acked, torn, tears, refused>>
      /\ UNCHANGED <<queue, job, found, latest, uploads>>
  BY DEF EditBook, Correct, EditPhones, LinkCall, callVars, storeVars, setting, jobVars
<1>3. link' \in [Calls -> Contacts \cup {Nobody}]
  <2>1. link \in [Calls -> Contacts \cup {Nobody}]
    BY <1>1 DEF BookTypes
  <2> QED
    BY <2>1 DEF EditBook, Correct, EditPhones, LinkCall, storeVars
<1>4. BookTypes'
  BY <1>1, <1>2, <1>3 DEF BookTypes
<1>5. JobTypes' /\ OwnersFit' /\ SavesFit' /\ TearsFit' /\ QueuesFit'
  BY <1>1, <1>2 DEF JobTypes, OwnersFit, SavesFit, ShutOut, TearsFit, Behind, QueuesFit
<1>6. \A d \in Calls : Stored(d)' = Stored(d)
  BY <1>2 DEF Stored
<1>7. JobsFit'
  BY <1>1, <1>2, <1>6 DEF JobsFit, JobFits
<1> QED
  BY <1>4, <1>5, <1>7 DEF BooksInv

\* Another Autopilot opens the log anew; the calls of the last one have ended, but for those that a
\* pass it left behind has yet to begin.
LEMMA Replaced == ASSUME BooksInv, Replace PROVE BooksInv'
<1>0. BookTypes /\ JobTypes /\ OwnersFit /\ SavesFit /\ TearsFit /\ QueuesFit /\ JobsFit
  BY DEF BooksInv
<1>1. /\ up /\ era < MaxEras /\ era' = era + 1 /\ index' = file
      /\ \A c \in Calls : owner[c] = era => stage[c] # "live"
      /\ \E asked \in SUBSET Calls :
            owner' = [c \in Calls |-> IF stage[c] = "none" /\ c \notin asked THEN era + 1 ELSE owner[c]]
      /\ UNCHANGED <<kind, up, stage, made, file, torn, rows, link, acked, refused, tears>>
      /\ UNCHANGED <<queue, job, found, latest, uploads>>
  BY DEF Replace, jobVars
<1>2. /\ era \in 1..MaxEras /\ MaxEras \in Nat /\ owner \in [Calls -> 1..MaxEras] /\ file \in [Calls -> Records]
      /\ stage \in [Calls -> {"none", "live", "ended", "lost"}]
      /\ \A c \in Calls : owner[c] <= era
  BY <1>0, RecordsAssumption DEF BookTypes, OwnersFit
<1>3. era + 1 \in 1..MaxEras
  BY <1>1, <1>2
<1>4. /\ owner' \in [Calls -> 1..MaxEras]
      /\ \A c \in Calls : owner'[c] = owner[c] \/ owner'[c] = era + 1
      /\ \A c \in Calls : stage[c] # "none" => owner'[c] = owner[c]
  BY <1>1, <1>2, <1>3
<1>5. \A c \in Calls : stage[c] # "none" => owner'[c] # era'
  BY <1>1, <1>2, <1>4
<1>6. BookTypes'
  BY <1>0, <1>1, <1>2, <1>3, <1>4 DEF BookTypes
<1>7. OwnersFit'
  <2>1. \A c \in Calls : owner'[c] <= era'
    BY <1>1, <1>2, <1>4
  <2>2. \A c \in Calls : stage[c] = "live" => owner'[c] = owner[c] /\ owner[c] # era
    BY <1>1, <1>4
  <2>3. \A c \in Calls : kind = "crm" /\ stage[c] = "live" => acked[c] = NoRecord
    <3> TAKE c \in Calls
    <3>1. stage[c] = "live" => owner[c] < era
      BY <1>2, <2>2
    <3> QED
      BY <1>0, <3>1 DEF OwnersFit
  <2> QED
    BY <1>0, <1>1, <2>1, <2>3 DEF OwnersFit
<1>12. SavesFit'
  <2>1. \A c \in Calls : c \notin refused => acked[c].v = made[c] \/ ShutOut(c)'
    <3> TAKE c \in Calls
    <3>1. CASE stage[c] = "none"
      <4>1. acked[c].v = made[c]
        BY <1>0, <3>1 DEF OwnersFit, NoRecord
      <4> QED
        BY <4>1
    <3>2. CASE stage[c] # "none"
      <4>1. owner'[c] = owner[c] /\ owner[c] < era'
        BY <1>1, <1>2, <1>4, <3>2
      <4> QED
        BY <1>0, <1>1, <4>1 DEF SavesFit, ShutOut
    <3> QED
      BY <3>1, <3>2
  <2> QED
    BY <1>0, <1>1, <2>1 DEF SavesFit
<1>8. JobTypes' /\ TearsFit'
  BY <1>0, <1>1 DEF JobTypes, TearsFit, Behind
<1>9. \A c \in Calls : job[c] # "none" => stage[c] = "ended" /\ owner'[c] = owner[c] /\ owner'[c] # era'
  BY <1>0, <1>4, <1>5 DEF JobsFit, JobFits
<1>10. QueuesFit'
  <2>1. \A f \in 1..MaxEras : \A i \in 1..Len(queue[f]) : queue[f][i] \in Calls
    <3> TAKE f \in 1..MaxEras
    <3>1. queue[f] \in Seq(Calls)
      BY <1>0 DEF JobTypes
    <3> QED
      BY <3>1
  <2>2. \A f \in 1..MaxEras : \A i \in 1..Len(queue[f]) : owner'[queue[f][i]] = owner[queue[f][i]]
    BY <1>0, <1>9, <2>1 DEF QueuesFit
  <2> QED
    BY <1>0, <1>1, <2>2 DEF QueuesFit
<1>11. JobsFit'
  BY <1>0, <1>1, <1>9 DEF JobsFit, JobFits, Busy
<1> QED
  BY <1>6, <1>7, <1>8, <1>10, <1>11, <1>12 DEF BooksInv

\* The process dies, perhaps in the middle of a line.
LEMMA Died == ASSUME BooksInv, Die PROVE BooksInv'
<1>0. BookTypes /\ JobTypes /\ OwnersFit /\ SavesFit /\ TearsFit /\ QueuesFit /\ JobsFit
  BY DEF BooksInv
<1>1. /\ era < MaxEras /\ up' = FALSE
      /\ UNCHANGED <<kind, era, stage, made, owner, index, file, rows, acked, link, refused>>
      /\ UNCHANGED <<queue, job, found, latest, uploads>>
  BY DEF Die, callVars, jobVars
<1>2. \/ torn' = torn /\ tears' = tears
      \/ torn' = TRUE /\ ~torn /\ tears' = tears + 1 /\ tears < MaxTears
  BY <1>0 DEF Die, BookTypes
<1>3. torn' \in BOOLEAN
  BY <1>0, <1>2 DEF BookTypes
<1>4. tears' \in 0..MaxTears
  BY <1>0, <1>2, RecordsAssumption DEF BookTypes
<1>5. BookTypes'
  BY <1>0, <1>1, <1>3, <1>4 DEF BookTypes
<1>6. OwnersFit' /\ JobTypes' /\ SavesFit' /\ QueuesFit'
  BY <1>0, <1>1 DEF OwnersFit, JobTypes, SavesFit, ShutOut, QueuesFit
<1>7. \A d \in Calls : Stored(d)' = Stored(d)
  BY <1>1 DEF Stored
<1>8. JobsFit'
  BY <1>0, <1>1, <1>7 DEF JobsFit, JobFits
<1>9. TearsFit'
  <2> SUFFICES ASSUME kind = "jsonl"
               PROVE  /\ IsFiniteSet(Behind')
                      /\ torn' => Cardinality(Behind') + 1 <= tears'
                      /\ ~torn' => Cardinality(Behind') <= tears'
    BY <1>1 DEF TearsFit
  <2>1. Behind' = Behind
    BY <1>1 DEF Behind
  <2>2. /\ IsFiniteSet(Behind)
        /\ torn => Cardinality(Behind) + 1 <= tears
        /\ ~torn => Cardinality(Behind) <= tears
    BY <1>0 DEF TearsFit
  <2>3. Cardinality(Behind) \in Nat /\ tears \in Nat
    BY <1>0, <2>2, FS_CardinalityType, RecordsAssumption DEF BookTypes
  <2> QED
    BY <1>2, <2>1, <2>2, <2>3
<1> QED
  BY <1>5, <1>6, <1>8, <1>9 DEF BooksInv

\* The next process reads the log; calls and analyses under way are gone.
LEMMA Booted == ASSUME BooksInv, Boot PROVE BooksInv'
<1>0. BookTypes /\ JobTypes /\ OwnersFit /\ SavesFit /\ TearsFit /\ QueuesFit /\ JobsFit
  BY DEF BooksInv
<1>1. /\ ~up /\ up' = TRUE /\ era' = era + 1 /\ index' = file
      /\ stage' = [c \in Calls |-> IF stage[c] = "live" THEN "lost" ELSE stage[c]]
      /\ owner' = [c \in Calls |-> IF stage[c] = "none" THEN era + 1 ELSE owner[c]]
      /\ queue' = [e \in 1..MaxEras |-> <<>>]
      /\ job' = [c \in Calls |-> IF job[c] \in Busy \cup {"queued"} THEN "lost" ELSE job[c]]
      /\ UNCHANGED <<kind, made, file, torn, rows, link, acked, refused, tears, found, latest, uploads>>
  BY DEF Boot
<1>2. /\ era \in 1..MaxEras /\ MaxEras \in Nat /\ owner \in [Calls -> 1..MaxEras] /\ file \in [Calls -> Records]
      /\ stage \in [Calls -> {"none", "live", "ended", "lost"}]
      /\ job \in [Calls -> {"none", "queued", "lost"} \cup Busy \cup Reported]
      /\ \A c \in Calls : owner[c] <= era
  BY <1>0, RecordsAssumption DEF BookTypes, OwnersFit, JobTypes
<1>3. era < MaxEras
  BY <1>0, <1>1 DEF OwnersFit
<1>4. era + 1 \in 1..MaxEras
  BY <1>2, <1>3
<1>5. /\ owner' \in [Calls -> 1..MaxEras]
      /\ \A c \in Calls : stage[c] = "none" => owner'[c] = era + 1
      /\ \A c \in Calls : stage[c] # "none" => owner'[c] = owner[c]
  BY <1>1, <1>2, <1>4
<1>6. \A c \in Calls : stage[c] # "none" => owner'[c] # era'
  BY <1>1, <1>2, <1>5
<1>7. /\ stage' \in [Calls -> {"none", "live", "ended", "lost"}]
      /\ \A c \in Calls : stage'[c] # "live" /\ (stage'[c] = "none" => stage[c] = "none")
      /\ \A c \in Calls : stage[c] = "ended" => stage'[c] = "ended"
  BY <1>1, <1>2
<1>8. /\ job' \in [Calls -> {"none", "queued", "lost"} \cup Busy \cup Reported]
      /\ \A c \in Calls : job'[c] # "queued" /\ job'[c] \notin Busy
      /\ \A c \in Calls : job'[c] \in {"none", "kept"} => job[c] = job'[c]
      /\ \A c \in Calls : job'[c] # "none" => job[c] # "none"
  BY <1>1, <1>2 DEF Busy
<1>9. BookTypes'
  BY <1>0, <1>1, <1>2, <1>4, <1>5, <1>7 DEF BookTypes
<1>10. OwnersFit'
  <2>1. \A c \in Calls : owner'[c] <= era'
    BY <1>1, <1>2, <1>5
  <2> QED
    BY <1>0, <1>1, <1>7, <2>1 DEF OwnersFit
<1>11. queue' \in [1..MaxEras -> Seq(Calls)] /\ \A e \in 1..MaxEras : Len(queue'[e]) = 0
  <2>1. <<>> \in Seq(Calls) /\ Len(<<>>) = 0
    OBVIOUS
  <2> QED
    BY <1>1, <2>1
<1>12. JobTypes' /\ TearsFit'
  BY <1>0, <1>1, <1>8, <1>11 DEF JobTypes, TearsFit, Behind
<1>15. SavesFit'
  <2>1. \A c \in Calls : c \notin refused => acked[c].v = made[c] \/ ShutOut(c)'
    <3> TAKE c \in Calls
    <3>1. CASE stage[c] = "none"
      BY <1>0, <3>1 DEF OwnersFit, NoRecord
    <3>2. CASE stage[c] # "none"
      <4>1. owner'[c] = owner[c] /\ owner[c] < era'
        BY <1>1, <1>2, <1>5, <3>2
      <4> QED
        BY <1>0, <1>1, <4>1 DEF SavesFit, ShutOut
    <3> QED
      BY <3>1, <3>2
  <2> QED
    BY <1>0, <1>1, <2>1 DEF SavesFit
<1>13. QueuesFit'
  BY <1>11 DEF QueuesFit
<1>14. JobsFit'
  <2>1. \A c \in Calls : job'[c] # "none" => stage'[c] = "ended" /\ owner'[c] # era'
    BY <1>0, <1>5, <1>6, <1>7, <1>8 DEF JobsFit, JobFits
  <2>2. \A c \in Calls : job'[c] \in {"none", "queued", "probing"} => uploads'[c] = 0
    BY <1>0, <1>1, <1>8 DEF JobsFit, JobFits, Busy
  <2> QED
    BY <1>8, <2>1, <2>2 DEF JobsFit, JobFits, Busy
<1> QED
  BY <1>9, <1>10, <1>12, <1>13, <1>14, <1>15 DEF BooksInv

LEMMA BooksStart == PostCallInit => BooksInv
<1> SUFFICES ASSUME PostCallInit PROVE BooksInv
  OBVIOUS
<1>1. /\ kind \in Kinds /\ up = TRUE /\ era = 1
      /\ stage = [c \in Calls |-> "none"] /\ made = [c \in Calls |-> 0] /\ owner = [c \in Calls |-> 1]
      /\ index = [c \in Calls |-> NoRecord] /\ file = [c \in Calls |-> NoRecord] /\ torn = FALSE
      /\ rows = [c \in Calls |-> NoRecord] /\ link = [c \in Calls |-> Nobody] /\ acked = [c \in Calls |-> NoRecord]
      /\ refused = {} /\ tears = 0
      /\ queue = [e \in 1..MaxEras |-> <<>>] /\ job = [c \in Calls |-> "none"]
      /\ found = [c \in Calls |-> "none"] /\ latest = [c \in Calls |-> NoRecord]
      /\ uploads = [c \in Calls |-> 0]
  BY DEF PostCallInit, RecordsInit
<1>2. NoRecord \in Records /\ NoRecord.v = 0
  BY Kept2 DEF NoRecord
<1>3. MaxSaves \in Nat \ {0} /\ MaxTears \in Nat /\ MaxEras \in Nat \ {0}
  BY RecordsAssumption
<1>4. 1 \in 1..MaxEras /\ 0 \in 0..MaxSaves /\ 0 \in 0..MaxTears /\ 0 < MaxSaves
  BY <1>3
<1>5. BookTypes
  BY <1>1, <1>2, <1>4 DEF BookTypes
<1>6. <<>> \in Seq(Calls) /\ \A e \in 1..MaxEras : queue[e] = <<>>
  BY <1>1
<1>7. JobTypes
  <2>1. queue \in [1..MaxEras -> Seq(Calls)]
    BY <1>1, <1>6
  <2> QED
    BY <1>1, <1>2, <2>1 DEF JobTypes, Analyses
<1>8. OwnersFit
  BY <1>1, <1>4 DEF OwnersFit
<1>9. SavesFit
  BY <1>1, <1>2 DEF SavesFit
<1>10. TearsFit
  <2>1. Behind = {}
    BY <1>1 DEF Behind
  <2>2. IsFiniteSet(Behind) /\ Cardinality(Behind) = 0
    BY <2>1, FS_EmptySet
  <2> QED
    BY <1>1, <2>2 DEF TearsFit
<1>11. QueuesFit
  <2>1. \A e \in 1..MaxEras : Len(queue[e]) = 0
    BY <1>6
  <2> QED
    BY <2>1 DEF QueuesFit
<1>12. JobsFit
  BY <1>1 DEF JobsFit, JobFits, Busy
<1> QED
  BY <1>5, <1>7, <1>8, <1>9, <1>10, <1>11, <1>12 DEF BooksInv

LEMMA BooksKeep == BooksInv /\ [PostCallNext]_postCallVars => BooksInv'
<1> SUFFICES ASSUME BooksInv, [PostCallNext]_postCallVars PROVE BooksInv'
  OBVIOUS
<1>1. CASE UNCHANGED postCallVars
  <2>1. BookTypes /\ JobTypes /\ OwnersFit /\ SavesFit /\ TearsFit /\ QueuesFit /\ JobsFit
    BY DEF BooksInv
  <2>2. /\ UNCHANGED <<kind, up, era, stage, made, owner, index, file, rows, link, acked, torn, tears, refused>>
        /\ UNCHANGED <<queue, job, found, latest, uploads>>
    BY <1>1 DEF postCallVars, recordVars, callVars, storeVars, setting, jobVars
  <2>3. BookTypes' /\ JobTypes' /\ OwnersFit' /\ SavesFit' /\ TearsFit' /\ QueuesFit'
    BY <2>1, <2>2 DEF BookTypes, JobTypes, OwnersFit, SavesFit, ShutOut, TearsFit, Behind, QueuesFit
  <2>4. \A d \in Calls : Stored(d)' = Stored(d)
    BY <2>2 DEF Stored
  <2>5. JobsFit'
    BY <2>1, <2>2, <2>4 DEF JobsFit, JobFits
  <2> QED
    BY <2>3, <2>5 DEF BooksInv
<1>2. ASSUME NEW c \in Calls, NEW ok \in BOOLEAN, RecordCall(c, ok) PROVE BooksInv'
  BY <1>2, CallRecorded
<1>3. ASSUME NEW e \in 1..MaxEras, Pump(e) PROVE BooksInv'
  BY <1>3, Pumped
<1>4. ASSUME NEW c \in Calls, Work(c) PROVE BooksInv'
  BY <1>4, AnalysisMoves, Attached DEF Work
<1>5. CASE EditBook \/ Correct
  BY <1>5, Edited
<1>6. CASE Replace
  BY <1>6, Replaced
<1>7. CASE Die
  BY <1>7, Died
<1>8. CASE Boot
  BY <1>8, Booted
<1> QED
  BY <1>1, <1>2, <1>3, <1>4, <1>5, <1>6, <1>7, <1>8 DEF PostCallNext

LEMMA BooksSafe == BooksInv => RecordsAreKept
<1> SUFFICES ASSUME BooksInv PROVE RecordsAreKept
  OBVIOUS
<1>1. BookTypes /\ JobTypes /\ OwnersFit /\ SavesFit /\ TearsFit /\ QueuesFit /\ JobsFit
  BY DEF BooksInv
<1>2. PostCallTypeOK
  <2>1. \A c \in Calls : job[c] # "none" => stage[c] = "ended"
    BY <1>1 DEF JobsFit, JobFits
  <2> QED
    BY <1>1, <2>1 DEF PostCallTypeOK, BookTypes, JobTypes
<1>3. RecordIsWhole
  BY <1>1 DEF SavesFit, ShutOut, RecordIsWhole, RecordLands
<1>4. TearsCostOneSave
  <2> SUFFICES ASSUME kind = "jsonl" PROVE Cardinality(Behind) <= tears
    BY DEF TearsCostOneSave, Behind
  <2>1. /\ IsFiniteSet(Behind)
        /\ torn => Cardinality(Behind) + 1 <= tears
        /\ ~torn => Cardinality(Behind) <= tears
    BY <1>1 DEF TearsFit
  <2>2. Cardinality(Behind) \in Nat /\ tears \in Nat
    BY <1>1, <2>1, FS_CardinalityType, RecordsAssumption DEF BookTypes
  <2> QED
    BY <2>1, <2>2
<1>5. PaidOnce
  <2>1. uploads \in [Calls -> 0..1]
    BY <1>1 DEF JobTypes
  <2> QED
    BY <2>1 DEF PaidOnce
<1>6. LoggedAnalysisAttached
  BY <1>1 DEF JobsFit, JobFits, LoggedAnalysisAttached
<1> QED
  BY <1>2, <1>3, <1>4, <1>5, <1>6 DEF RecordsAreKept

\* While the log is whole, the next Autopilot finds in it what the last one knew.
LEMMA NothingIsForgotten ==
    ASSUME BooksInv, [PostCallNext]_postCallVars, kind = "jsonl", tears' = 0, up', era' # era,
           NEW c \in Calls, c \notin refused
    PROVE  index'[c].v >= index[c].v
<1>1. BookTypes /\ SavesFit /\ TearsFit
  BY DEF BooksInv
<1>2. CASE Replace \/ Boot
  <2>1. index' = file /\ tears' = tears
    BY <1>2 DEF Replace, Boot
  <2>2. /\ IsFiniteSet(Behind)
        /\ torn => Cardinality(Behind) + 1 <= tears
        /\ ~torn => Cardinality(Behind) <= tears
    BY <1>1 DEF TearsFit
  <2>3. Cardinality(Behind) \in Nat /\ tears = 0
    BY <2>1, <2>2, FS_CardinalityType
  <2>4. Cardinality(Behind) = 0
    BY <2>2, <2>3
  <2>5. Behind = {}
    BY <2>2, <2>4, FS_EmptySet
  <2>6. file[c] = acked[c]
    BY <2>5 DEF Behind
  <2>7. index'[c].v = made[c] /\ index[c].v <= made[c]
    <3>1. kind # "crm"
      OBVIOUS
    <3> QED
      BY <1>1, <2>1, <2>6, <3>1 DEF SavesFit, ShutOut
  <2>8. index[c].v \in Nat /\ made[c] \in Nat
    BY <1>1, RecordsAssumption DEF BookTypes, Records
  <2> QED
    BY <2>7, <2>8
<1>3. CASE ~(Replace \/ Boot)
  <2>1. ASSUME NEW d \in Calls, NEW ok \in BOOLEAN, RecordCall(d, ok) PROVE era' = era
    BY <2>1 DEF RecordCall, SaveProgress, SaveFinal, setting
  <2>2. ASSUME NEW e \in 1..MaxEras, Pump(e) PROVE era' = era
    BY <2>2 DEF Pump, recordVars, setting
  <2>3. ASSUME NEW d \in Calls, Work(d) PROVE era' = era
    BY <2>3 DEF Work, Probe, Transcribed, Summarised, ReadBack, Attach, Step, recordVars, setting
  <2>4. EditBook \/ Correct \/ Die => era' = era
    BY DEF EditBook, Correct, EditPhones, LinkCall, Die, setting
  <2>5. UNCHANGED postCallVars => era' = era
    BY DEF postCallVars, recordVars, setting
  <2>6. FALSE
    BY <1>3, <2>1, <2>2, <2>3, <2>4, <2>5 DEF PostCallNext
  <2> QED
    BY <2>6
<1> QED
  BY <1>2, <1>3

\* A save leaves a link where it is.
LEMMA LinksStay ==
    ASSUME BooksInv, [PostCallNext]_postCallVars, acked' # acked, NEW c \in Calls, link[c] # Nobody
    PROVE  link'[c] = link[c]
<1>1. BookTypes /\ JobTypes /\ OwnersFit /\ JobsFit
  BY DEF BooksInv
<1>2. ASSUME NEW d \in Calls, NEW ok \in BOOLEAN, RecordCall(d, ok) PROVE link'[c] = link[c]
  <2> DEFINE rec == [v |-> made[d] + 1, post |-> "none"]
  <2>1. Saved(d, rec, ok) /\ stage[d] \in {"none", "live"}
    BY <1>2 DEF RecordCall, SaveProgress, SaveFinal
  <2>2. made[d] + 1 \in 0..MaxSaves
    <3>1. made[d] < MaxSaves /\ made[d] \in 0..MaxSaves
      BY <1>1, <2>1 DEF OwnersFit, BookTypes
    <3> QED
      BY <3>1, RecordsAssumption
  <2>3. rec \in Records
    BY <2>2, Kept2
  <2> HIDE DEF rec
  <2> QED
    BY <1>1, <2>1, <2>3, SaveEffects
<1>3. ASSUME NEW d \in Calls, Work(d) PROVE link'[c] = link[c]
  <2>1. CASE Probe(d) \/ Transcribed(d) \/ Summarised(d) \/ ReadBack(d)
    BY <2>1 DEF Probe, Transcribed, Summarised, ReadBack, Step, recordVars, storeVars
  <2>2. ASSUME NEW ok \in BOOLEAN, Attach(d, ok) PROVE link'[c] = link[c]
    <3> DEFINE rec == [latest[d] EXCEPT !.post = found[d]]
    <3>1. Saved(d, rec, ok)
      BY <2>2 DEF Attach
    <3>2. rec \in Records
      BY <1>1 DEF JobTypes, Records
    <3> HIDE DEF rec
    <3> QED
      BY <1>1, <3>1, <3>2, SaveEffects
  <2> QED
    BY <1>3, <2>1, <2>2 DEF Work
<1>4. ASSUME NEW e \in 1..MaxEras, Pump(e) PROVE acked' = acked
  BY <1>4 DEF Pump, recordVars, storeVars
<1>5. EditBook \/ Correct \/ Replace \/ Die \/ Boot => acked' = acked
  BY DEF EditBook, Correct, EditPhones, LinkCall, storeVars, Replace, Die, Boot
<1>6. UNCHANGED postCallVars => acked' = acked
  BY DEF postCallVars, recordVars, storeVars
<1> QED
  BY <1>2, <1>3, <1>4, <1>5, <1>6 DEF PostCallNext

\* For any calls, contacts, torn lines and Autopilots, whatever a disk refuses and whenever the process
\* dies, and whatever a pass that outlived its Autopilot still answers: a call's last record lands, or
\* its table was closed before the first and none does; a torn line costs one save, its upload is paid once, and an
\* analysis reported as kept is in the log with the record it belongs to (callStore.ts, postCall.ts).
THEOREM BooksAreKept == PostCallSpec => []RecordsAreKept
<1> QED
  BY BooksStart, BooksKeep, BooksSafe, PTL DEF PostCallSpec

\* A reload or a restart takes nothing back while the file is whole, and no save moves a call to
\* another contact (callStore.ts, the constructor's replay; store.ts autoLinkCall()).
THEOREM HistoryIsNotTakenBack == PostCallSpec => HistoryOnlyGrows
<1>1. BooksInv /\ [PostCallNext]_postCallVars =>
          [kind = "jsonl" /\ tears' = 0 /\ up' /\ era' # era
              => \A c \in Calls : c \notin refused => index'[c].v >= index[c].v]_postCallVars
  BY NothingIsForgotten
<1>2. BooksInv /\ [PostCallNext]_postCallVars =>
          [acked' # acked => \A c \in Calls : link[c] # Nobody => link'[c] = link[c]]_postCallVars
  BY LinksStay
<1> QED
  BY <1>1, <1>2, BooksStart, BooksKeep, PTL DEF PostCallSpec, HistoryOnlyGrows, HistorySurvives, SaveKeepsLink

-----------------------------------------------------------------------------
(* The composition *)

\* What is kept of a call goes its own way beside the call loop.
LEMMA RecordsGoTheirWay == MCSpec => PostCallSpec
<1>1. MCInit => PostCallInit
  BY DEF MCInit
<1>2. [MCNext]_allVars => [PostCallNext]_postCallVars
  BY DEF MCNext, allVars
<1> QED
  BY <1>1, <1>2, PTL DEF MCSpec, PostCallSpec

\* The same where the call loop runs beside it.
THEOREM RecordsStayKept == MCSpec => []RecordsAreKept
  BY BooksAreKept, RecordsGoTheirWay, PTL

\* And the history of it.
THEOREM HistoryStays == MCSpec => HistoryOnlyGrows
  BY HistoryIsNotTakenBack, RecordsGoTheirWay, PTL

=============================================================================
