-------------------------- MODULE SharedFilesProofs --------------------------
(***************************************************************************)
(* Theorems about the two components whose processes share files: Lean's   *)
(* workspace (LeanWorkspace), for any processes, bodies and number of      *)
(* calls, and the demo's scratch file (DemoCycle), for any runs and any    *)
(* number of holes.                                                        *)
(*                                                                         *)
(* IInv adds to the properties of the workspace what makes them inductive: *)
(* who shares a body knows it, what a process alone with its body finds in *)
(* the file, and whose every file is. DemoInv does it for the scratch      *)
(* file: who runs alone, and where the committed text is meanwhile.        *)
(***************************************************************************)
EXTENDS LeanWorkspace, DemoCycle, TLAPS

(* Two processes in calls with one body are both marked as crowded. *)
CrowdInv ==
  \A p, q \in Procs :
    p # q /\ InCall(p) /\ InCall(q) /\ proc[p].body = proc[q].body => proc[p].crowded

(* A process that is alone has its file to itself, from the write to the   *)
(* verdict.                                                                *)
Own(p) ==
  /\ proc[p].pc \in {"open", "write"} => ~proc[p].orphan
  /\ proc[p].pc = "lake" => disk[proc[p].body] = proc[p].body
  /\ proc[p].pc = "unlink" /\ ~proc[p].timeout => (proc[p].ok <=> proc[p].body \in Proofs)

OwnInv == \A p \in Procs : ~proc[p].crowded => Own(p)

(* Every file belongs to a call that has yet to unlink it. *)
Holds(p, b) == proc[p].pc \in {"write", "lake", "unlink"} /\ proc[p].body = b

CleanInv ==
  ~left => \A b \in Bodies : disk[b] # Absent => \E p \in Procs : Holds(p, b)

(* The call a process is in has not been counted as returned yet. *)
CountInv ==
  \A p \in Procs :
    /\ rows[p] + mismatched[p] = returned[p]
    /\ returned[p] + (IF InCall(p) THEN 1 ELSE 0) <= calls[p]

IInv == TypeOK /\ CrowdInv /\ OwnInv /\ CleanInv /\ CountInv

-----------------------------------------------------------------------------
(* In the beginning nobody is in a call and there are no files. *)
LEMMA InitInv == Init => IInv
<1> SUFFICES ASSUME Init PROVE IInv
  OBVIOUS
<1>1. PICK b \in Bodies : proc = [p \in Procs |-> NewCall("idle", b, FALSE)]
  BY DEF Init
<1>2. \A p \in Procs : /\ proc[p] \in Call /\ proc[p].pc = "idle" /\ ~InCall(p)
  BY <1>1 DEF NewCall, Call, InCall
<1>3. TypeOK
  <2>1. proc \in [Procs -> Call]
    BY <1>1 DEF NewCall, Call
  <2>2. 0 \in 0..MaxCalls
    BY WorkspaceAssumption
  <2> QED
    BY <2>1, <2>2 DEF Init, TypeOK
<1>4. CrowdInv /\ OwnInv
  BY <1>2 DEF CrowdInv, OwnInv, Own
<1>5. CleanInv
  BY DEF Init, CleanInv
<1>6. CountInv
  <2> SUFFICES ASSUME NEW p \in Procs
               PROVE  /\ rows[p] + mismatched[p] = returned[p]
                      /\ returned[p] + (IF InCall(p) THEN 1 ELSE 0) <= calls[p]
    BY DEF CountInv
  <2>1. rows[p] = 0 /\ mismatched[p] = 0 /\ returned[p] = 0 /\ calls[p] = 0
    BY DEF Init
  <2> QED
    BY <2>1, <1>2
<1> QED
  BY <1>3, <1>4, <1>5, <1>6 DEF IInv

(* The types of one call's fields. *)
LEMMA CallFields ==
  ASSUME TypeOK, NEW p \in Procs
  PROVE  /\ proc[p].pc \in {"idle", "open", "write", "lake", "unlink", "dead"}
         /\ proc[p].body \in Bodies
         /\ proc[p].ok \in BOOLEAN /\ proc[p].timeout \in BOOLEAN
         /\ proc[p].orphan \in BOOLEAN /\ proc[p].crowded \in BOOLEAN
         /\ calls[p] \in 0..MaxCalls /\ rows[p] \in 0..MaxCalls
         /\ returned[p] \in 0..MaxCalls /\ mismatched[p] \in 0..MaxCalls
         /\ MaxCalls \in Nat
BY WorkspaceAssumption DEF TypeOK, Call

-----------------------------------------------------------------------------
(* Beginning a call marks the peers and the call itself. *)
LEMMA BeginInv ==
  ASSUME IInv, NEW p \in Procs, NEW body \in Bodies, Begin(p, body)
  PROVE  IInv'
<1> USE DEF IInv
<1>1. \A q \in Procs : proc[q] \in Call
  BY DEF TypeOK
<1>2. /\ proc'[p] = NewCall("open", body, Peers(p, body) # {})
      /\ \A q \in Procs \ {p} :
           proc'[q] = IF q \in Peers(p, body) THEN [proc[q] EXCEPT !.crowded = TRUE] ELSE proc[q]
  BY DEF Begin
<1>3. \A q \in Procs \ {p} :
        /\ proc'[q].pc = proc[q].pc /\ proc'[q].body = proc[q].body
        /\ proc'[q].ok = proc[q].ok /\ proc'[q].timeout = proc[q].timeout
        /\ proc'[q].orphan = proc[q].orphan
        /\ proc'[q].crowded = (proc[q].crowded \/ q \in Peers(p, body))
  BY <1>1, <1>2, Zenon DEF Call
<1>4. TypeOK'
  <2>1. proc' \in [Procs -> Call]
    BY <1>1, <1>2, ZenonT(60) DEF Begin, Call, NewCall
  <2>2. calls' \in [Procs -> 0..MaxCalls]
    BY CallFields DEF Begin, TypeOK
  <2> QED
    BY <2>1, <2>2 DEF Begin, TypeOK
<1>5. CrowdInv'
  <2> SUFFICES ASSUME NEW q \in Procs, NEW r \in Procs, q # r, InCall(q)', InCall(r)',
                      proc'[q].body = proc'[r].body
               PROVE  proc'[q].crowded
    BY DEF CrowdInv
  <2>1. CASE q = p
    <3>1. InCall(r) /\ proc[r].body = body /\ r \in Procs \ {p}
      BY <2>1, <1>2, <1>3 DEF InCall, NewCall
    <3>2. r \in Peers(p, body)
      BY <3>1 DEF Peers
    <3>3. (Peers(p, body) # {}) = TRUE
      BY <3>2
    <3>4. proc'[p] = NewCall("open", body, TRUE)
      BY <3>3, <1>2, Zenon
    <3> QED
      BY <3>4, <2>1 DEF NewCall
  <2>2. CASE r = p
    <3>1. InCall(q) /\ proc[q].body = body /\ q \in Procs \ {p}
      BY <2>2, <1>2, <1>3 DEF InCall, NewCall
    <3>2. q \in Peers(p, body)
      BY <3>1 DEF Peers
    <3> QED
      BY <3>1, <3>2, <1>3
  <2>3. CASE q # p /\ r # p
    <3>1. InCall(q) /\ InCall(r) /\ proc[q].body = proc[r].body
      BY <2>3, <1>3 DEF InCall
    <3>2. proc[q].crowded
      BY <3>1 DEF CrowdInv
    <3> QED
      BY <3>2, <2>3, <1>3
  <2> QED
    BY <2>1, <2>2, <2>3
<1>6. OwnInv'
  BY <1>2, <1>3 DEF OwnInv, Own, NewCall, Begin
<1>7. CleanInv'
  BY <1>2, <1>3 DEF CleanInv, Holds, Begin
<1>8. CountInv'
  BY <1>2, <1>3, CallFields DEF CountInv, InCall, NewCall, Begin, TypeOK
<1> QED
  BY <1>4, <1>5, <1>6, <1>7, <1>8

(* Steps that begin no call keep the bodies and the marks. *)
LEMMA KeepCrowd ==
  ASSUME CrowdInv,
         \A q \in Procs : /\ proc'[q].body = proc[q].body
                          /\ proc'[q].crowded = proc[q].crowded
                          /\ InCall(q)' => InCall(q)
  PROVE  CrowdInv'
BY DEF CrowdInv

(* So do the files, when their holders keep them. *)
LEMMA KeepClean ==
  ASSUME CleanInv, disk' = disk, ~left' => ~left,
         \A q \in Procs, b \in Bodies : ~left' /\ Holds(q, b) => Holds(q, b)'
  PROVE  CleanInv'
<1> SUFFICES ASSUME ~left', NEW b \in Bodies, disk[b] # Absent
             PROVE  \E q \in Procs : Holds(q, b)'
  BY DEF CleanInv
<1>1. PICK q \in Procs : Holds(q, b)
  BY DEF CleanInv
<1> QED
  BY <1>1

(* A call that is turned down touches nothing but the counters. *)
LEMMA MismatchInv ==
  ASSUME IInv, NEW p \in Procs, Mismatch(p)
  PROVE  IInv'
<1> USE DEF IInv
<1>1. /\ disk' = disk /\ proc' = proc /\ rows' = rows /\ left' = left
      /\ calls' = [calls EXCEPT ![p] = @ + 1]
      /\ returned' = [returned EXCEPT ![p] = @ + 1]
      /\ mismatched' = [mismatched EXCEPT ![p] = @ + 1]
      /\ calls[p] < MaxCalls /\ proc[p].pc = "idle"
  BY DEF Mismatch
<1>2. CountInv'
  <2> SUFFICES ASSUME NEW q \in Procs
               PROVE  /\ rows'[q] + mismatched'[q] = returned'[q]
                      /\ returned'[q] + (IF InCall(q) THEN 1 ELSE 0) <= calls'[q]
    BY <1>1 DEF CountInv, InCall
  <2>1. /\ rows[q] + mismatched[q] = returned[q]
        /\ returned[q] + (IF InCall(q) THEN 1 ELSE 0) <= calls[q]
    BY DEF CountInv
  <2>2. CASE q = p
    BY <1>1, <2>1, <2>2, CallFields DEF InCall, TypeOK
  <2>3. CASE q # p
    BY <1>1, <2>1, <2>3 DEF TypeOK
  <2> QED
    BY <2>2, <2>3
<1>3. TypeOK'
  <2>1. returned[p] <= calls[p] /\ mismatched[p] <= returned[p]
    BY <1>1, CallFields DEF CountInv, InCall
  <2>2. calls[p] + 1 \in 0..MaxCalls /\ returned[p] + 1 \in 0..MaxCalls
        /\ mismatched[p] + 1 \in 0..MaxCalls
    BY <2>1, <1>1, CallFields
  <2> QED
    BY <2>2, <1>1 DEF TypeOK
<1>4. CrowdInv' /\ OwnInv' /\ CleanInv'
  BY <1>1 DEF CrowdInv, InCall, OwnInv, Own, CleanInv, Holds
<1> QED
  BY <1>2, <1>3, <1>4

(* Steps that neither begin nor end a call by returning leave the counters *)
(* as they are.                                                            *)
LEMMA KeepCount ==
  ASSUME CountInv, UNCHANGED counters, \A q \in Procs : InCall(q)' => InCall(q), TypeOK
  PROVE  CountInv'
<1> SUFFICES ASSUME NEW q \in Procs
             PROVE  /\ rows[q] + mismatched[q] = returned[q]
                    /\ returned[q] + (IF InCall(q)' THEN 1 ELSE 0) <= calls[q]
  BY DEF CountInv, counters
<1>1. /\ rows[q] + mismatched[q] = returned[q]
      /\ returned[q] + (IF InCall(q) THEN 1 ELSE 0) <= calls[q]
  BY DEF CountInv
<1>2. CASE InCall(q)'
  BY <1>1, <1>2
<1>3. CASE ~InCall(q)'
  BY <1>1, <1>3, CallFields
<1> QED
  BY <1>2, <1>3

-----------------------------------------------------------------------------
(* The file is emptied: those who had it for themselves are marked. *)
LEMMA OpenInv ==
  ASSUME IInv, NEW p \in Procs, Open(p)
  PROVE  IInv'
<1> USE DEF IInv
<1>1. /\ proc[p].pc = "open" /\ proc' = [proc EXCEPT ![p].pc = "write"]
      /\ disk' = [disk EXCEPT ![proc[p].body] = Empty]
      /\ UNCHANGED counters /\ left' = left
  BY DEF Open
<1>2. \A q \in Procs : /\ proc'[q].body = proc[q].body
                       /\ proc'[q].crowded = proc[q].crowded
                       /\ proc'[q].pc = IF q = p THEN "write" ELSE proc[q].pc
                       /\ proc'[q].orphan = proc[q].orphan
                       /\ proc'[q].ok = proc[q].ok /\ proc'[q].timeout = proc[q].timeout
  BY <1>1 DEF TypeOK, Call
<1>3. TypeOK'
  BY <1>1, CallFields DEF TypeOK, Call, counters
<1>4. CrowdInv' /\ CountInv'
  BY <1>1, <1>2, KeepCrowd, KeepCount DEF InCall
<1>5. OwnInv'
  <2> SUFFICES ASSUME NEW q \in Procs, ~proc[q].crowded PROVE Own(q)'
    BY <1>2 DEF OwnInv
  <2>1. Own(q)
    BY DEF OwnInv
  <2>2. q # p /\ proc[q].pc = "lake" => proc[q].body # proc[p].body
    BY <1>1 DEF CrowdInv, InCall
  <2>3. proc[q].body \in Bodies /\ proc[p].body \in Bodies
    BY CallFields
  <2> QED
    BY <1>1, <1>2, <2>1, <2>2, <2>3 DEF Own, TypeOK
<1>6. CleanInv'
  <2> SUFFICES ASSUME ~left, NEW b \in Bodies, disk'[b] # Absent
               PROVE  \E q \in Procs : Holds(q, b)'
    BY <1>1 DEF CleanInv
  <2>1. CASE b = proc[p].body
    BY <2>1, <1>2 DEF Holds
  <2>2. CASE b # proc[p].body
    <3>1. PICK q \in Procs : Holds(q, b)
      BY <2>2, <1>1 DEF CleanInv, TypeOK
    <3> QED
      BY <3>1, <1>1, <1>2 DEF Holds
  <2> QED
    BY <2>1, <2>2
<1> QED
  BY <1>3, <1>4, <1>5, <1>6

(* The body is written, unless the file is gone. *)
LEMMA WriteInv ==
  ASSUME IInv, NEW p \in Procs, Write(p)
  PROVE  IInv'
<1> USE DEF IInv
<1>1. /\ proc[p].pc = "write" /\ proc' = [proc EXCEPT ![p].pc = "lake"]
      /\ disk' = [disk EXCEPT ![proc[p].body] = IF proc[p].orphan THEN @ ELSE proc[p].body]
      /\ UNCHANGED counters /\ left' = left
  BY DEF Write
<1>2. \A q \in Procs : /\ proc'[q].body = proc[q].body
                       /\ proc'[q].crowded = proc[q].crowded
                       /\ proc'[q].pc = IF q = p THEN "lake" ELSE proc[q].pc
                       /\ proc'[q].orphan = proc[q].orphan
                       /\ proc'[q].ok = proc[q].ok /\ proc'[q].timeout = proc[q].timeout
  BY <1>1 DEF TypeOK, Call
<1>3. TypeOK'
  BY <1>1, CallFields DEF TypeOK, Call, counters
<1>4. CrowdInv' /\ CountInv'
  BY <1>1, <1>2, KeepCrowd, KeepCount DEF InCall
<1>5. OwnInv'
  <2> SUFFICES ASSUME NEW q \in Procs, ~proc[q].crowded PROVE Own(q)'
    BY <1>2 DEF OwnInv
  <2>1. Own(q)
    BY DEF OwnInv
  <2>2. q # p /\ proc[q].pc = "lake" => proc[q].body # proc[p].body
    BY <1>1 DEF CrowdInv, InCall
  <2>3. proc[q].body \in Bodies /\ proc[p].body \in Bodies
    BY CallFields
  <2> QED
    BY <1>1, <1>2, <2>1, <2>2, <2>3 DEF Own, TypeOK
<1>6. CleanInv'
  <2> SUFFICES ASSUME ~left, NEW b \in Bodies, disk'[b] # Absent
               PROVE  \E q \in Procs : Holds(q, b)'
    BY <1>1 DEF CleanInv
  <2>1. CASE b = proc[p].body
    BY <2>1, <1>2 DEF Holds
  <2>2. CASE b # proc[p].body
    <3>1. PICK q \in Procs : Holds(q, b)
      BY <2>2, <1>1 DEF CleanInv, TypeOK
    <3> QED
      BY <3>1, <1>1, <1>2 DEF Holds
  <2> QED
    BY <2>1, <2>2
<1> QED
  BY <1>3, <1>4, <1>5, <1>6

(* A failed write gives up a file that the clean workspace no longer       *)
(* promises to be without.                                                 *)
LEMMA WriteRaisesInv ==
  ASSUME IInv, NEW p \in Procs, WriteRaises(p)
  PROVE  IInv'
<1> USE DEF IInv
<1>1. /\ proc[p].pc \in {"open", "write"} /\ proc' = [proc EXCEPT ![p].pc = "idle"]
      /\ left' = (left \/ proc[p].pc = "write")
      /\ UNCHANGED counters /\ disk' = disk
  BY DEF WriteRaises
<1>2. \A q \in Procs : /\ proc'[q].body = proc[q].body
                       /\ proc'[q].crowded = proc[q].crowded
                       /\ proc'[q].pc = IF q = p THEN "idle" ELSE proc[q].pc
                       /\ proc'[q].orphan = proc[q].orphan
                       /\ proc'[q].ok = proc[q].ok /\ proc'[q].timeout = proc[q].timeout
  BY <1>1 DEF TypeOK, Call
<1>3. TypeOK'
  BY <1>1, CallFields DEF TypeOK, Call, counters
<1>4. CrowdInv' /\ CountInv'
  BY <1>1, <1>2, KeepCrowd, KeepCount DEF InCall
<1>5. OwnInv'
  BY <1>1, <1>2 DEF OwnInv, Own
<1>6. CleanInv'
  BY <1>1, <1>2, KeepClean DEF Holds, TypeOK
<1> QED
  BY <1>3, <1>4, <1>5, <1>6

(* Lean judges what the file holds: for a process alone, its body. *)
LEMMA LakeInv ==
  ASSUME IInv, NEW p \in Procs, Lake(p)
  PROVE  IInv'
<1> USE DEF IInv
<1>1. /\ proc[p].pc = "lake"
      /\ proc' = [proc EXCEPT ![p].pc = "unlink", ![p].ok = LeanAccepts(disk[proc[p].body])]
      /\ UNCHANGED counters /\ disk' = disk /\ left' = left
  BY DEF Lake
<1>2. \A q \in Procs : /\ proc'[q].body = proc[q].body
                       /\ proc'[q].crowded = proc[q].crowded
                       /\ proc'[q].pc = IF q = p THEN "unlink" ELSE proc[q].pc
                       /\ proc'[q].orphan = proc[q].orphan
                       /\ proc'[q].timeout = proc[q].timeout
  BY <1>1 DEF TypeOK, Call
<1>3. /\ proc'[p].ok = LeanAccepts(disk[proc[p].body])
      /\ \A q \in Procs \ {p} : proc'[q].ok = proc[q].ok
  BY <1>1 DEF TypeOK, Call
<1>4. TypeOK'
  <2>1. LeanAccepts(disk[proc[p].body]) \in BOOLEAN
    BY DEF LeanAccepts
  <2>2. proc' \in [Procs -> Call]
    BY <2>1, <1>1, ZenonT(60) DEF TypeOK, Call
  <2> QED
    BY <2>2, <1>1 DEF TypeOK, counters
<1>5. CrowdInv' /\ CountInv'
  BY <1>1, <1>2, KeepCrowd, KeepCount DEF InCall
<1>6. OwnInv'
  <2> SUFFICES ASSUME NEW q \in Procs, ~proc[q].crowded PROVE Own(q)'
    BY <1>2 DEF OwnInv
  <2>1. Own(q)
    BY DEF OwnInv
  <2>2. CASE q = p
    <3>1. disk[proc[p].body] = proc[p].body
      BY <2>1, <2>2, <1>1 DEF Own
    <3>2. LeanAccepts(disk[proc[p].body]) <=> proc[p].body \in Proofs
      BY <3>1, CallFields, WorkspaceAssumption DEF LeanAccepts
    <3> QED
      BY <3>2, <2>2, <1>2, <1>3 DEF Own
  <2>3. CASE q # p
    BY <2>1, <2>3, <1>1, <1>2, <1>3, ZenonT(60) DEF Own
  <2> QED
    BY <2>2, <2>3
<1>7. CleanInv'
  BY <1>1, <1>2, KeepClean DEF Holds, TypeOK
<1> QED
  BY <1>4, <1>5, <1>6, <1>7

(* A timeout is no verdict. *)
LEMMA LakeTimesOutInv ==
  ASSUME IInv, NEW p \in Procs, LakeTimesOut(p)
  PROVE  IInv'
<1> USE DEF IInv
<1>1. /\ proc[p].pc = "lake"
      /\ proc' = [proc EXCEPT ![p].pc = "unlink", ![p].timeout = TRUE]
      /\ UNCHANGED counters /\ disk' = disk /\ left' = left
  BY DEF LakeTimesOut
<1>2. \A q \in Procs : /\ proc'[q].body = proc[q].body
                       /\ proc'[q].crowded = proc[q].crowded
                       /\ proc'[q].pc = IF q = p THEN "unlink" ELSE proc[q].pc
                       /\ proc'[q].orphan = proc[q].orphan
                       /\ proc'[q].ok = proc[q].ok
                       /\ proc'[q].timeout = IF q = p THEN TRUE ELSE proc[q].timeout
  BY <1>1 DEF TypeOK, Call
<1>3. TypeOK'
  <2>1. proc' \in [Procs -> Call]
    BY <1>1, ZenonT(60) DEF TypeOK, Call
  <2> QED
    BY <2>1, <1>1 DEF TypeOK, counters
<1>4. CrowdInv' /\ CountInv'
  BY <1>1, <1>2, KeepCrowd, KeepCount DEF InCall
<1>5. OwnInv'
  <2> SUFFICES ASSUME NEW q \in Procs, ~proc[q].crowded PROVE Own(q)'
    BY <1>2 DEF OwnInv
  <2>1. Own(q)
    BY DEF OwnInv
  <2>2. CASE q = p
    BY <2>2, <1>2 DEF Own
  <2>3. CASE q # p
    BY <2>1, <2>3, <1>1, <1>2 DEF Own
  <2> QED
    BY <2>2, <2>3
<1>6. CleanInv'
  BY <1>1, <1>2, KeepClean DEF Holds, TypeOK
<1> QED
  BY <1>3, <1>4, <1>5, <1>6

-----------------------------------------------------------------------------
(* What unlinking does to everything but the counters, whoever ends the    *)
(* call.                                                                   *)
LEMMA UnlinkInv ==
  ASSUME IInv, NEW p \in Procs, proc[p].pc \in {"lake", "unlink"}, Unlink(p), left' = left
  PROVE  /\ disk' \in [Bodies -> Bodies \union {Empty, Absent}]
         /\ proc' \in [Procs -> Call]
         /\ CrowdInv' /\ OwnInv' /\ CleanInv'
         /\ \A q \in Procs : InCall(q)' => InCall(q) /\ q # p
<1> USE DEF IInv
<1>1. /\ disk' = [disk EXCEPT ![proc[p].body] = Absent]
      /\ proc' = [q \in Procs |->
           IF q = p THEN [proc[q] EXCEPT !.pc = "idle"]
           ELSE IF proc[q].pc = "write" /\ proc[q].body = proc[p].body
                THEN [proc[q] EXCEPT !.orphan = TRUE]
           ELSE proc[q]]
  BY DEF Unlink
<1>2. \A q \in Procs : proc[q] \in Call
  BY DEF TypeOK
<1>3. \A q \in Procs :
        /\ proc'[q].body = proc[q].body
        /\ proc'[q].crowded = proc[q].crowded
        /\ proc'[q].pc = IF q = p THEN "idle" ELSE proc[q].pc
        /\ proc'[q].ok = proc[q].ok /\ proc'[q].timeout = proc[q].timeout
        /\ proc'[q].orphan # proc[q].orphan
              => q # p /\ proc[q].pc = "write" /\ proc[q].body = proc[p].body
  BY <1>1, <1>2 DEF Call
<1>4. disk' \in [Bodies -> Bodies \union {Empty, Absent}]
  BY <1>1 DEF TypeOK
<1>5. proc' \in [Procs -> Call]
  BY <1>1, <1>2 DEF Call
<1>6. \A q \in Procs : InCall(q)' => InCall(q) /\ q # p
  BY <1>3 DEF InCall
<1>7. CrowdInv'
  BY <1>3, <1>6, KeepCrowd
<1>8. OwnInv'
  <2> SUFFICES ASSUME NEW q \in Procs, ~proc[q].crowded PROVE Own(q)'
    BY <1>3 DEF OwnInv
  <2>1. Own(q)
    BY DEF OwnInv
  <2>2. CASE q = p
    BY <2>2, <1>3 DEF Own
  <2>3. CASE q # p
    <3>1. InCall(q) => proc[q].body # proc[p].body
      BY <2>3 DEF CrowdInv, InCall
    <3>2. proc[q].body \in Bodies /\ proc[p].body \in Bodies
      BY CallFields
    <3>3. proc'[q].pc = "lake" => disk'[proc[q].body] = proc[q].body
      BY <2>1, <2>3, <3>1, <3>2, <1>1, <1>3 DEF Own, InCall, TypeOK
    <3>4. proc'[q].pc \in {"open", "write"} => ~proc'[q].orphan
      BY <2>1, <2>3, <3>1, <1>3 DEF Own, InCall
    <3> QED
      BY <2>1, <2>3, <3>3, <3>4, <1>3 DEF Own
  <2> QED
    BY <2>2, <2>3
<1>9. CleanInv'
  <2> SUFFICES ASSUME ~left, NEW b \in Bodies, disk'[b] # Absent
               PROVE  \E q \in Procs : Holds(q, b)'
    BY DEF CleanInv
  <2>1. b # proc[p].body /\ disk[b] # Absent
    BY <1>1, CallFields DEF TypeOK
  <2>2. PICK q \in Procs : Holds(q, b)
    BY <2>1 DEF CleanInv
  <2> QED
    BY <2>1, <2>2, <1>3 DEF Holds
<1> QED
  BY <1>4, <1>5, <1>6, <1>7, <1>8, <1>9

(* A run of lake that raises ends the call without a row. *)
LEMMA LakeRaisesInv ==
  ASSUME IInv, NEW p \in Procs, LakeRaises(p)
  PROVE  IInv'
<1> USE DEF IInv
<1>1. proc[p].pc = "lake" /\ Unlink(p) /\ UNCHANGED counters /\ left' = left
  BY DEF LakeRaises
<1>2. CountInv'
  BY <1>1, UnlinkInv, KeepCount
<1>3. TypeOK'
  BY <1>1, UnlinkInv DEF TypeOK, counters
<1> QED
  BY <1>1, <1>2, <1>3, UnlinkInv

(* A call that returns is counted as returned and as logged. *)
LEMMA ReturnInv ==
  ASSUME IInv, NEW p \in Procs, Return(p)
  PROVE  IInv'
<1> USE DEF IInv
<1>1. /\ proc[p].pc = "unlink" /\ Unlink(p) /\ left' = left
      /\ rows' = [rows EXCEPT ![p] = @ + 1]
      /\ returned' = [returned EXCEPT ![p] = @ + 1]
      /\ calls' = calls /\ mismatched' = mismatched
  BY DEF Return
<1>2. \A q \in Procs : InCall(q)' => InCall(q) /\ q # p
  BY <1>1, UnlinkInv
<1>3. returned[p] + 1 <= calls[p] /\ rows[p] <= returned[p]
  BY <1>1, CallFields DEF CountInv, InCall
<1>4. CountInv'
  <2> SUFFICES ASSUME NEW q \in Procs
               PROVE  /\ rows'[q] + mismatched[q] = returned'[q]
                      /\ returned'[q] + (IF InCall(q)' THEN 1 ELSE 0) <= calls[q]
    BY <1>1 DEF CountInv
  <2>1. /\ rows[q] + mismatched[q] = returned[q]
        /\ returned[q] + (IF InCall(q) THEN 1 ELSE 0) <= calls[q]
    BY DEF CountInv
  <2>2. CASE q = p
    BY <1>1, <1>2, <1>3, <2>1, <2>2, CallFields DEF TypeOK
  <2>3. CASE q # p
    <3>1. rows'[q] = rows[q] /\ returned'[q] = returned[q]
      BY <1>1, <2>3 DEF TypeOK
    <3> QED
      BY <1>2, <2>1, <3>1, CallFields
  <2> QED
    BY <2>2, <2>3
<1>5. TypeOK'
  <2>1. rows[p] + 1 \in 0..MaxCalls /\ returned[p] + 1 \in 0..MaxCalls
    BY <1>3, CallFields
  <2> QED
    BY <2>1, <1>1, UnlinkInv DEF TypeOK
<1> QED
  BY <1>1, <1>4, <1>5, UnlinkInv

-----------------------------------------------------------------------------
(* The death of a process ends the promise of a clean workspace. *)
LEMMA CrashInv ==
  ASSUME IInv, NEW p \in Procs, Crash(p) \/ Restart(p)
  PROVE  IInv'
<1> USE DEF IInv
<1>1. PICK pc \in {"dead", "idle"} :
        /\ proc' = [proc EXCEPT ![p].pc = pc]
        /\ UNCHANGED counters /\ disk' = disk
        /\ left' \in BOOLEAN /\ (~left' => ~left /\ proc[p].pc = "dead")
  BY DEF Crash, Restart, TypeOK
<1>2. \A q \in Procs : /\ proc'[q].body = proc[q].body
                       /\ proc'[q].crowded = proc[q].crowded
                       /\ proc'[q].pc = IF q = p THEN pc ELSE proc[q].pc
                       /\ proc'[q].orphan = proc[q].orphan
                       /\ proc'[q].ok = proc[q].ok /\ proc'[q].timeout = proc[q].timeout
  BY <1>1 DEF TypeOK, Call
<1>3. TypeOK'
  BY <1>1, CallFields DEF TypeOK, Call, counters
<1>4. CrowdInv' /\ CountInv'
  BY <1>1, <1>2, KeepCrowd, KeepCount DEF InCall
<1>5. OwnInv'
  BY <1>1, <1>2 DEF OwnInv, Own
<1>6. CleanInv'
  BY <1>1, <1>2, KeepClean DEF Holds
<1> QED
  BY <1>3, <1>4, <1>5, <1>6

(* Nothing changes in a stuttering step. *)
LEMMA StutterInv ==
  ASSUME IInv, UNCHANGED vars
  PROVE  IInv'
BY DEF IInv, vars, TypeOK, CrowdInv, InCall, OwnInv, Own, CleanInv, Holds, CountInv

(* The invariant holds in every reachable state. *)
THEOREM Invariance == Spec => []IInv
<1>1. Init => IInv
  BY InitInv
<1>2. IInv /\ [Next]_vars => IInv'
  <2> SUFFICES ASSUME IInv, [Next]_vars PROVE IInv'
    OBVIOUS
  <2>1. CASE UNCHANGED vars
    BY <2>1, StutterInv
  <2>2. ASSUME NEW p \in Procs, NEW body \in Bodies, Begin(p, body) PROVE IInv'
    BY <2>2, BeginInv
  <2>3. ASSUME NEW p \in Procs, Mismatch(p) PROVE IInv'
    BY <2>3, MismatchInv
  <2>4. ASSUME NEW p \in Procs, Open(p) PROVE IInv'
    BY <2>4, OpenInv
  <2>5. ASSUME NEW p \in Procs, Write(p) PROVE IInv'
    BY <2>5, WriteInv
  <2>6. ASSUME NEW p \in Procs, WriteRaises(p) PROVE IInv'
    BY <2>6, WriteRaisesInv
  <2>7. ASSUME NEW p \in Procs, Lake(p) PROVE IInv'
    BY <2>7, LakeInv
  <2>8. ASSUME NEW p \in Procs, LakeTimesOut(p) PROVE IInv'
    BY <2>8, LakeTimesOutInv
  <2>9. ASSUME NEW p \in Procs, LakeRaises(p) PROVE IInv'
    BY <2>9, LakeRaisesInv
  <2>10. ASSUME NEW p \in Procs, Return(p) PROVE IInv'
    BY <2>10, ReturnInv
  <2>11. ASSUME NEW p \in Procs, Crash(p) \/ Restart(p) PROVE IInv'
    BY <2>11, CrashInv
  <2> QED
    BY <2>1, <2>2, <2>3, <2>4, <2>5, <2>6, <2>7, <2>8, <2>9, <2>10, <2>11 DEF Next
<1> QED
  BY <1>1, <1>2, PTL DEF Spec

-----------------------------------------------------------------------------
(* The types of LeanWorkspace's variables, in every reachable state. *)
THEOREM WorkspaceTyping == Spec => []TypeOK
<1>1. IInv => TypeOK
  BY DEF IInv
<1> QED
  BY <1>1, Invariance, PTL

(* A verdict of a process that was alone with its body is about that body, *)
(* whatever dead processes left behind.                                    *)
THEOREM OwnVerdicts == Spec => []VerdictIsOwn
<1>1. IInv => VerdictIsOwn
  BY DEF IInv, OwnInv, Own, VerdictIsOwn
<1> QED
  BY <1>1, Invariance, PTL

(* When all calls are over the workspace is clean, unless a process died   *)
(* or failed to write.                                                     *)
THEOREM Cleanliness == Spec => []CleanWorkspace
<1>1. IInv => CleanWorkspace
  BY DEF IInv, CleanInv, Holds, CleanWorkspace
<1> QED
  BY <1>1, Invariance, PTL

(* LeanProver.compile and check: every call that returned a result has a   *)
(* row, but for those turned down for their language, which may have none, *)
(* and no call has two.                                                    *)
THEOREM CallsLogged == Spec => []ReturnedIsLogged
<1>1. IInv => ReturnedIsLogged
  <2> SUFFICES ASSUME IInv, NEW p \in Procs
               PROVE  /\ returned[p] <= rows[p] + mismatched[p]
                      /\ rows[p] + (IF InCall(p) THEN 1 ELSE 0) <= calls[p]
    BY DEF ReturnedIsLogged
  <2>1. /\ rows[p] \in Nat /\ mismatched[p] \in Nat /\ calls[p] \in Nat
        /\ rows[p] + mismatched[p] = returned[p]
        /\ returned[p] + (IF InCall(p) THEN 1 ELSE 0) <= calls[p]
    BY CallFields DEF IInv, CountInv
  <2> QED
    BY <2>1
<1> QED
  BY <1>1, Invariance, PTL

-----------------------------------------------------------------------------
(* The demo. *)

(* Runs that overlap are marked, and so is the history. *)
OverlapInv ==
  \A q, r \in Runs : q # r /\ Active(q) /\ Active(r) => run[r].disturbed /\ spoiled

Past(r) == run[r].pc \in {"open", "write", "build", "restore", "rewrite", "record", "done"}

(* The two texts of a run, and their copies. *)
TextsInv ==
  \A r \in Runs :
    /\ Active(r) \/ Past(r) =>
         /\ run[r].original \in Text /\ run[r].patched \in Text
         /\ run[r].patched + 1 = run[r].original
    /\ Past(r) => /\ artifacts[r].original = run[r].original
                  /\ artifacts[r].patched = run[r].patched
    /\ artifacts[r].results => run[r].pc = "done"

(* What a run that is alone has in the scratch file, and has built. *)
BuiltInv ==
  \A r \in Runs : ~run[r].disturbed =>
    /\ run[r].pc = "build" => scratch = run[r].patched
    /\ run[r].pc \in {"restore", "rewrite", "record", "done"} /\ ~run[r].raising
         => run[r].built = run[r].patched

(* Unless runs overlapped or died, the committed text is in the file or    *)
(* will be written back.                                                   *)
CommittedInv ==
  ~spoiled =>
    /\ (\A r \in Runs : ~Active(r)) => scratch = Holes
    /\ \A r \in Runs : Active(r) => run[r].original = Holes
    /\ \A r \in Runs : run[r].pc = "artifacts" => scratch = Holes

(* A run that raises does not record. *)
RaisingInv == \A r \in Runs : run[r].pc \in {"record", "done"} => ~run[r].raising

DemoInv == DemoTypeOK /\ OverlapInv /\ TextsInv /\ BuiltInv /\ CommittedInv /\ RaisingInv

-----------------------------------------------------------------------------
(* Nothing has begun. *)
LEMMA DemoStarts == DemoInit => DemoInv
<1> SUFFICES ASSUME DemoInit PROVE DemoInv
  OBVIOUS
<1>1. \A r \in Runs : run[r] = [pc |-> "new", original |-> None, patched |-> None, built |-> None,
                                raising |-> FALSE, disturbed |-> FALSE]
  BY DEF DemoInit
<1>2. DemoTypeOK
  <2>1. scratch \in Content
    BY DemoAssumption DEF DemoInit, Content, Text
  <2>2. run \in [Runs -> Run]
    BY DEF DemoInit, Run
  <2>3. artifacts \in [Runs -> Artifacts]
    BY DEF DemoInit, Artifacts
  <2> QED
    BY <2>1, <2>2, <2>3 DEF DemoInit, DemoTypeOK
<1>3. OverlapInv /\ BuiltInv /\ RaisingInv
  BY <1>1 DEF OverlapInv, BuiltInv, RaisingInv, Active
<1>4. TextsInv
  BY <1>1 DEF TextsInv, Active, Past, DemoInit
<1>5. CommittedInv
  BY <1>1 DEF CommittedInv, Active, DemoInit
<1> QED
  BY <1>2, <1>3, <1>4, <1>5 DEF DemoInv

(* The locals of a run that has just filled a hole. *)
Started(original, patched, disturbed) ==
  [pc |-> "artifacts", original |-> original, patched |-> patched,
   built |-> None, raising |-> FALSE, disturbed |-> disturbed]

(* Starting marks the others and the run itself. *)
LEMMA FillInv ==
  ASSUME DemoInv, NEW r \in Runs, Fill(r)
  PROVE  DemoInv'
<1> USE DEF DemoInv
<1>1. /\ run[r].pc = "new" /\ scratch \in Text \ {0}
      /\ scratch' = scratch /\ artifacts' = artifacts
      /\ spoiled' = (spoiled \/ Others(r) # {})
  BY DEF Fill, Filled, At
<1>2. \A q \in Runs : run[q] \in Run
  BY DEF DemoTypeOK
<1>3. /\ run'[r].pc = "artifacts" /\ run'[r].original = scratch /\ run'[r].patched = scratch - 1
      /\ ~run'[r].raising
      /\ \A q \in Runs \ {r} :
           /\ run'[q].pc = run[q].pc /\ run'[q].original = run[q].original
           /\ run'[q].patched = run[q].patched /\ run'[q].built = run[q].built
           /\ run'[q].raising = run[q].raising
           /\ run[q].disturbed => run'[q].disturbed
           /\ q \in Others(r) => run'[q].disturbed
  BY <1>2 DEF Fill, Filled, Run
<1>4. Others(r) # {} => run'[r].disturbed /\ spoiled'
  <2> SUFFICES ASSUME Others(r) # {} PROVE run'[r].disturbed /\ spoiled'
    OBVIOUS
  <2>1. (Others(r) # {}) = TRUE
    OBVIOUS
  <2>2. run'[r] = Started(scratch, scratch - 1, Others(r) # {})
    BY SMT DEF Fill, Filled, Started
  <2>3. run'[r] = Started(scratch, scratch - 1, TRUE)
    BY <2>1, <2>2, Zenon
  <2>4. run'[r].disturbed
    BY <2>3 DEF Started
  <2>5. spoiled'
    BY <1>1, Zenon
  <2> QED
    BY <2>4, <2>5
<1>5. DemoTypeOK'
  <2>1. scratch - 1 \in Text
    BY <1>1, DemoAssumption DEF Text
  <2>2. run' \in [Runs -> Run]
    BY <1>1, <1>2, <2>1, ZenonT(60) DEF Fill, Filled, Run
  <2> QED
    BY <2>2, <1>1 DEF DemoTypeOK
<1>6. OverlapInv'
  <2> SUFFICES ASSUME NEW q \in Runs, NEW s \in Runs, q # s, Active(q)', Active(s)'
               PROVE  run'[s].disturbed /\ spoiled'
    BY DEF OverlapInv
  <2>1. CASE s = r
    BY <2>1, <1>3, <1>4 DEF Active, Others
  <2>2. CASE q = r
    BY <2>2, <1>3, <1>4 DEF Active, Others
  <2>3. CASE q # r /\ s # r
    BY <2>3, <1>1, <1>3 DEF Active, OverlapInv
  <2> QED
    BY <2>1, <2>2, <2>3
<1>7. TextsInv'
  <2>1. scratch - 1 \in Text /\ (scratch - 1) + 1 = scratch
    BY <1>1, DemoAssumption DEF Text
  <2> QED
    BY <2>1, <1>1, <1>3 DEF TextsInv, Active, Past
<1>8. BuiltInv'
  BY <1>1, <1>3 DEF BuiltInv
<1>9. CommittedInv'
  <2> SUFFICES ASSUME ~spoiled'
               PROVE  /\ ~(\A q \in Runs : ~Active(q)')
                      /\ \A q \in Runs : Active(q)' => run'[q].original = Holes
                      /\ scratch = Holes
    BY <1>1 DEF CommittedInv
  <2>1. \A q \in Runs : ~Active(q)
    BY <1>1 DEF Others, Active
  <2>2. scratch = Holes
    BY <2>1, <1>1 DEF CommittedInv
  <2> QED
    BY <2>1, <2>2, <1>3 DEF Active
<1>10. RaisingInv'
  BY <1>3 DEF RaisingInv
<1> QED
  BY <1>5, <1>6, <1>7, <1>8, <1>9, <1>10

-----------------------------------------------------------------------------
(* The steps of a run other than the one that starts it. *)
LaterStep(r) ==
  \/ WriteArtifacts(r) \/ OpenScratch(r) \/ WriteScratch(r) \/ Build(r) \/ TryRaises(r)
  \/ Reopen(r) \/ Restore(r) \/ Record(r) \/ FillRaises(r) \/ ArtifactsRaise(r)
  \/ RestoreRaises(r) \/ Killed(r)

(* What every later step of one run does to the others: nothing but what   *)
(* it writes to the scratch file.                                          *)
LEMMA StepFields ==
  ASSUME DemoTypeOK, NEW r \in Runs, LaterStep(r)
  PROVE  /\ \A q \in Runs \ {r} : run'[q] = run[q] /\ artifacts'[q] = artifacts[q]
         /\ run'[r].original = run[r].original /\ run'[r].patched = run[r].patched
         /\ run'[r].disturbed = run[r].disturbed
         /\ Active(r)' => Active(r)
         /\ spoiled => spoiled'
         /\ ~Build(r) => run'[r].built = run[r].built
         /\ ~TryRaises(r) => run'[r].raising = run[r].raising
         /\ ~WriteArtifacts(r) /\ ~Record(r) => artifacts' = artifacts
<1>0. /\ run[r] \in Run /\ artifacts[r] \in Artifacts
      /\ run \in [Runs -> Run] /\ artifacts \in [Runs -> Artifacts]
  BY DEF DemoTypeOK
<1>1. CASE WriteArtifacts(r)
  BY <1>0, <1>1 DEF WriteArtifacts, At, Active, Run, Artifacts
<1>2. CASE OpenScratch(r)
  BY <1>0, <1>2 DEF OpenScratch, At, Active, Run, Artifacts
<1>3. CASE WriteScratch(r)
  BY <1>0, <1>3 DEF WriteScratch, At, Active, Run, Artifacts
<1>4. CASE Build(r)
  BY <1>0, <1>4 DEF Build, At, Active, Run, Artifacts
<1>5. CASE TryRaises(r)
  BY <1>0, <1>5 DEF TryRaises, At, Active, Run, Artifacts
<1>6. CASE Reopen(r)
  BY <1>0, <1>6 DEF Reopen, At, Active, Run, Artifacts
<1>7. CASE Restore(r)
  BY <1>0, <1>7 DEF Restore, At, Active, Run, Artifacts
<1>8. CASE Record(r)
  BY <1>0, <1>8 DEF Record, At, Active, Run, Artifacts
<1>9. CASE FillRaises(r)
  BY <1>0, <1>9 DEF FillRaises, At, Active, Run, Artifacts
<1>10. CASE ArtifactsRaise(r)
  BY <1>0, <1>10 DEF ArtifactsRaise, At, Active, Run, Artifacts
<1>11. CASE RestoreRaises(r)
  BY <1>0, <1>11 DEF RestoreRaises, At, Active, Run, Artifacts
<1>12. CASE Killed(r)
  BY <1>0, <1>12 DEF Killed, At, Active, Run, Artifacts
<1> QED
  BY <1>1, <1>2, <1>3, <1>4, <1>5, <1>6, <1>7, <1>8, <1>9, <1>10, <1>11, <1>12 DEF LaterStep

(* Such steps make nobody overlap who did not. *)
LEMMA KeepOverlap ==
  ASSUME OverlapInv, NEW r \in Runs,
         \A q \in Runs \ {r} : run'[q] = run[q],
         run'[r].disturbed = run[r].disturbed, Active(r)' => Active(r), spoiled => spoiled'
  PROVE  OverlapInv'
BY DEF OverlapInv, Active

(* Later steps keep the types. *)
LEMMA LaterTyping ==
  ASSUME DemoTypeOK, TextsInv, NEW r \in Runs, LaterStep(r)
  PROVE  DemoTypeOK'
<1>0. /\ run[r] \in Run /\ artifacts[r] \in Artifacts
      /\ run \in [Runs -> Run] /\ artifacts \in [Runs -> Artifacts]
      /\ scratch \in Content /\ spoiled \in BOOLEAN
      /\ run[r].pc \in {"write", "rewrite"} => run[r].original \in Text /\ run[r].patched \in Text
  BY DEF DemoTypeOK, TextsInv, Active
<1>1. CASE WriteArtifacts(r)
  BY <1>0, <1>1 DEF WriteArtifacts, At, DemoTypeOK, Run, Artifacts, Content
<1>2. CASE OpenScratch(r)
  BY <1>0, <1>2 DEF OpenScratch, At, DemoTypeOK, Run, Artifacts, Content
<1>3. CASE WriteScratch(r)
  BY <1>0, <1>3 DEF WriteScratch, At, DemoTypeOK, Run, Artifacts, Content
<1>4. CASE Build(r)
  BY <1>0, <1>4 DEF Build, At, DemoTypeOK, Run, Artifacts, Content
<1>5. CASE TryRaises(r)
  BY <1>0, <1>5 DEF TryRaises, At, DemoTypeOK, Run, Artifacts, Content
<1>6. CASE Reopen(r)
  BY <1>0, <1>6 DEF Reopen, At, DemoTypeOK, Run, Artifacts, Content
<1>7. CASE Restore(r)
  BY <1>0, <1>7 DEF Restore, At, DemoTypeOK, Run, Artifacts, Content
<1>8. CASE Record(r)
  BY <1>0, <1>8 DEF Record, At, DemoTypeOK, Run, Artifacts, Content
<1>9. CASE FillRaises(r)
  BY <1>0, <1>9 DEF FillRaises, At, DemoTypeOK, Run, Artifacts, Content
<1>10. CASE ArtifactsRaise(r)
  BY <1>0, <1>10 DEF ArtifactsRaise, At, DemoTypeOK, Run, Artifacts, Content
<1>11. CASE RestoreRaises(r)
  BY <1>0, <1>11 DEF RestoreRaises, At, DemoTypeOK, Run, Artifacts, Content
<1>12. CASE Killed(r)
  BY <1>0, <1>12 DEF Killed, At, DemoTypeOK, Run, Artifacts, Content
<1> QED
  BY <1>1, <1>2, <1>3, <1>4, <1>5, <1>6, <1>7, <1>8, <1>9, <1>10, <1>11, <1>12 DEF LaterStep

(* The copies are of the run's own texts, and results come last. *)
LEMMA LaterTexts ==
  ASSUME DemoTypeOK, TextsInv, NEW r \in Runs, LaterStep(r)
  PROVE  TextsInv'
<1>0. /\ run[r] \in Run /\ artifacts[r] \in Artifacts
      /\ run \in [Runs -> Run] /\ artifacts \in [Runs -> Artifacts]
  BY DEF DemoTypeOK
<1>1. CASE WriteArtifacts(r)
  BY <1>0, <1>1 DEF WriteArtifacts, At, TextsInv, Active, Past, Run, Artifacts
<1>2. CASE OpenScratch(r)
  BY <1>0, <1>2 DEF OpenScratch, At, TextsInv, Active, Past, Run, Artifacts
<1>3. CASE WriteScratch(r)
  BY <1>0, <1>3 DEF WriteScratch, At, TextsInv, Active, Past, Run, Artifacts
<1>4. CASE Build(r)
  BY <1>0, <1>4 DEF Build, At, TextsInv, Active, Past, Run, Artifacts
<1>5. CASE TryRaises(r)
  BY <1>0, <1>5 DEF TryRaises, At, TextsInv, Active, Past, Run, Artifacts
<1>6. CASE Reopen(r)
  BY <1>0, <1>6 DEF Reopen, At, TextsInv, Active, Past, Run, Artifacts
<1>7. CASE Restore(r)
  BY <1>0, <1>7 DEF Restore, At, TextsInv, Active, Past, Run, Artifacts
<1>8. CASE Record(r)
  BY <1>0, <1>8 DEF Record, At, TextsInv, Active, Past, Run, Artifacts
<1>9. CASE FillRaises(r)
  BY <1>0, <1>9 DEF FillRaises, At, TextsInv, Active, Past, Run, Artifacts
<1>10. CASE ArtifactsRaise(r)
  BY <1>0, <1>10 DEF ArtifactsRaise, At, TextsInv, Active, Past, Run, Artifacts
<1>11. CASE RestoreRaises(r)
  BY <1>0, <1>11 DEF RestoreRaises, At, TextsInv, Active, Past, Run, Artifacts
<1>12. CASE Killed(r)
  BY <1>0, <1>12 DEF Killed, At, TextsInv, Active, Past, Run, Artifacts
<1> QED
  BY <1>1, <1>2, <1>3, <1>4, <1>5, <1>6, <1>7, <1>8, <1>9, <1>10, <1>11, <1>12 DEF LaterStep

(* Only a run that did not raise goes on to record. *)
LEMMA LaterRaising ==
  ASSUME DemoTypeOK, RaisingInv, NEW r \in Runs, LaterStep(r)
  PROVE  RaisingInv'
<1>0. run[r] \in Run /\ run \in [Runs -> Run]
  BY DEF DemoTypeOK
<1>1. CASE WriteArtifacts(r)
  BY <1>0, <1>1 DEF WriteArtifacts, At, RaisingInv, Run
<1>2. CASE OpenScratch(r)
  BY <1>0, <1>2 DEF OpenScratch, At, RaisingInv, Run
<1>3. CASE WriteScratch(r)
  BY <1>0, <1>3 DEF WriteScratch, At, RaisingInv, Run
<1>4. CASE Build(r)
  BY <1>0, <1>4 DEF Build, At, RaisingInv, Run
<1>5. CASE TryRaises(r)
  BY <1>0, <1>5 DEF TryRaises, At, RaisingInv, Run
<1>6. CASE Reopen(r)
  BY <1>0, <1>6 DEF Reopen, At, RaisingInv, Run
<1>7. CASE Restore(r)
  BY <1>0, <1>7 DEF Restore, At, RaisingInv, Run
<1>8. CASE Record(r)
  BY <1>0, <1>8 DEF Record, At, RaisingInv, Run
<1>9. CASE FillRaises(r)
  BY <1>0, <1>9 DEF FillRaises, At, RaisingInv, Run
<1>10. CASE ArtifactsRaise(r)
  BY <1>0, <1>10 DEF ArtifactsRaise, At, RaisingInv, Run
<1>11. CASE RestoreRaises(r)
  BY <1>0, <1>11 DEF RestoreRaises, At, RaisingInv, Run
<1>12. CASE Killed(r)
  BY <1>0, <1>12 DEF Killed, At, RaisingInv, Run
<1> QED
  BY <1>1, <1>2, <1>3, <1>4, <1>5, <1>6, <1>7, <1>8, <1>9, <1>10, <1>11, <1>12 DEF LaterStep

(* A run alone finds in the file what it wrote: whoever else writes has    *)
(* disturbed it.                                                           *)
LEMMA LaterBuilt ==
  ASSUME DemoTypeOK, OverlapInv, BuiltInv, NEW r \in Runs, LaterStep(r)
  PROVE  BuiltInv'
<1>0. /\ run[r] \in Run /\ run \in [Runs -> Run]
      /\ \A q \in Runs \ {r} : Active(r) /\ run[q].pc = "build" => run[q].disturbed
  BY DEF DemoTypeOK, OverlapInv, Active
<1>1. CASE WriteArtifacts(r)
  BY <1>0, <1>1 DEF WriteArtifacts, At, BuiltInv, Active, Run
<1>2. CASE OpenScratch(r)
  BY <1>0, <1>2 DEF OpenScratch, At, BuiltInv, Active, Run
<1>3. CASE WriteScratch(r)
  BY <1>0, <1>3 DEF WriteScratch, At, BuiltInv, Active, Run
<1>4. CASE Build(r)
  BY <1>0, <1>4 DEF Build, At, BuiltInv, Active, Run
<1>5. CASE TryRaises(r)
  BY <1>0, <1>5 DEF TryRaises, At, BuiltInv, Active, Run
<1>6. CASE Reopen(r)
  BY <1>0, <1>6 DEF Reopen, At, BuiltInv, Active, Run
<1>7. CASE Restore(r)
  BY <1>0, <1>7 DEF Restore, At, BuiltInv, Active, Run
<1>8. CASE Record(r)
  BY <1>0, <1>8 DEF Record, At, BuiltInv, Active, Run
<1>9. CASE FillRaises(r)
  BY <1>0, <1>9 DEF FillRaises, At, BuiltInv, Active, Run
<1>10. CASE ArtifactsRaise(r)
  BY <1>0, <1>10 DEF ArtifactsRaise, At, BuiltInv, Active, Run
<1>11. CASE RestoreRaises(r)
  BY <1>0, <1>11 DEF RestoreRaises, At, BuiltInv, Active, Run
<1>12. CASE Killed(r)
  BY <1>0, <1>12 DEF Killed, At, BuiltInv, Active, Run
<1> QED
  BY <1>1, <1>2, <1>3, <1>4, <1>5, <1>6, <1>7, <1>8, <1>9, <1>10, <1>11, <1>12 DEF LaterStep

(* Unless runs overlapped or died, the one under way writes the committed  *)
(* text back.                                                              *)
LEMMA LaterCommitted ==
  ASSUME DemoTypeOK, OverlapInv, CommittedInv, NEW r \in Runs, LaterStep(r)
  PROVE  CommittedInv'
<1>0. /\ run[r] \in Run /\ run \in [Runs -> Run]
      /\ \A q \in Runs \ {r} : ~spoiled /\ Active(r) => ~Active(q)
  BY DEF DemoTypeOK, OverlapInv
<1>1. CASE WriteArtifacts(r)
  BY <1>0, <1>1 DEF WriteArtifacts, At, CommittedInv, Active, Run
<1>2. CASE OpenScratch(r)
  BY <1>0, <1>2 DEF OpenScratch, At, CommittedInv, Active, Run
<1>3. CASE WriteScratch(r)
  BY <1>0, <1>3 DEF WriteScratch, At, CommittedInv, Active, Run
<1>4. CASE Build(r)
  BY <1>0, <1>4 DEF Build, At, CommittedInv, Active, Run
<1>5. CASE TryRaises(r)
  BY <1>0, <1>5 DEF TryRaises, At, CommittedInv, Active, Run
<1>6. CASE Reopen(r)
  BY <1>0, <1>6 DEF Reopen, At, CommittedInv, Active, Run
<1>7. CASE Restore(r)
  BY <1>0, <1>7 DEF Restore, At, CommittedInv, Active, Run
<1>8. CASE Record(r)
  BY <1>0, <1>8 DEF Record, At, CommittedInv, Active, Run
<1>9. CASE FillRaises(r)
  BY <1>0, <1>9 DEF FillRaises, At, CommittedInv, Active, Run
<1>10. CASE ArtifactsRaise(r)
  BY <1>0, <1>10 DEF ArtifactsRaise, At, CommittedInv, Active, Run
<1>11. CASE RestoreRaises(r)
  BY <1>0, <1>11 DEF RestoreRaises, At, CommittedInv, Active, Run
<1>12. CASE Killed(r)
  BY <1>0, <1>12 DEF Killed, At, CommittedInv, Active, Run
<1> QED
  BY <1>1, <1>2, <1>3, <1>4, <1>5, <1>6, <1>7, <1>8, <1>9, <1>10, <1>11, <1>12 DEF LaterStep

-----------------------------------------------------------------------------
(* Every step keeps the invariant. *)
LEMMA DemoSteps == DemoInv /\ [DemoNext]_demo_vars => DemoInv'
<1> SUFFICES ASSUME DemoInv, [DemoNext]_demo_vars PROVE DemoInv'
  OBVIOUS
<1>1. CASE UNCHANGED demo_vars
  BY <1>1 DEF demo_vars, DemoInv, DemoTypeOK, OverlapInv, TextsInv, BuiltInv, CommittedInv, RaisingInv,
     Active, Past
<1>2. ASSUME NEW r \in Runs, Fill(r)
      PROVE  DemoInv'
  BY <1>2, FillInv
<1>3. ASSUME NEW r \in Runs, LaterStep(r)
      PROVE  DemoInv'
  <2>1. DemoTypeOK' /\ TextsInv' /\ RaisingInv'
    BY <1>3, LaterTyping, LaterTexts, LaterRaising DEF DemoInv
  <2>2. BuiltInv' /\ CommittedInv'
    BY <1>3, LaterBuilt, LaterCommitted DEF DemoInv
  <2>3. OverlapInv'
    BY <1>3, StepFields, KeepOverlap DEF DemoInv
  <2> QED
    BY <2>1, <2>2, <2>3 DEF DemoInv
<1> QED
  BY <1>1, <1>2, <1>3 DEF DemoNext, LaterStep

(* The invariant holds throughout. *)
THEOREM DemoInvariance == DemoSpec => []DemoInv
BY DemoStarts, DemoSteps, PTL DEF DemoSpec

(* The scratch file and the runs' locals have their types, whatever fails  *)
(* and whoever runs at the same time.                                      *)
THEOREM DemoTyping == DemoSpec => []DemoTypeOK
<1>1. DemoInv => DemoTypeOK
  BY DEF DemoInv
<1> QED
  BY <1>1, DemoInvariance, PTL

(* The committed text is back in the scratch file when nobody runs, unless *)
(* runs overlapped, were killed or could not write it: the finally of      *)
(* run_demo_cycle, for any number of runs in sequence.                     *)
THEOREM Restored == DemoSpec => []ScratchRestored
<1>1. DemoInv => ScratchRestored
  BY DEF DemoInv, CommittedInv, ScratchRestored
<1> QED
  BY <1>1, DemoInvariance, PTL

(* What a run that was alone records is about the texts it kept. *)
THEOREM Results == DemoSpec => []ResultsMatchArtifacts
<1>1. DemoInv => ResultsMatchArtifacts
  BY DEF DemoInv, TextsInv, BuiltInv, RaisingInv, ResultsMatchArtifacts, Active, Past
<1> QED
  BY <1>1, DemoInvariance, PTL
=============================================================================
