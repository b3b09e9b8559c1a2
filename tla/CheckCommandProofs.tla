------------------------- MODULE CheckCommandProofs -------------------------
(***************************************************************************)
(* What kalinov check promises, for every document, every number of files  *)
(* and every prover: its types, one verdict for each claim, and an exit    *)
(* code that tells the whole command.                                      *)
(*                                                                         *)
(* First, from what FlattenSeq does (module CommonProofs): a walk visits   *)
(* each place of a document once, and extraction keeps its order and       *)
(* repeats nothing. Then the invariant. Bridged is what the bridge leaves  *)
(* of a claim, Settled what EachClaimOnce asks of it; the check of a file  *)
(* turns the first into the second, place by place, and SkipInv says why a *)
(* name in the skip list stands for a claim that has its verdict.          *)
(*                                                                         *)
(* Then the scan for math in the text of a step (MathTex), for every text. *)
(* What a text holds at a place, and where the loop for a closing dollar   *)
(* ends, is found without the scan (FragmentIs, DollarCloses). ScanInv     *)
(* says that what is behind the cursor is read as the leftmost reading has *)
(* it, and that the cursor never stands on a dollar that is text.          *)
(***************************************************************************)
EXTENDS CheckCommand, MathTex, CommonProofs

(* The walk visits every step of every scenario, none of them twice, and   *)
(* nothing else (FrontEnd.Walk: the loops of both extract_obligations).    *)
LEMMA WalkIs ==
  ASSUME NEW s \in Seq(ScenarioType)
  PROVE  /\ Walk(s) \in Seq(Nat \X Nat)
         /\ Distinct(Walk(s))
         /\ \A at \in Range(Walk(s)) : at[1] \in DOMAIN s /\ at[2] \in DOMAIN s[at[1]].steps
         /\ \A i \in DOMAIN s : \A j \in DOMAIN s[i].steps : <<i, j>> \in Range(Walk(s))
<1> DEFINE ss == [i \in DOMAIN s |-> [j \in DOMAIN s[i].steps |-> <<i, j>>]]
<1>1. \A i \in DOMAIN s : i \in Nat /\ s[i].steps \in Seq(StepType)
  <2>1. \A i \in DOMAIN s : i \in Nat /\ s[i] \in ScenarioType
    OBVIOUS
  <2> QED
    BY <2>1 DEF ScenarioType
<1>2. ASSUME NEW i \in DOMAIN s PROVE ss[i] \in Seq(Nat \X Nat)
  <2>1. PICK n \in Nat : DOMAIN s[i].steps = 1 .. n
    BY <1>1
  <2>2. ss[i] = [j \in 1 .. n |-> <<i, j>>]
    BY <2>1
  <2>3. \A j \in 1 .. n : <<i, j>> \in Nat \X Nat
    BY <1>1
  <2> QED
    BY <2>2, <2>3
<1>3. Len(s) \in Nat /\ DOMAIN s = 1 .. Len(s)
  OBVIOUS
<1>4. ss \in Seq(Seq(Nat \X Nat)) /\ Len(ss) = Len(s) /\ DOMAIN ss = DOMAIN s
  BY <1>2, <1>3
<1>5. Walk(s) = FlattenSeq(ss)
  BY DEF Walk
<1>6. \A i \in DOMAIN s : \A j \in DOMAIN ss[i] : ss[i][j] = <<i, j>> /\ j \in DOMAIN s[i].steps
  OBVIOUS
<1>7. \A i \in DOMAIN s : \A j \in DOMAIN s[i].steps : j \in DOMAIN ss[i] /\ ss[i][j] = <<i, j>>
  OBVIOUS
<1> HIDE DEF ss
<1>8. \A i \in DOMAIN s : \A j \in DOMAIN s[i].steps : <<i, j>> \in Range(ss[i])
  BY <1>7 DEF Range
<1>9. \A i \in DOMAIN s : \A at \in Range(ss[i]) : at[1] = i /\ at[2] \in DOMAIN s[i].steps
  BY <1>6 DEF Range
<1>10. Apart(ss)
  <2>1. \A i \in DOMAIN ss : Distinct(ss[i])
    BY <1>4, <1>6 DEF Distinct
  <2>2. \A i, j \in DOMAIN ss : i # j => Range(ss[i]) \intersect Range(ss[j]) = {}
    <3> SUFFICES ASSUME NEW i \in DOMAIN ss, NEW j \in DOMAIN ss,
                        NEW at \in Range(ss[i]), at \in Range(ss[j])
                 PROVE  i = j
      OBVIOUS
    <3>1. at[1] = i /\ at[1] = j
      BY <1>4, <1>9
    <3> QED
      BY <3>1
  <2> QED
    BY <2>1, <2>2 DEF Apart
<1>11. FlatUpTo(Walk(s), ss, Len(ss), Nat \X Nat)
  BY <1>4, <1>5, Flattened
<1>12. \A x : x \in Range(Walk(s)) <=> \E i \in DOMAIN s : x \in Range(ss[i])
  BY <1>3, <1>4, <1>11 DEF FlatUpTo
<1>13. \A i \in DOMAIN s : \A j \in DOMAIN s[i].steps : <<i, j>> \in Range(Walk(s))
  BY <1>8, <1>12
<1> QED
  BY <1>9, <1>10, <1>11, <1>12, <1>13 DEF FlatUpTo

(* Among keeps exactly the places asked for, none of them twice. *)
LEMMA AmongIs ==
  ASSUME NEW X, NEW w \in Seq(X), Distinct(w), NEW P
  PROVE  /\ Among(w, P) \in Seq(X)
         /\ Distinct(Among(w, P))
         /\ Range(Among(w, P)) = Range(w) \intersect P
<1> DEFINE ss == [n \in DOMAIN w |-> IF w[n] \in P THEN <<w[n]>> ELSE <<>>]
<1>1. \A n \in DOMAIN w : ss[n] \in Seq(X)
  OBVIOUS
<1>2. Len(w) \in Nat /\ DOMAIN w = 1 .. Len(w)
  OBVIOUS
<1>3. ss \in Seq(Seq(X)) /\ Len(ss) = Len(w) /\ DOMAIN ss = DOMAIN w
  BY <1>1, <1>2
<1>4. Among(w, P) = FlattenSeq(ss)
  BY DEF Among
<1>5. \A n \in DOMAIN w : Range(ss[n]) = IF w[n] \in P THEN {w[n]} ELSE {}
  BY DEF Range
<1>6. \A n \in DOMAIN w : Distinct(ss[n])
  BY DEF Distinct
<1> HIDE DEF ss
<1>7. Apart(ss)
  BY <1>3, <1>5, <1>6 DEF Apart, Distinct
<1>8. FlatUpTo(Among(w, P), ss, Len(ss), X)
  BY <1>3, <1>4, Flattened
<1>9. Range(Among(w, P)) = Range(w) \intersect P
  <2>1. \A x : x \in Range(Among(w, P)) <=> \E n \in DOMAIN w : x \in Range(ss[n])
    BY <1>2, <1>3, <1>8 DEF FlatUpTo
  <2>2. \A x : (\E n \in DOMAIN w : x \in Range(ss[n])) <=> x \in Range(w) /\ x \in P
    BY <1>5 DEF Range
  <2> QED
    BY <2>1, <2>2
<1> QED
  BY <1>7, <1>8, <1>9 DEF FlatUpTo

(* Every document yields a sequence of scenarios, its rules flattened. *)
LEMMA ScenariosTyped ==
  ASSUME NEW doc \in DocumentType
  PROVE  ScenariosOf(doc) \in Seq(ScenarioType)
<1> DEFINE Part(child) == CASE child.kind = "background" -> <<>>
                            [] child.kind = "scenario" -> child.scenarios
                            [] child.kind = "rule" -> FlattenRule(child)
           ss == [i \in DOMAIN doc.children |-> Part(doc.children[i])]
<1>1. ASSUME NEW child \in ChildType PROVE Part(child) \in Seq(ScenarioType)
  <2>1. child.scenarios \in Seq(ScenarioType) /\ child.tags \in SUBSET STRING
    BY DEF ChildType
  <2>2. ASSUME NEW s \in ScenarioType
        PROVE  [s EXCEPT !.tags = @ \union child.tags] \in ScenarioType
    BY <2>1 DEF ScenarioType
  <2>3. \A i \in DOMAIN child.scenarios : child.scenarios[i] \in ScenarioType
    BY <2>1
  <2>4. FlattenRule(child) \in Seq(ScenarioType)
    <3> DEFINE Tagged(s) == [s EXCEPT !.tags = @ \union child.tags]
    <3>1. \A i \in DOMAIN child.scenarios : Tagged(child.scenarios[i]) \in ScenarioType
      BY <2>2, <2>3
    <3>2. FlattenRule(child) = [i \in DOMAIN child.scenarios |-> Tagged(child.scenarios[i])]
      BY DEF FlattenRule
    <3>3. PICK n \in Nat : DOMAIN child.scenarios = 1 .. n
      BY <2>1
    <3> HIDE DEF Tagged
    <3> QED
      BY <3>1, <3>2, <3>3
  <2>5. child.kind \in {"background", "scenario", "rule"}
    BY DEF ChildType
  <2>6. CASE child.kind = "background"
    BY <2>6
  <2>7. CASE child.kind = "scenario"
    BY <2>1, <2>7
  <2>8. CASE child.kind = "rule"
    BY <2>4, <2>8
  <2> QED
    BY <2>5, <2>6, <2>7, <2>8
<1>2. doc.children \in Seq(ChildType)
  BY DEF DocumentType
<1>3. ScenariosOf(doc) = FlattenSeq(ss)
  BY DEF ScenariosOf
<1> HIDE DEF Part
<1>4. ss \in Seq(Seq(ScenarioType))
  <2>1. \A i \in DOMAIN doc.children : doc.children[i] \in ChildType
    BY <1>2
  <2>2. \A i \in DOMAIN doc.children : Part(doc.children[i]) \in Seq(ScenarioType)
    BY <2>1, <1>1
  <2> QED
    BY <1>2, <2>2
<1> QED
  BY <1>3, <1>4, Flattened DEF FlatUpTo

Kinds == {"context", "action", "claim", "skipped", "raw"}

Reading == [by : {"mathtex", "forthel", "raw"}, kind : Kinds]

(* Every step gets one of the chain's readings. *)
LEMMA Reads ==
  ASSUME NEW step \in StepType, NEW naproche_ran \in BOOLEAN
  PROVE  Interpret(step, naproche_ran) \in Reading
<1>1. MathKind(step.keyword) \in Kinds
  <2>1. CASE step.keyword = "given"
    BY <2>1 DEF MathKind, Kinds
  <2>2. CASE step.keyword # "given" /\ step.keyword = "when"
    BY <2>2 DEF MathKind, Kinds
  <2>3. CASE step.keyword # "given" /\ step.keyword # "when"
    BY <2>3 DEF MathKind, Kinds
  <2> QED
    BY <2>1, <2>2, <2>3
<1>2. MathTexReading(step) \in Seq(Reading)
  <2>1. [by |-> "mathtex", kind |-> MathKind(step.keyword)] \in Reading
    BY <1>1 DEF Reading, Kinds
  <2> QED
    BY <2>1 DEF MathTexReading
<1>3. ForTheLReading(step, naproche_ran) \in Seq(Reading)
  <2>1. [by |-> "forthel", kind |-> IF naproche_ran THEN "claim" ELSE "skipped"] \in Reading
    BY DEF Reading, Kinds
  <2> QED
    BY <2>1 DEF ForTheLReading
<1>4. RawReading \in Seq(Reading) /\ Len(RawReading) = 1
  <2>1. [by |-> "raw", kind |-> "raw"] \in Reading
    BY DEF Reading, Kinds
  <2> QED
    BY <2>1 DEF RawReading
<1>5. ASSUME NEW a \in Seq(Reading), NEW b \in Seq(Reading), NEW c \in Seq(Reading), Len(c) = 1
      PROVE  Head(a \o b \o c) \in Reading
  <2>1. a \o b \o c \in Seq(Reading) /\ Len(a \o b \o c) = Len(a) + Len(b) + Len(c)
    OBVIOUS
  <2>2. a \o b \o c # <<>>
    BY <2>1, <1>5
  <2> QED
    BY <2>1, <2>2
<1> QED
  BY <1>2, <1>3, <1>4, <1>5 DEF Interpret

-----------------------------------------------------------------------------
Place == Nat \X Nat

Readings == UNION {[P -> Reading] : P \in SUBSET Place}

File == [readable : BOOLEAN, scenarios : Seq(ScenarioType), read : Readings]

Verdict == [file : Nat, at : Place, ok : BOOLEAN, body : {None, "translated", "empty"}]

Translation == [file : Nat, at : Place, outcome : {"ok", "failed", "skipped"}]

Counters == [ok : Nat, fail : Nat, obligations : Nat]

PlacesOf(i) == Range(Walk(docs[i].scenarios))

AllPlaces == UNION {PlacesOf(i) : i \in DOMAIN docs}

Typed ==
  /\ pc \in {"start", "read", "interpret", "bridge", "check", "done", "raised"}
  /\ options \in Options
  /\ naproche \in BOOLEAN
  /\ which \in {None} \union BOOLEAN
  /\ docs \in Seq(File) /\ Len(docs) <= FileCount
  /\ walk \in Seq(Place) /\ rest \in Seq(Place)
  /\ calls \in Nat
  /\ rows \in Seq(Verdict)
  /\ totals \in Counters
  /\ parse_failed \in BOOLEAN
  /\ translations \in Seq(Translation)
  /\ exit \in {None, 0, 1, 2, 3}
  /\ (exit = None) <=> pc \notin {"done", "raised"}

(* The files gone through, and the one under way. *)
FileInv ==
  /\ pc = "start" => docs = <<>>
  /\ parse_failed <=> \E i \in DOMAIN docs : ~docs[i].readable
  /\ pc \in {"interpret", "bridge", "check"} => Len(docs) # 0 /\ docs[Len(docs)].readable

(* What is left of the two loops over the file under way. *)
LoopInv ==
  /\ pc = "bridge" =>
       /\ Distinct(walk) /\ Range(walk) \subseteq PlacesOf(Len(docs))
       /\ walk # <<>> => options.bridge
  /\ pc = "check" =>
       /\ Distinct(rest)
       /\ Range(rest) \subseteq
            Range(Extract(options.prover, docs[Len(docs)].scenarios, docs[Len(docs)].read))
  /\ Range(walk) \union Range(rest) \subseteq AllPlaces

Good(rs) == {k \in DOMAIN rs : rs[k].ok}

Bodiless(rs) == {k \in DOMAIN rs : rs[k].body = None}

(* The summary line counts the rows. *)
CountInv ==
  /\ calls <= Len(rows)
  /\ totals.ok + totals.fail = Len(rows)
  /\ totals.obligations + Cardinality(Bodiless(rows)) = Len(rows)
  /\ totals.ok = Cardinality(Good(rows))

ExitInv == Completed => exit = ExitCode

-----------------------------------------------------------------------------
(* What rows and translations say of one place of one file. *)
RowsAt(rs, i, at) == {k \in DOMAIN rs : rs[k].file = i /\ rs[k].at = at}

OutcomesAt(ts, i, at) ==
  {ts[k].outcome : k \in {j \in DOMAIN ts : ts[j].file = i /\ ts[j].at = at}}

Untouched(rs, ts, i, at) == RowsAt(rs, i, at) = {} /\ OutcomesAt(ts, i, at) = {}

(* The bridge leaves a claim with one verdict, or with none if it said     *)
(* nothing about it.                                                       *)
Bridged(rs, ts, i, at) ==
  \/ OutcomesAt(ts, i, at) \subseteq {"skipped"} /\ RowsAt(rs, i, at) = {}
  \/ /\ OutcomesAt(ts, i, at) = {"ok"}
     /\ \E k \in DOMAIN rs : RowsAt(rs, i, at) = {k} /\ rs[k].body = "translated"
  \/ /\ OutcomesAt(ts, i, at) = {"failed"}
     /\ \E k \in DOMAIN rs : RowsAt(rs, i, at) = {k} /\ ~rs[k].ok

Answered(ts, i, at) == OutcomesAt(ts, i, at) \intersect {"ok", "failed"} # {}

(* What EachClaimOnce says of the place; owed are the prover's own claims. *)
Settled(owed, rs, ts, i, at) ==
  /\ (at \in owed \/ Answered(ts, i, at)) => \E k \in DOMAIN rs : RowsAt(rs, i, at) = {k}
  /\ ~(at \in owed \/ Answered(ts, i, at)) => RowsAt(rs, i, at) = {}
  /\ "ok" \in OutcomesAt(ts, i, at) => \A k \in RowsAt(rs, i, at) : rs[k].body = "translated"
  /\ "failed" \in OutcomesAt(ts, i, at) => \A k \in RowsAt(rs, i, at) : ~rs[k].ok

OwedIn(i) == Range(Extract(options.prover, docs[i].scenarios, docs[i].read))

(* Nothing is said yet of files to come, and of one just read. *)
FreshInv ==
  /\ \A k \in DOMAIN rows :
       rows[k].file \in 1 .. Len(docs) /\ (pc = "interpret" => rows[k].file # Len(docs))
  /\ \A k \in DOMAIN translations :
       /\ translations[k].file \in 1 .. Len(docs)
       /\ pc = "interpret" => translations[k].file # Len(docs)
       /\ options.bridge

(* skip holds the names of the answered claims of scenarios tagged @lean.  *)
SkipInv ==
  pc \in {"bridge", "check"} =>
    /\ \A at \in PlacesOf(Len(docs)) :
         LeanTagged(docs[Len(docs)].scenarios, at) /\ Answered(translations, Len(docs), at)
           => ObligationName(docs[Len(docs)].scenarios, at) \in skip
    /\ \A n \in skip : \E at \in PlacesOf(Len(docs)) :
         /\ n = ObligationName(docs[Len(docs)].scenarios, at)
         /\ Answered(translations, Len(docs), at)

BridgeInv ==
  pc = "bridge" =>
    \A at \in PlacesOf(Len(docs)) :
      IF at \in Range(walk) THEN Untouched(rows, translations, Len(docs), at)
      ELSE Bridged(rows, translations, Len(docs), at)

CheckInv ==
  pc = "check" =>
    /\ \A at \in Range(rest) : Bridged(rows, translations, Len(docs), at)
    /\ DistinctNames(docs[Len(docs)].scenarios) =>
         \A at \in PlacesOf(Len(docs)) \ Range(rest) :
           Settled(OwedIn(Len(docs)), rows, translations, Len(docs), at)

DoneInv ==
  \A i \in DOMAIN docs :
    /\ docs[i].readable /\ (i < Len(docs) \/ pc \in {"read", "done"})
    /\ DistinctNames(docs[i].scenarios)
    => \A at \in PlacesOf(i) : Settled(OwedIn(i), rows, translations, i, at)

IInv ==
  /\ Typed /\ FileInv /\ LoopInv /\ CountInv /\ ExitInv
  /\ FreshInv /\ SkipInv /\ BridgeInv /\ CheckInv /\ DoneInv

-----------------------------------------------------------------------------
(* What a new row and a new line do to what is said of a place. *)
LEMMA RowAppended ==
  ASSUME NEW rs \in Seq(Verdict), NEW r \in Verdict
  PROVE  /\ Append(rs, r) \in Seq(Verdict) /\ Len(Append(rs, r)) = Len(rs) + 1
         /\ DOMAIN Append(rs, r) = DOMAIN rs \union {Len(rs) + 1}
         /\ \A k \in DOMAIN rs : k # Len(rs) + 1 /\ Append(rs, r)[k] = rs[k]
         /\ Append(rs, r)[Len(rs) + 1] = r
         /\ \A i, at : RowsAt(Append(rs, r), i, at) =
              RowsAt(rs, i, at) \union IF r.file = i /\ r.at = at THEN {Len(rs) + 1} ELSE {}
<1>1. Append(rs, r) \in Seq(Verdict) /\ Len(Append(rs, r)) = Len(rs) + 1
  OBVIOUS
<1>2. DOMAIN Append(rs, r) = DOMAIN rs \union {Len(rs) + 1}
  OBVIOUS
<1>3. \A k \in DOMAIN rs : k # Len(rs) + 1 /\ Append(rs, r)[k] = rs[k]
  OBVIOUS
<1>4. Append(rs, r)[Len(rs) + 1] = r
  OBVIOUS
<1> QED
  BY <1>1, <1>2, <1>3, <1>4 DEF RowsAt

(* What a new line of forthel_translations.jsonl does to the outcomes of   *)
(* a place.                                                                *)
LEMMA LineAppended ==
  ASSUME NEW ts \in Seq(Translation), NEW t \in Translation
  PROVE  /\ Append(ts, t) \in Seq(Translation)
         /\ DOMAIN Append(ts, t) = DOMAIN ts \union {Len(ts) + 1}
         /\ \A k \in DOMAIN ts : k # Len(ts) + 1 /\ Append(ts, t)[k] = ts[k]
         /\ Append(ts, t)[Len(ts) + 1] = t
         /\ \A i, at : OutcomesAt(Append(ts, t), i, at) =
              OutcomesAt(ts, i, at) \union IF t.file = i /\ t.at = at THEN {t.outcome} ELSE {}
<1>1. Append(ts, t) \in Seq(Translation)
  OBVIOUS
<1>2. DOMAIN Append(ts, t) = DOMAIN ts \union {Len(ts) + 1}
  OBVIOUS
<1>3. \A k \in DOMAIN ts : k # Len(ts) + 1 /\ Append(ts, t)[k] = ts[k]
  OBVIOUS
<1>4. Append(ts, t)[Len(ts) + 1] = t
  OBVIOUS
<1> QED
  BY <1>1, <1>2, <1>3, <1>4 DEF OutcomesAt

SameStory(rs, ts, rs2, ts2, i, at) ==
  /\ RowsAt(rs2, i, at) = RowsAt(rs, i, at)
  /\ \A k \in RowsAt(rs, i, at) : k \in DOMAIN rs2 /\ rs2[k] = rs[k]
  /\ OutcomesAt(ts2, i, at) = OutcomesAt(ts, i, at)

(* Where nothing new was said of a place, all that holds of it stays. *)
LEMMA StoryStays ==
  ASSUME NEW rs, NEW ts, NEW rs2, NEW ts2, NEW i, NEW at,
         SameStory(rs, ts, rs2, ts2, i, at)
  PROVE  /\ Untouched(rs, ts, i, at) => Untouched(rs2, ts2, i, at)
         /\ Bridged(rs, ts, i, at) => Bridged(rs2, ts2, i, at)
         /\ Answered(ts2, i, at) <=> Answered(ts, i, at)
         /\ \A owed : Settled(owed, rs, ts, i, at) => Settled(owed, rs2, ts2, i, at)
<1>1. Untouched(rs, ts, i, at) => Untouched(rs2, ts2, i, at)
  BY DEF SameStory, Untouched
<1>2. Bridged(rs, ts, i, at) => Bridged(rs2, ts2, i, at)
  BY DEF SameStory, Bridged
<1>3. Answered(ts2, i, at) <=> Answered(ts, i, at)
  BY DEF SameStory, Answered
<1>4. ASSUME NEW owed, Settled(owed, rs, ts, i, at) PROVE Settled(owed, rs2, ts2, i, at)
  BY <1>3, <1>4 DEF SameStory, Settled
<1> QED
  BY <1>1, <1>2, <1>3, <1>4

(* Rows and lines left alone tell the same story of every place. *)
LEMMA NothingSaid ==
  ASSUME NEW rs, NEW ts, NEW i, NEW at
  PROVE  SameStory(rs, ts, rs, ts, i, at)
BY DEF SameStory, RowsAt

(* A place of another file, or another place of the file. *)
LEMMA ElsewhereSaid ==
  ASSUME NEW rs \in Seq(Verdict), NEW r \in Verdict, NEW ts \in Seq(Translation),
         NEW t \in Translation, NEW i, NEW at,
         ~(r.file = i /\ r.at = at), ~(t.file = i /\ t.at = at)
  PROVE  /\ SameStory(rs, ts, Append(rs, r), ts, i, at)
         /\ SameStory(rs, ts, rs, Append(ts, t), i, at)
         /\ SameStory(rs, ts, Append(rs, r), Append(ts, t), i, at)
<1>1. RowsAt(Append(rs, r), i, at) = RowsAt(rs, i, at)
  <2>1. RowsAt(Append(rs, r), i, at) =
          RowsAt(rs, i, at) \union IF r.file = i /\ r.at = at THEN {Len(rs) + 1} ELSE {}
    BY RowAppended
  <2> QED
    BY <2>1
<1>2. OutcomesAt(Append(ts, t), i, at) = OutcomesAt(ts, i, at)
  <2>1. OutcomesAt(Append(ts, t), i, at) =
          OutcomesAt(ts, i, at) \union IF t.file = i /\ t.at = at THEN {t.outcome} ELSE {}
    BY LineAppended
  <2> QED
    BY <2>1
<1>3. \A k \in RowsAt(rs, i, at) : k \in DOMAIN rs
  BY DEF RowsAt
<1>4. \A k \in RowsAt(rs, i, at) : k \in DOMAIN Append(rs, r) /\ Append(rs, r)[k] = rs[k]
  BY <1>3, RowAppended
<1> QED
  BY <1>1, <1>2, <1>3, <1>4 DEF SameStory

(* A new row is one more of the good ones, or of those without a body, or  *)
(* neither.                                                                *)
LEMMA Counted ==
  ASSUME NEW rs \in Seq(Verdict), NEW r \in Verdict
  PROVE  /\ Cardinality(Good(rs)) \in Nat /\ Cardinality(Bodiless(rs)) \in Nat
         /\ Cardinality(Good(Append(rs, r))) = Cardinality(Good(rs)) + IF r.ok THEN 1 ELSE 0
         /\ Cardinality(Bodiless(Append(rs, r))) =
              Cardinality(Bodiless(rs)) + IF r.body = None THEN 1 ELSE 0
<1>1. Len(rs) \in Nat /\ DOMAIN rs = 1 .. Len(rs)
  OBVIOUS
<1>2. IsFiniteSet(DOMAIN rs)
  BY <1>1, FS_Interval
<1>3. IsFiniteSet(Good(rs)) /\ IsFiniteSet(Bodiless(rs))
  BY <1>2, FS_Subset DEF Good, Bodiless
<1>4. Good(Append(rs, r)) = Good(rs) \union IF r.ok THEN {Len(rs) + 1} ELSE {}
  BY RowAppended DEF Good
<1>5. Bodiless(Append(rs, r)) = Bodiless(rs) \union IF r.body = None THEN {Len(rs) + 1} ELSE {}
  BY RowAppended DEF Bodiless
<1>6. Len(rs) + 1 \notin Good(rs) /\ Len(rs) + 1 \notin Bodiless(rs)
  BY <1>1 DEF Good, Bodiless
<1>7. Cardinality(Good(rs)) \in Nat /\ Cardinality(Bodiless(rs)) \in Nat
  BY <1>3, FS_CardinalityType
<1>8. ASSUME NEW S, IsFiniteSet(S), NEW x, x \notin S
      PROVE  Cardinality(S \union {x}) = Cardinality(S) + 1
  BY <1>8, FS_AddElement
<1>9. Cardinality(Good(Append(rs, r))) = Cardinality(Good(rs)) + IF r.ok THEN 1 ELSE 0
  <2>1. CASE r.ok
    BY <1>3, <1>4, <1>6, <1>8, <2>1
  <2>2. CASE ~r.ok
    BY <1>4, <1>7, <2>2
  <2> QED
    BY <2>1, <2>2
<1>10. Cardinality(Bodiless(Append(rs, r))) =
         Cardinality(Bodiless(rs)) + IF r.body = None THEN 1 ELSE 0
  <2>1. CASE r.body = None
    BY <1>3, <1>5, <1>6, <1>8, <2>1
  <2>2. CASE r.body # None
    BY <1>5, <1>7, <2>2
  <2> QED
    BY <2>1, <2>2
<1> QED
  BY <1>7, <1>9, <1>10

-----------------------------------------------------------------------------
(* None is none of the values it stands beside. *)
LEMMA NoneIs == /\ None \notin Nat /\ None # TRUE /\ None # FALSE
                /\ None # "translated" /\ None # "empty"
BY CheckAssumption, NoneAssumption

(* The command starts in the invariant. *)
LEMMA InitHolds == Init => IInv
<1> SUFFICES ASSUME Init PROVE IInv
  OBVIOUS
<1>1. Typed
  <2>1. docs \in Seq(File) /\ Len(docs) = 0 /\ rows \in Seq(Verdict)
        /\ walk \in Seq(Place) /\ rest \in Seq(Place) /\ translations \in Seq(Translation)
    BY DEF Init
  <2>2. totals \in Counters
    BY DEF Init, Counters
  <2>3. FileCount \in Nat
    BY CheckAssumption, NoneAssumption
  <2>4. which \in {None} \union BOOLEAN /\ parse_failed \in BOOLEAN /\ calls \in Nat
    BY DEF Init
  <2> QED
    BY <2>1, <2>2, <2>3, <2>4 DEF Init, Typed
<1>2. FileInv
  BY DEF Init, FileInv
<1>3. LoopInv
  BY DEF Init, LoopInv, Range
<1>4. CountInv
  <2>1. Good(rows) = {} /\ Bodiless(rows) = {}
    BY DEF Init, Good, Bodiless
  <2> QED
    BY <2>1, FS_EmptySet DEF Init, CountInv
<1>5. ExitInv
  BY DEF Init, ExitInv, Completed
<1>6. FreshInv /\ SkipInv /\ BridgeInv /\ CheckInv /\ DoneInv
  BY DEF Init, FreshInv, SkipInv, BridgeInv, CheckInv, DoneInv
<1> QED
  BY <1>1, <1>2, <1>3, <1>4, <1>5, <1>6 DEF IInv

(* The document under way. *)
LEMMA Current ==
  ASSUME Typed, Len(docs) # 0
  PROVE  /\ Len(docs) \in DOMAIN docs
         /\ docs[Len(docs)] \in File
         /\ docs[Len(docs)].scenarios \in Seq(ScenarioType)
<1>1. docs \in Seq(File)
  BY DEF Typed
<1>2. Len(docs) \in DOMAIN docs /\ docs[Len(docs)] \in File
  BY <1>1
<1> QED
  BY <1>2 DEF File

(* What Extract yields. *)
LEMMA ExtractIs ==
  ASSUME NEW s \in Seq(ScenarioType), NEW r
  PROVE  \A prover :
           /\ Extract(prover, s, r) \in Seq(Place)
           /\ Distinct(Extract(prover, s, r))
           /\ Range(Extract(prover, s, r)) \subseteq Range(Walk(s))
           /\ prover = "lean4" =>
                \A at \in Range(Extract(prover, s, r)) : LeanTagged(s, at)
<1> TAKE prover
<1>1. Walk(s) \in Seq(Place) /\ Distinct(Walk(s))
  BY WalkIs DEF Place
<1>2. \A P : /\ Among(Walk(s), P) \in Seq(Place) /\ Distinct(Among(Walk(s), P))
             /\ Range(Among(Walk(s), P)) = Range(Walk(s)) \intersect P
  BY <1>1, AmongIs
<1>3. CASE prover = "lean4"
  <2> DEFINE P == {at \in Claims(s, r) : LeanTagged(s, at)}
  <2>1. Extract(prover, s, r) = Among(Walk(s), P)
    BY <1>3 DEF Extract, LeanExtract
  <2>2. \A at \in P : LeanTagged(s, at)
    OBVIOUS
  <2> HIDE DEF P
  <2> QED
    BY <1>2, <2>1, <2>2
<1>4. CASE prover # "lean4"
  <2>1. Extract(prover, s, r) = Among(Walk(s), Claims(s, r))
    BY <1>4 DEF Extract, NullExtract
  <2> QED
    BY <1>2, <1>4, <2>1
<1> QED
  BY <1>3, <1>4

(* What the interpretation of a file does to its state. *)
LEMMA Interpreted ==
  ASSUME Typed, FileInv, NEW ran, InterpretFile(ran)
  PROVE  /\ walk' \in Seq(Place) /\ Distinct(walk')
         /\ Range(walk') \subseteq PlacesOf(Len(docs))
         /\ walk' # <<>> => options.bridge
         /\ docs' \in Seq(File) /\ Len(docs') = Len(docs)
         /\ \A i \in DOMAIN docs :
              /\ docs'[i].scenarios = docs[i].scenarios
              /\ docs'[i].readable = docs[i].readable
              /\ i # Len(docs) => docs'[i] = docs[i]
<1>1. Len(docs) # 0 /\ pc = "interpret"
  BY DEF InterpretFile, FileInv
<1>2. Len(docs) \in DOMAIN docs /\ docs[Len(docs)] \in File
      /\ docs[Len(docs)].scenarios \in Seq(ScenarioType)
  BY <1>1, Current
<1> DEFINE s == docs[Len(docs)].scenarios
           answer == [at \in Range(Walk(s)) |-> Interpret(StepAt(s, at), at \in ran)]
           P == {at \in Range(Walk(s)) :
                   options.bridge /\ answer[at] = [by |-> "forthel", kind |-> "claim"]}
<1>3. docs' = [docs EXCEPT ![Len(docs)].read = answer] /\ walk' = Among(Walk(s), P)
  BY DEF InterpretFile, scenarios, current
<1>4. Walk(s) \in Seq(Place) /\ Distinct(Walk(s))
  BY <1>2, WalkIs DEF Place
<1>5. walk' \in Seq(Place) /\ Distinct(walk') /\ Range(walk') \subseteq Range(Walk(s))
      /\ (walk' # <<>> => options.bridge)
  <2>1. \A at \in P : options.bridge
    OBVIOUS
  <2> HIDE DEF P
  <2>2. walk' \in Seq(Place) /\ Distinct(walk') /\ Range(walk') = Range(Walk(s)) \intersect P
    BY <1>3, <1>4, AmongIs
  <2>3. walk' # <<>> => walk'[1] \in Range(walk')
    BY <2>2 DEF Range
  <2> QED
    BY <2>1, <2>2, <2>3
<1>6. answer \in Readings
  <2>1. ASSUME NEW at \in Range(Walk(s)) PROVE answer[at] \in Reading
    <3>1. at[1] \in DOMAIN s /\ at[2] \in DOMAIN s[at[1]].steps
      BY <1>2, WalkIs
    <3>2. s[at[1]] \in ScenarioType
      BY <1>2, <3>1
    <3>3. s[at[1]].steps \in Seq(StepType)
      BY <3>2 DEF ScenarioType
    <3>4. StepAt(s, at) \in StepType
      BY <3>1, <3>3 DEF StepAt
    <3>5. (at \in ran) \in BOOLEAN
      OBVIOUS
    <3> HIDE DEF s
    <3> QED
      BY <3>4, <3>5, Reads
  <2>2. Range(Walk(s)) \in SUBSET Place
    BY <1>4 DEF Range
  <2> HIDE DEF s
  <2>3. answer \in [Range(Walk(s)) -> Reading]
    BY <2>1
  <2> HIDE DEF answer
  <2> QED
    BY <2>2, <2>3 DEF Readings
<1> HIDE DEF answer
<1>7. docs \in Seq(File)
  BY DEF Typed
<1>8. \A i \in DOMAIN docs : i # Len(docs) => docs'[i] = docs[i]
  BY <1>3, <1>7
<1>9. docs'[Len(docs)] = [docs[Len(docs)] EXCEPT !.read = answer]
  BY <1>2, <1>3
<1>10. docs'[Len(docs)] \in File
  BY <1>2, <1>6, <1>9 DEF File
<1>11. docs'[Len(docs)].scenarios = docs[Len(docs)].scenarios
       /\ docs'[Len(docs)].readable = docs[Len(docs)].readable
  BY <1>2, <1>9 DEF File
<1>12. docs' \in Seq(File) /\ Len(docs') = Len(docs)
  <2>1. DOMAIN docs' = DOMAIN docs
    BY <1>3
  <2>2. \A i \in DOMAIN docs : docs'[i] \in File
    BY <1>7, <1>8, <1>10
  <2>3. Len(docs) \in Nat /\ DOMAIN docs = 1 .. Len(docs)
    BY <1>7
  <2>4. docs' = [i \in 1 .. Len(docs) |-> docs'[i]]
    BY <1>3, <2>3
  <2>5. [i \in 1 .. Len(docs) |-> docs'[i]] \in Seq(File)
    BY <2>2, <2>3
  <2>6. Len(docs') = Len(docs)
    BY <2>3, <2>4
  <2> QED
    BY <2>4, <2>5, <2>6
<1> QED
  BY <1>5, <1>8, <1>11, <1>12 DEF PlacesOf

(* The head and the tail of a sequence that repeats nothing. *)
LEMMA HeadAndTail ==
  ASSUME NEW X, NEW w \in Seq(X), w # <<>>, Distinct(w)
  PROVE  /\ Head(w) \in X /\ Head(w) \in Range(w)
         /\ Tail(w) \in Seq(X) /\ Distinct(Tail(w))
         /\ Range(Tail(w)) = Range(w) \ {Head(w)}
<1>1. PICK n \in Nat : n = Len(w) /\ DOMAIN w = 1 .. n /\ n # 0
  OBVIOUS
<1>2. Head(w) = w[1] /\ w[1] \in X /\ 1 \in DOMAIN w
  BY <1>1
<1>3. Tail(w) \in Seq(X) /\ Len(Tail(w)) = n - 1
  BY <1>1
<1>4. \A i \in DOMAIN Tail(w) : i + 1 \in DOMAIN w /\ i + 1 # 1 /\ Tail(w)[i] = w[i + 1]
  BY <1>1
<1>5. \A i \in DOMAIN w : i # 1 => i - 1 \in DOMAIN Tail(w) /\ Tail(w)[i - 1] = w[i]
  BY <1>1
<1>6. Distinct(Tail(w))
  <2> SUFFICES ASSUME NEW i \in DOMAIN Tail(w), NEW j \in DOMAIN Tail(w), Tail(w)[i] = Tail(w)[j]
               PROVE  i = j
    BY DEF Distinct
  <2>1. i + 1 = j + 1
    BY <1>4 DEF Distinct
  <2> QED
    BY <2>1, <1>3
<1>7. Range(Tail(w)) = Range(w) \ {Head(w)}
  <2>1. ASSUME NEW x \in Range(Tail(w)) PROVE x \in Range(w) /\ x # Head(w)
    <3>1. PICK i \in DOMAIN Tail(w) : x = Tail(w)[i]
      BY <2>1 DEF Range
    <3>2. x = w[i + 1] /\ i + 1 \in DOMAIN w /\ i + 1 # 1
      BY <1>4, <3>1
    <3> QED
      BY <3>2, <1>2 DEF Range, Distinct
  <2>2. ASSUME NEW x \in Range(w), x # Head(w) PROVE x \in Range(Tail(w))
    <3>1. PICK i \in DOMAIN w : x = w[i]
      BY <2>2 DEF Range
    <3>2. i # 1
      BY <1>2, <2>2, <3>1
    <3> QED
      BY <1>5, <3>1, <3>2 DEF Range
  <2> QED
    BY <2>1, <2>2
<1> QED
  BY <1>2, <1>3, <1>6, <1>7 DEF Range

-----------------------------------------------------------------------------
(* Steps that leave files, loops, rows and lines as they are. *)
Quiet ==
  \/ FileNotFound \/ NoToolchain \/ Start \/ (\E doc \in Documents : ReadRaises(doc))
  \/ InterpretRaises \/ TranslateRaises \/ CheckRaises
  \/ NextFile \/ Finish \/ NaprocheRemoved \/ UNCHANGED vars

(* What quiet steps change: where the command is, its exit code, and       *)
(* naproche.                                                               *)
LEMMA QuietIs ==
  ASSUME Typed, Quiet
  PROVE  /\ UNCHANGED <<options, which, docs, walk, skip, rest, calls, rows, totals,
                        parse_failed, translations>>
         /\ naproche' \in BOOLEAN
         /\ \/ pc' = pc /\ exit' = exit
            \/ pc = "start" /\ pc' = "done" /\ exit' \in {2, 3}
            \/ pc = "start" /\ pc' = "read" /\ exit' = exit
            \/ pc \in {"read", "interpret", "bridge", "check"} /\ pc' = "raised" /\ exit' = 1
            \/ pc = "check" /\ rest = <<>> /\ pc' = "read" /\ exit' = exit
            \/ pc = "read" /\ pc' = "done" /\ exit' = ExitCode
<1> USE DEF Exit, file, result
<1>1. CASE FileNotFound
  BY <1>1 DEF FileNotFound, Typed
<1>2. CASE NoToolchain
  BY <1>2 DEF NoToolchain, Typed
<1>3. CASE Start
  BY <1>3 DEF Start, Typed
<1>4. CASE \E doc \in Documents : ReadRaises(doc)
  BY <1>4 DEF ReadRaises, Typed
<1>5. CASE InterpretRaises
  BY <1>5 DEF InterpretRaises, Typed
<1>6. CASE TranslateRaises
  BY <1>6 DEF TranslateRaises, Typed
<1>7. CASE CheckRaises
  BY <1>7 DEF CheckRaises, Typed
<1>8. CASE NextFile
  BY <1>8 DEF NextFile, Typed
<1>9. CASE Finish
  BY <1>9 DEF Finish, Typed
<1>10. CASE NaprocheRemoved
  BY <1>10 DEF NaprocheRemoved, Typed
<1>11. CASE UNCHANGED vars
  BY <1>11 DEF vars, Typed
<1> QED
  BY <1>1, <1>2, <1>3, <1>4, <1>5, <1>6, <1>7, <1>8, <1>9, <1>10, <1>11 DEF Quiet

(* Quiet steps keep the invariant; the last of them leaves with ExitCode. *)
LEMMA QuietStep == IInv /\ Quiet => IInv'
<1> SUFFICES ASSUME IInv, Quiet PROVE IInv'
  OBVIOUS
<1> USE DEF IInv
<1>1. UNCHANGED <<options, which, docs, walk, skip, rest, calls, rows, totals,
                  parse_failed, translations>> /\ naproche' \in BOOLEAN
  BY QuietIs
<1>2. \/ pc' = pc /\ exit' = exit
      \/ pc = "start" /\ pc' = "done" /\ exit' \in {2, 3}
      \/ pc = "start" /\ pc' = "read" /\ exit' = exit
      \/ pc \in {"read", "interpret", "bridge", "check"} /\ pc' = "raised" /\ exit' = 1
      \/ pc = "check" /\ rest = <<>> /\ pc' = "read" /\ exit' = exit
      \/ pc = "read" /\ pc' = "done" /\ exit' = ExitCode
  BY QuietIs
<1>3. ExitCode \in {0, 1, 2} /\ ExitCode' = ExitCode
  BY <1>1 DEF ExitCode
<1>4. exit' \in {None, 0, 1, 2, 3} /\ ((exit' = None) <=> pc' \notin {"done", "raised"})
      /\ pc' \in {"start", "read", "interpret", "bridge", "check", "done", "raised"}
  <2>1. None \notin {0, 1, 2, 3}
    BY NoneIs
  <2> QED
    BY <1>2, <1>3, <2>1 DEF Typed
<1>5. Typed'
  BY <1>1, <1>4 DEF Typed
<1>6. FileInv'
  BY <1>1, <1>2 DEF FileInv
<1>7. LoopInv'
  BY <1>1, <1>2 DEF LoopInv, AllPlaces, PlacesOf
<1>8. CountInv'
  BY <1>1 DEF CountInv, Good, Bodiless
<1>9. ExitInv'
  <2> SUFFICES ASSUME Completed' PROVE exit' = ExitCode
    BY <1>3 DEF ExitInv
  <2>1. pc' = "done" /\ Len(docs) = FileCount /\ exit' # 3
    BY <1>1 DEF Completed, current
  <2>2. CASE pc' = pc /\ exit' = exit
    BY <2>1, <2>2 DEF ExitInv, Completed, current
  <2>3. CASE pc = "start"
    BY <2>1, <2>3, CheckAssumption DEF FileInv
  <2> QED
    BY <1>2, <2>1, <2>2, <2>3
<1>10. FreshInv'
  BY <1>1, <1>2 DEF FreshInv
<1>11. SkipInv'
  BY <1>1, <1>2 DEF SkipInv, PlacesOf
<1>12. BridgeInv'
  BY <1>1, <1>2 DEF BridgeInv, PlacesOf
<1>13. CheckInv'
  BY <1>1, <1>2 DEF CheckInv, PlacesOf, OwedIn
<1>14. DoneInv'
  <2> SUFFICES ASSUME NEW i \in DOMAIN docs,
                      docs[i].readable /\ (i < Len(docs) \/ pc' \in {"read", "done"}),
                      DistinctNames(docs[i].scenarios), NEW at \in PlacesOf(i)
               PROVE  Settled(OwedIn(i), rows, translations, i, at)
    BY <1>1 DEF DoneInv, PlacesOf, OwedIn
  <2>1. CASE i < Len(docs) \/ pc \in {"read", "done"}
    BY <2>1 DEF DoneInv
  <2>2. CASE ~(i < Len(docs)) /\ pc \notin {"read", "done"}
    <3>1. i = Len(docs)
      BY <2>2 DEF Typed
    <3>2. pc = "start" \/ (pc = "check" /\ rest = <<>>)
      BY <1>2, <2>2
    <3>3. pc # "start"
      BY DEF FileInv
    <3>4. Range(rest) = {}
      BY <3>2, <3>3 DEF Range
    <3> QED
      BY <3>1, <3>2, <3>3, <3>4 DEF CheckInv
  <2> QED
    BY <2>1, <2>2
<1> QED
  BY <1>5, <1>6, <1>7, <1>8, <1>9, <1>10, <1>11, <1>12, <1>13, <1>14

(* What the bridge left is settled, unless the prover has yet to speak. *)
LEMMA SettledByBridge ==
  ASSUME NEW owed, NEW rs, NEW ts, NEW i, NEW at, Bridged(rs, ts, i, at),
         at \notin owed \/ Answered(ts, i, at)
  PROVE  Settled(owed, rs, ts, i, at)
<1>1. CASE OutcomesAt(ts, i, at) \subseteq {"skipped"} /\ RowsAt(rs, i, at) = {}
  <2>1. "ok" \notin OutcomesAt(ts, i, at) /\ "failed" \notin OutcomesAt(ts, i, at)
    BY <1>1
  <2>2. ~Answered(ts, i, at)
    BY <2>1 DEF Answered
  <2> QED
    BY <1>1, <2>1, <2>2 DEF Settled
<1>2. CASE /\ OutcomesAt(ts, i, at) = {"ok"}
           /\ \E k \in DOMAIN rs : RowsAt(rs, i, at) = {k} /\ rs[k].body = "translated"
  <2>1. Answered(ts, i, at) /\ "failed" \notin OutcomesAt(ts, i, at)
    BY <1>2 DEF Answered
  <2> QED
    BY <1>2, <2>1 DEF Settled
<1>3. CASE /\ OutcomesAt(ts, i, at) = {"failed"}
           /\ \E k \in DOMAIN rs : RowsAt(rs, i, at) = {k} /\ ~rs[k].ok
  <2>1. Answered(ts, i, at) /\ "ok" \notin OutcomesAt(ts, i, at)
    BY <1>3 DEF Answered
  <2> QED
    BY <1>3, <2>1 DEF Settled
<1> QED
  BY <1>1, <1>2, <1>3 DEF Bridged

-----------------------------------------------------------------------------
(* A file is read, or cannot be. *)
LEMMA Grown ==
  ASSUME IInv, NEW d \in File, current < FileCount, docs' = Append(docs, d),
         pc = "read", pc' = (IF d.readable THEN "interpret" ELSE "read"),
         parse_failed' = (parse_failed \/ ~d.readable),
         UNCHANGED <<options, naproche, which, file, result, translations, exit>>
  PROVE  IInv'
<1> USE DEF IInv
<1>1. docs \in Seq(File) /\ Len(docs) < FileCount /\ FileCount \in Nat
  BY CheckAssumption DEF Typed, current
<1>2. /\ docs' \in Seq(File) /\ Len(docs') = Len(docs) + 1
      /\ DOMAIN docs' = DOMAIN docs \union {Len(docs) + 1}
      /\ \A i \in DOMAIN docs : i # Len(docs) + 1 /\ docs'[i] = docs[i]
      /\ docs'[Len(docs) + 1] = d
  BY <1>1
<1>3. Len(docs') <= FileCount
  BY <1>1, <1>2
<1>4. UNCHANGED <<options, naproche, which, walk, skip, rest, calls, rows, totals,
                  translations, exit>>
  BY DEF file, result
<1>5. d.readable \in BOOLEAN /\ pc' \in {"read", "interpret"}
  BY DEF File
<1>6. exit = None /\ exit' = None
  BY <1>4 DEF Typed
<1>7. Typed'
  <2>1. parse_failed' \in BOOLEAN
    OBVIOUS
  <2>2. pc' \in {"start", "read", "interpret", "bridge", "check", "done", "raised"}
        /\ pc' \notin {"done", "raised"}
    BY <1>5
  <2> QED
    BY <1>2, <1>3, <1>4, <1>6, <2>1, <2>2 DEF Typed
<1>8. FileInv'
  <2>1. (\E i \in DOMAIN docs' : ~docs'[i].readable)
          <=> (\E i \in DOMAIN docs : ~docs[i].readable) \/ ~d.readable
    BY <1>2
  <2>2. parse_failed' <=> \E i \in DOMAIN docs' : ~docs'[i].readable
    BY <2>1 DEF FileInv
  <2>3. pc' = "interpret" => Len(docs') # 0 /\ docs'[Len(docs')].readable
    BY <1>1, <1>2
  <2> QED
    BY <1>5, <2>2, <2>3 DEF FileInv
<1>9. LoopInv'
  <2>1. AllPlaces \subseteq AllPlaces'
    BY <1>2 DEF AllPlaces, PlacesOf
  <2> QED
    BY <1>4, <1>5, <2>1 DEF LoopInv
<1>10. CountInv'
  BY <1>4 DEF CountInv
<1>11. ExitInv'
  BY <1>5 DEF ExitInv, Completed
<1>12. FreshInv'
  <2>1. \A n \in 1 .. Len(docs) : n \in 1 .. Len(docs') /\ n # Len(docs')
    BY <1>1, <1>2
  <2> QED
    BY <1>4, <2>1 DEF FreshInv
<1>13. SkipInv' /\ BridgeInv' /\ CheckInv'
  BY <1>5 DEF SkipInv, BridgeInv, CheckInv
<1>14. DoneInv'
  <2> SUFFICES ASSUME NEW i \in DOMAIN docs',
                      docs'[i].readable, i < Len(docs') \/ pc' \in {"read", "done"},
                      DistinctNames(docs'[i].scenarios), NEW at \in PlacesOf(i)'
               PROVE  Settled(OwedIn(i)', rows', translations', i, at)
    BY DEF DoneInv
  <2>1. i \in DOMAIN docs
    BY <1>1, <1>2
  <2>2. docs'[i] = docs[i] /\ PlacesOf(i)' = PlacesOf(i) /\ OwedIn(i)' = OwedIn(i)
    BY <1>2, <1>4, <2>1 DEF PlacesOf, OwedIn
  <2> QED
    BY <1>4, <2>1, <2>2 DEF DoneInv
<1> QED
  BY <1>7, <1>8, <1>9, <1>10, <1>11, <1>12, <1>13, <1>14

(* A file not interpreted yet has no readings. *)
LEMMA NothingRead == <<>> \in Readings
<1>1. <<>> \in [{} -> Reading]
  OBVIOUS
<1>2. {} \in SUBSET Place
  OBVIOUS
<1> QED
  BY <1>1, <1>2 DEF Readings

(* Reading a file, or failing to, keeps the invariant. *)
LEMMA ReadStep == IInv /\ (ReadFails \/ \E doc \in Documents : Read(doc)) => IInv'
<1>1. ASSUME IInv, ReadFails PROVE IInv'
  <2>1. Unreadable \in File /\ ~Unreadable.readable
    BY NothingRead DEF Unreadable, File
  <2>2. parse_failed' = (parse_failed \/ ~Unreadable.readable)
    BY <1>1, <2>1 DEF ReadFails
  <2>3. pc' = (IF Unreadable.readable THEN "interpret" ELSE "read")
    BY <1>1, <2>1 DEF ReadFails
  <2> HIDE DEF Unreadable
  <2> QED
    BY <1>1, <2>1, <2>2, <2>3, Grown DEF ReadFails
<1>2. ASSUME IInv, NEW doc \in Documents, Read(doc) PROVE IInv'
  <2> DEFINE d == [readable |-> TRUE, scenarios |-> ScenariosOf(doc), read |-> <<>>]
  <2>1. ScenariosOf(doc) \in Seq(ScenarioType)
    BY ScenariosTyped, CheckAssumption
  <2>2. d \in File /\ d.readable
    BY <2>1, NothingRead DEF File
  <2>3. parse_failed \in BOOLEAN
    BY <1>2 DEF IInv, Typed
  <2>4. parse_failed' = (parse_failed \/ ~d.readable)
    BY <1>2, <2>3 DEF Read
  <2>5. docs' = Append(docs, d) /\ pc' = (IF d.readable THEN "interpret" ELSE "read")
    BY <1>2 DEF Read
  <2>6. pc = "read" /\ current < FileCount
        /\ UNCHANGED <<options, naproche, which, file, result, translations, exit>>
    BY <1>2 DEF Read
  <2> HIDE DEF d
  <2> QED
    BY <1>2, <2>2, <2>4, <2>5, <2>6, Grown
<1> QED
  BY <1>1, <1>2

(* Interpreting a file keeps the invariant: nothing was said of its        *)
(* places yet.                                                             *)
LEMMA InterpretStep == IInv /\ (\E ran : InterpretFile(ran)) => IInv'
<1> SUFFICES ASSUME IInv, NEW ran, InterpretFile(ran) PROVE IInv'
  OBVIOUS
<1> USE DEF IInv
<1> DEFINE here == Len(docs)
<1>1. /\ walk' \in Seq(Place) /\ Distinct(walk')
      /\ Range(walk') \subseteq PlacesOf(here)
      /\ walk' # <<>> => options.bridge
  BY Interpreted
<1>2. /\ docs' \in Seq(File) /\ Len(docs') = Len(docs)
      /\ \A i \in DOMAIN docs :
           /\ docs'[i].scenarios = docs[i].scenarios
           /\ docs'[i].readable = docs[i].readable
           /\ i # here => docs'[i] = docs[i]
  BY Interpreted
<1>3. /\ pc = "interpret" /\ pc' = "bridge" /\ skip' = {}
      /\ UNCHANGED <<options, naproche, rest, calls, rows, totals, parse_failed, translations,
                     exit>>
  BY DEF InterpretFile, result
<1>4. which' \in {None} \union BOOLEAN
  <2>1. which' = naproche \/ which' = which
    BY DEF InterpretFile
  <2> QED
    BY <2>1 DEF Typed
<1>5. docs \in Seq(File) /\ DOMAIN docs' = DOMAIN docs /\ here # 0 /\ here \in DOMAIN docs
  <2>1. docs \in Seq(File) /\ here # 0
    BY <1>3 DEF Typed, FileInv
  <2> QED
    BY <1>2, <2>1
<1>6. \A i \in DOMAIN docs : PlacesOf(i)' = PlacesOf(i)
  BY <1>2 DEF PlacesOf
<1>7. AllPlaces' = AllPlaces
  BY <1>5, <1>6 DEF AllPlaces
<1> HIDE DEF here
<1>8. Typed'
  BY <1>1, <1>2, <1>3, <1>4 DEF Typed
<1>9. FileInv'
  BY <1>2, <1>3, <1>5 DEF FileInv
<1>10. LoopInv'
  <2>1. Range(walk') \subseteq PlacesOf(Len(docs))'
    BY <1>1, <1>2, <1>5, <1>6 DEF here
  <2>2. PlacesOf(here) \subseteq AllPlaces
    BY <1>5 DEF AllPlaces
  <2>3. Range(rest') \subseteq AllPlaces
    BY <1>3 DEF LoopInv
  <2> QED
    BY <1>1, <1>3, <1>7, <2>1, <2>2, <2>3 DEF LoopInv
<1>11. CountInv'
  BY <1>3 DEF CountInv
<1>12. ExitInv'
  BY <1>3 DEF ExitInv, Completed
<1>13. FreshInv'
  BY <1>2, <1>3 DEF FreshInv
<1>14. \A at : Untouched(rows, translations, here, at)
  BY <1>3 DEF FreshInv, Untouched, RowsAt, OutcomesAt, here
<1>15. \A at : ~Answered(translations, here, at) /\ Bridged(rows, translations, here, at)
  BY <1>14 DEF Untouched, Answered, Bridged
<1>16. Len(docs)' = here
  BY <1>2 DEF here
<1>17. SkipInv'
  BY <1>3, <1>15, <1>16 DEF SkipInv
<1>18. BridgeInv'
  BY <1>3, <1>14, <1>15, <1>16 DEF BridgeInv
<1>19. CheckInv'
  BY <1>3 DEF CheckInv
<1>20. DoneInv'
  <2> SUFFICES ASSUME NEW i \in DOMAIN docs',
                      docs'[i].readable, i < here,
                      DistinctNames(docs'[i].scenarios), NEW at \in PlacesOf(i)'
               PROVE  Settled(OwedIn(i)', rows', translations', i, at)
    BY <1>3, <1>16 DEF DoneInv
  <2>1. i \in DOMAIN docs /\ i \in Nat /\ here \in Nat
    BY <1>5 DEF here
  <2>2. docs'[i] = docs[i] /\ PlacesOf(i)' = PlacesOf(i) /\ OwedIn(i)' = OwedIn(i)
    BY <1>2, <1>3, <2>1 DEF PlacesOf, OwedIn
  <2> QED
    BY <1>3, <2>1, <2>2 DEF DoneInv, here
<1> QED
  BY <1>8, <1>9, <1>10, <1>11, <1>12, <1>13, <1>17, <1>18, <1>19, <1>20

-----------------------------------------------------------------------------
(* The prover's claims that are left when the bridge is through. *)
LEMMA ExtractStep == IInv /\ ExtractObligations => IInv'
<1> SUFFICES ASSUME IInv, ExtractObligations PROVE IInv'
  OBVIOUS
<1> USE DEF IInv
<1> DEFINE here == Len(docs)
<1>1. /\ pc = "bridge" /\ walk = <<>> /\ pc' = "check"
      /\ UNCHANGED <<options, naproche, which, docs, walk, skip, calls, rows, totals, parse_failed,
                     translations, exit>>
  BY DEF ExtractObligations, result
<1>2. here # 0 /\ docs[here].readable
  BY <1>1 DEF FileInv
<1>3. here \in DOMAIN docs /\ docs[here].scenarios \in Seq(ScenarioType)
  BY <1>2, Current
<1>4. rest' = Extract(options.prover, docs[here].scenarios, docs[here].read)
  BY DEF ExtractObligations, scenarios, read, current
<1>5. rest' \in Seq(Place) /\ Distinct(rest') /\ Range(rest') \subseteq PlacesOf(here)
      /\ Range(rest') = OwedIn(here)
  BY <1>3, <1>4, ExtractIs DEF PlacesOf, OwedIn
<1> HIDE DEF here
<1>6. Typed'
  BY <1>1, <1>5 DEF Typed
<1>7. FileInv'
  BY <1>1, <1>2 DEF FileInv, here
<1>8. LoopInv'
  <2>1. AllPlaces' = AllPlaces /\ PlacesOf(here) \subseteq AllPlaces
    BY <1>1, <1>3 DEF AllPlaces, PlacesOf
  <2>2. Range(walk') \subseteq AllPlaces
    BY <1>1 DEF LoopInv
  <2> QED
    BY <1>1, <1>4, <1>5, <2>1, <2>2 DEF LoopInv, here
<1>9. CountInv' /\ ExitInv' /\ FreshInv'
  BY <1>1 DEF CountInv, ExitInv, Completed, FreshInv
<1>10. SkipInv'
  BY <1>1 DEF SkipInv, PlacesOf
<1>11. \A at \in PlacesOf(here) : Bridged(rows, translations, here, at)
  <2>1. Range(walk) = {}
    BY <1>1 DEF Range
  <2> QED
    BY <1>1, <2>1 DEF BridgeInv, here
<1>12. \A at \in PlacesOf(here) \ Range(rest') :
         Settled(OwedIn(here), rows, translations, here, at)
  BY <1>5, <1>11, SettledByBridge
<1>13. CheckInv'
  <2>1. PlacesOf(here)' = PlacesOf(here) /\ OwedIn(here)' = OwedIn(here) /\ Len(docs)' = here
    BY <1>1 DEF PlacesOf, OwedIn, here
  <2>2. \A at \in Range(rest') : at \in PlacesOf(here)
    BY <1>5
  <2> QED
    BY <1>1, <1>11, <1>12, <2>1, <2>2 DEF CheckInv, here, PlacesOf, OwedIn
<1>14. BridgeInv' /\ DoneInv'
  BY <1>1 DEF BridgeInv, DoneInv, PlacesOf, OwedIn
<1> QED
  BY <1>6, <1>7, <1>8, <1>9, <1>10, <1>13, <1>14

-----------------------------------------------------------------------------
(* One more in one of two counters is one more in their sum. *)
LEMMA Moved ==
  ASSUME NEW a \in Nat, NEW b \in Nat, NEW m \in Nat, NEW n \in Nat, a + b = n,
         NEW l \in Nat, m + l = 1
  PROVE  (a + m) + (b + l) = n + 1
OBVIOUS

(* A new row is counted, in the summary line and in its type. *)
LEMMA Counting ==
  ASSUME Typed, CountInv, NEW r \in Verdict, rows' = Append(rows, r),
         calls' \in {calls, calls + 1},
         totals' = [totals EXCEPT !.ok = @ + IF r.ok THEN 1 ELSE 0,
                                  !.fail = @ + IF r.ok THEN 0 ELSE 1,
                                  !.obligations = @ + IF r.body = None THEN 0 ELSE 1]
  PROVE  CountInv' /\ rows' \in Seq(Verdict) /\ totals' \in Counters /\ calls' \in Nat
<1>1. rows \in Seq(Verdict) /\ Len(rows) \in Nat /\ calls \in Nat /\ totals \in Counters
  BY DEF Typed
<1>2. rows' \in Seq(Verdict) /\ Len(rows') = Len(rows) + 1
  BY <1>1, RowAppended
<1>3. r.ok \in BOOLEAN
  BY DEF Verdict
<1>4. totals.ok \in Nat /\ totals.fail \in Nat /\ totals.obligations \in Nat
  BY <1>1 DEF Counters
<1> DEFINE g == IF r.ok THEN 1 ELSE 0
           f == IF r.ok THEN 0 ELSE 1
           b == IF r.body = None THEN 1 ELSE 0
           o == IF r.body = None THEN 0 ELSE 1
<1>5. g \in Nat /\ f \in Nat /\ b \in Nat /\ o \in Nat /\ g + f = 1 /\ b + o = 1
  <2>1. g \in Nat /\ f \in Nat /\ g + f = 1
    BY <1>3
  <2>2. b \in Nat /\ o \in Nat /\ b + o = 1
    OBVIOUS
  <2> QED
    BY <2>1, <2>2
<1>6. totals' = [totals EXCEPT !.ok = @ + g, !.fail = @ + f, !.obligations = @ + o]
  OBVIOUS
<1>7. /\ Cardinality(Good(rows)) \in Nat /\ Cardinality(Bodiless(rows)) \in Nat
      /\ Cardinality(Good(rows')) = Cardinality(Good(rows)) + g
      /\ Cardinality(Bodiless(rows')) = Cardinality(Bodiless(rows)) + b
  BY <1>1, Counted
<1> HIDE DEF g, f, b, o
<1>8. totals'.ok = totals.ok + g /\ totals'.fail = totals.fail + f
      /\ totals'.obligations = totals.obligations + o
  BY <1>1, <1>6 DEF Counters
<1>9. totals' \in Counters
  <2>1. /\ totals.ok + g \in Nat
        /\ totals.fail + f \in Nat
        /\ totals.obligations + o \in Nat
    <3>1. \A m, n \in Nat : m + n \in Nat
      OBVIOUS
    <3>2. g \in Nat /\ f \in Nat /\ o \in Nat
      BY <1>5
    <3> QED
      BY <1>4, <3>1, <3>2
  <2> QED
    BY <1>1, <1>6, <2>1 DEF Counters
<1>10. /\ calls <= Len(rows) /\ totals.ok + totals.fail = Len(rows)
       /\ totals.obligations + Cardinality(Bodiless(rows)) = Len(rows)
       /\ totals.ok = Cardinality(Good(rows))
  BY DEF CountInv
<1>11. calls' <= Len(rows') /\ calls' \in Nat
  BY <1>1, <1>2, <1>10
<1>12. totals'.ok + totals'.fail = Len(rows')
  <2>1. (totals.ok + g) + (totals.fail + f) = Len(rows) + 1
    <3>1. g + f = 1 /\ g \in Nat /\ f \in Nat
      BY <1>5
    <3>2. totals.ok + totals.fail = Len(rows) /\ Len(rows) \in Nat
      BY <1>1, <1>10
    <3> QED
      BY <3>1, <3>2, <1>4, Moved
  <2> QED
    BY <1>2, <1>8, <2>1
<1>13. totals'.obligations + Cardinality(Bodiless(rows')) = Len(rows')
  <2>1. (totals.obligations + o) + (Cardinality(Bodiless(rows)) + b) = Len(rows) + 1
    <3>1. o + b = 1 /\ o \in Nat /\ b \in Nat
      BY <1>5
    <3> QED
      BY <3>1, <1>1, <1>4, <1>7, <1>10, Moved
  <2> QED
    BY <1>2, <1>7, <1>8, <2>1
<1>14. totals'.ok = Cardinality(Good(rows'))
  BY <1>7, <1>8, <1>10
<1> QED
  BY <1>2, <1>9, <1>11, <1>12, <1>13, <1>14 DEF CountInv

-----------------------------------------------------------------------------
(* The head of rest has been skipped or checked: everything else of what   *)
(* was said stays, and the place itself is settled.                        *)
LEMMA CheckedOn ==
  ASSUME IInv, pc = "check", pc' = "check", rest # <<>>, rest' = Tail(rest),
         UNCHANGED <<options, naproche, which, docs, walk, skip, parse_failed, translations, exit>>,
         CountInv', rows' \in Seq(Verdict), totals' \in Counters, calls' \in Nat,
         \A k \in DOMAIN rows' : (k \in DOMAIN rows /\ rows'[k] = rows[k]) \/ rows'[k].file = Len(docs),
         \A i, at : ~(i = Len(docs) /\ at = Head(rest)) =>
           SameStory(rows, translations, rows', translations', i, at),
         DistinctNames(docs[Len(docs)].scenarios) =>
           Settled(OwedIn(Len(docs)), rows', translations', Len(docs), Head(rest))
  PROVE  IInv'
<1> USE DEF IInv
<1> DEFINE here == Len(docs)
<1>1. rest \in Seq(Place) /\ Distinct(rest) /\ here # 0 /\ docs \in Seq(File)
  BY DEF Typed, LoopInv, FileInv
<1>2. /\ Head(rest) \in Range(rest) /\ rest' \in Seq(Place) /\ Distinct(rest')
      /\ Range(rest') = Range(rest) \ {Head(rest)}
  BY <1>1, HeadAndTail
<1>3. here \in DOMAIN docs /\ here \in Nat /\ here \in 1 .. Len(docs)
  BY <1>1
<1>4. \A i : PlacesOf(i)' = PlacesOf(i) /\ OwedIn(i)' = OwedIn(i)
  BY DEF PlacesOf, OwedIn
<1> HIDE DEF here
<1>5. Len(docs)' = here /\ Len(docs) = here
  BY DEF here
<1>6. Typed'
  BY <1>2 DEF Typed
<1>7. FileInv'
  BY DEF FileInv
<1>8. LoopInv'
  <2>1. Range(rest') \subseteq Range(rest) /\ AllPlaces' = AllPlaces
    BY <1>2 DEF AllPlaces, PlacesOf
  <2> QED
    BY <1>2, <2>1 DEF LoopInv
<1>9. ExitInv'
  BY DEF ExitInv, Completed
<1>10. FreshInv'
  BY <1>3, <1>5 DEF FreshInv
<1>11. SkipInv'
  BY <1>4, <1>5 DEF SkipInv
<1>12. BridgeInv'
  BY DEF BridgeInv
<1>13. CheckInv'
  <2>1. ASSUME NEW at \in Range(rest')
        PROVE  Bridged(rows', translations', here, at)
    <3>1. at # Head(rest) /\ at \in Range(rest)
      BY <1>2
    <3>2. SameStory(rows, translations, rows', translations', here, at)
      BY <1>5, <3>1
    <3>3. Bridged(rows, translations, here, at)
      BY <1>5, <3>1 DEF CheckInv
    <3> QED
      BY <3>2, <3>3, StoryStays
  <2>2. ASSUME DistinctNames(docs[here].scenarios), NEW at \in PlacesOf(here) \ Range(rest')
        PROVE  Settled(OwedIn(here), rows', translations', here, at)
    <3>1. CASE at = Head(rest)
      BY <1>5, <2>2, <3>1
    <3>2. CASE at # Head(rest)
      <4>1. at \in PlacesOf(here) \ Range(rest)
        BY <1>2, <2>2, <3>2
      <4>2. Settled(OwedIn(here), rows, translations, here, at)
        BY <1>5, <2>2, <4>1 DEF CheckInv
      <4>3. SameStory(rows, translations, rows', translations', here, at)
        BY <1>5, <3>2
      <4> QED
        BY <4>2, <4>3, StoryStays
    <3> QED
      BY <3>1, <3>2
  <2> QED
    BY <1>4, <1>5, <2>1, <2>2 DEF CheckInv
<1>14. DoneInv'
  <2> SUFFICES ASSUME NEW i \in DOMAIN docs, docs[i].readable, i < here,
                      DistinctNames(docs[i].scenarios), NEW at \in PlacesOf(i)
               PROVE  Settled(OwedIn(i), rows', translations', i, at)
    BY <1>4, <1>5 DEF DoneInv
  <2>1. i # here
    BY <1>1, <1>3
  <2>2. SameStory(rows, translations, rows', translations', i, at)
    BY <1>5, <2>1
  <2>3. Settled(OwedIn(i), rows, translations, i, at)
    BY <1>5 DEF DoneInv
  <2> QED
    BY <2>2, <2>3, StoryStays
<1> QED
  BY <1>6, <1>7, <1>8, <1>9, <1>10, <1>11, <1>12, <1>13, <1>14

(* What holds of the obligation at the head of rest. *)
LEMMA HeadOfRest ==
  ASSUME IInv, pc = "check", rest # <<>>
  PROVE  /\ Head(rest) \in OwedIn(Len(docs)) /\ Head(rest) \in PlacesOf(Len(docs))
         /\ Head(rest) \in Place
         /\ Bridged(rows, translations, Len(docs), Head(rest))
         /\ options.prover = "lean4" => LeanTagged(docs[Len(docs)].scenarios, Head(rest))
         /\ Len(docs) \in DOMAIN docs /\ Len(docs) \in Nat
<1> USE DEF IInv
<1> DEFINE here == Len(docs)
<1>1. rest \in Seq(Place) /\ Distinct(rest) /\ here # 0 /\ docs \in Seq(File)
      /\ Range(rest) \subseteq OwedIn(here)
  BY DEF Typed, LoopInv, FileInv, OwedIn
<1>2. Head(rest) \in Range(rest) /\ Head(rest) \in Place
  BY <1>1, HeadAndTail
<1>3. here \in DOMAIN docs /\ docs[here].scenarios \in Seq(ScenarioType) /\ here \in Nat
  BY <1>1, Current
<1>4. OwedIn(here) \subseteq PlacesOf(here)
      /\ (options.prover = "lean4" => \A at \in OwedIn(here) : LeanTagged(docs[here].scenarios, at))
  BY <1>3, ExtractIs DEF OwedIn, PlacesOf
<1>5. Bridged(rows, translations, here, Head(rest))
  BY <1>2 DEF CheckInv
<1> QED
  BY <1>1, <1>2, <1>3, <1>4, <1>5

(* Passing over a name of the skip list keeps the invariant: with names    *)
(* of their own, the place itself has its verdict.                         *)
LEMMA SkipStep == IInv /\ CheckSkipped => IInv'
<1> SUFFICES ASSUME IInv, CheckSkipped PROVE IInv'
  OBVIOUS
<1> DEFINE here == Len(docs)
           p == Head(rest)
<1>1. /\ pc = "check" /\ pc' = "check" /\ rest # <<>> /\ rest' = Tail(rest)
      /\ UNCHANGED <<options, naproche, which, docs, walk, skip, rows, totals, calls,
                     parse_failed, translations, exit>>
      /\ ObligationName(docs[here].scenarios, p) \in skip
  BY DEF CheckSkipped, result, NameOf, scenarios, current
<1>2. CountInv' /\ rows' \in Seq(Verdict) /\ totals' \in Counters /\ calls' \in Nat
  BY <1>1 DEF IInv, Typed, CountInv
<1>3. \A i, at : SameStory(rows, translations, rows', translations', i, at)
  BY <1>1, NothingSaid
<1>4. p \in PlacesOf(here) /\ Bridged(rows, translations, here, p)
  BY <1>1, HeadOfRest
<1>5. ASSUME DistinctNames(docs[here].scenarios)
      PROVE  Settled(OwedIn(here), rows, translations, here, p)
  <2>1. PICK at \in PlacesOf(here) :
          /\ ObligationName(docs[here].scenarios, p) = ObligationName(docs[here].scenarios, at)
          /\ Answered(translations, here, at)
    BY <1>1 DEF IInv, SkipInv
  <2>2. at = p
    BY <1>4, <1>5, <2>1 DEF DistinctNames, PlacesOf
  <2> QED
    BY <1>4, <2>1, <2>2, SettledByBridge
<1>6. \A k \in DOMAIN rows' : k \in DOMAIN rows /\ rows'[k] = rows[k]
  BY <1>1
<1> HIDE DEF here, p
<1>7. Len(docs) = here /\ Head(rest) = p
  BY DEF here, p
<1>8. DistinctNames(docs[Len(docs)].scenarios) =>
        Settled(OwedIn(Len(docs)), rows', translations', Len(docs), Head(rest))
  BY <1>1, <1>5, <1>7
<1> QED
  BY <1>1, <1>2, <1>3, <1>6, <1>8, CheckedOn

(* Checking an obligation keeps the invariant: a claim of the bridge that  *)
(* Lean would extract is in the skip list, so this one had no verdict.     *)
LEMMA CheckStep == IInv /\ (\E ok \in BOOLEAN : CheckObligation(ok)) => IInv'
<1> SUFFICES ASSUME IInv, NEW ok \in BOOLEAN, CheckObligation(ok) PROVE IInv'
  OBVIOUS
<1> DEFINE here == Len(docs)
           p == Head(rest)
           r == Row(p, ok, "empty")
           t == [file |-> here, at |-> p, outcome |-> "skipped"]
<1>1. /\ pc = "check" /\ pc' = "check" /\ rest # <<>> /\ rest' = Tail(rest)
      /\ UNCHANGED <<options, naproche, which, docs, walk, skip, parse_failed, translations, exit>>
      /\ ObligationName(docs[here].scenarios, p) \notin skip
  BY DEF CheckObligation, NameOf, scenarios, current
<1>2. /\ p \in OwedIn(here) /\ p \in PlacesOf(here) /\ p \in Place
      /\ Bridged(rows, translations, here, p)
      /\ options.prover = "lean4" => LeanTagged(docs[here].scenarios, p)
      /\ here \in DOMAIN docs /\ here \in Nat
  BY <1>1, HeadOfRest
<1>3. r = [file |-> here, at |-> p, ok |-> ok, body |-> "empty"]
  BY DEF Row, current
<1>4. r \in Verdict /\ r.file = here /\ r.at = p /\ r.ok = ok /\ r.body = "empty" /\ r.body # None
  BY <1>2, <1>3, NoneIs DEF Verdict
<1>5. t \in Translation /\ t.file = here /\ t.at = p
  BY <1>2 DEF Translation
<1>6. rows' = Append(rows, r) /\ calls' \in {calls, calls + 1}
  <2>1. calls \in Nat
    BY DEF IInv, Typed
  <2> QED
    BY <2>1 DEF CheckObligation, Emit
<1>7. totals' = [totals EXCEPT !.ok = @ + IF r.ok THEN 1 ELSE 0,
                               !.fail = @ + IF r.ok THEN 0 ELSE 1,
                               !.obligations = @ + IF r.body = None THEN 0 ELSE 1]
  <2>1. totals' = [totals EXCEPT !.ok = @ + IF ok THEN 1 ELSE 0,
                                 !.fail = @ + IF ok THEN 0 ELSE 1,
                                 !.obligations = @ + 1]
    BY DEF CheckObligation, Emit
  <2> QED
    BY <1>4, <2>1
<1> HIDE DEF r, t, here, p
<1>8. rows \in Seq(Verdict) /\ translations \in Seq(Translation)
  BY DEF IInv, Typed
<1>9. CountInv' /\ rows' \in Seq(Verdict) /\ totals' \in Counters /\ calls' \in Nat
  BY <1>4, <1>6, <1>7, Counting DEF IInv
<1>10. /\ DOMAIN rows' = DOMAIN rows \union {Len(rows) + 1}
       /\ \A k \in DOMAIN rows : k # Len(rows) + 1 /\ rows'[k] = rows[k]
       /\ rows'[Len(rows) + 1] = r
       /\ RowsAt(rows', here, p) = RowsAt(rows, here, p) \union {Len(rows) + 1}
  <2>1. RowsAt(Append(rows, r), here, p) = RowsAt(rows, here, p) \union
          IF r.file = here /\ r.at = p THEN {Len(rows) + 1} ELSE {}
    BY <1>4, <1>8, RowAppended
  <2> QED
    BY <1>4, <1>6, <1>8, <2>1, RowAppended
<1>11. \A i, at : ~(i = here /\ at = p) =>
         SameStory(rows, translations, rows', translations', i, at)
  <2> SUFFICES ASSUME NEW i, NEW at, ~(i = here /\ at = p)
               PROVE  SameStory(rows, translations, Append(rows, r), translations, i, at)
    BY <1>1, <1>6
  <2>1. ~(r.file = i /\ r.at = at) /\ ~(t.file = i /\ t.at = at)
    BY <1>4, <1>5
  <2> QED
    BY <1>4, <1>5, <1>8, <2>1, ElsewhereSaid
<1>12. ~Answered(translations, here, p)
  <2> SUFFICES ASSUME Answered(translations, here, p) PROVE FALSE
    OBVIOUS
  <2>1. PICK k \in DOMAIN translations : TRUE
    BY DEF Answered, OutcomesAt
  <2>2. options.bridge
    BY <2>1 DEF IInv, FreshInv
  <2>3. options.prover = "lean4"
    BY <2>2 DEF IInv, Typed, Options
  <2>4. \A at \in PlacesOf(here) :
          LeanTagged(docs[here].scenarios, at) /\ Answered(translations, here, at)
            => ObligationName(docs[here].scenarios, at) \in skip
    BY <1>1 DEF IInv, SkipInv, here
  <2> QED
    BY <1>1, <1>2, <2>3, <2>4
<1>13. RowsAt(rows, here, p) = {} /\ OutcomesAt(translations, here, p) \subseteq {"skipped"}
  BY <1>2, <1>12 DEF Bridged, Answered
<1>14. Settled(OwedIn(here), rows', translations', here, p)
  <2>1. RowsAt(rows', here, p) = {Len(rows) + 1} /\ Len(rows) + 1 \in DOMAIN rows'
    BY <1>10, <1>13
  <2>2. "ok" \notin OutcomesAt(translations, here, p)
        /\ "failed" \notin OutcomesAt(translations, here, p)
    BY <1>13
  <2> QED
    BY <1>1, <1>2, <2>1, <2>2 DEF Settled
<1>15. \A k \in DOMAIN rows' : (k \in DOMAIN rows /\ rows'[k] = rows[k]) \/ rows'[k].file = here
  BY <1>4, <1>10
<1>16. Len(docs) = here /\ Head(rest) = p
  BY DEF here, p
<1> QED
  BY <1>1, <1>9, <1>11, <1>14, <1>15, <1>16, CheckedOn

-----------------------------------------------------------------------------
(* What holds of the claim at the head of walk. *)
LEMMA HeadOfWalk ==
  ASSUME IInv, pc = "bridge", walk # <<>>
  PROVE  /\ Head(walk) \in PlacesOf(Len(docs)) /\ Head(walk) \in Place
         /\ Untouched(rows, translations, Len(docs), Head(walk))
         /\ options.bridge
         /\ Tail(walk) \in Seq(Place) /\ Distinct(Tail(walk))
         /\ Head(walk) \in Range(walk)
         /\ Range(Tail(walk)) = Range(walk) \ {Head(walk)}
         /\ Len(docs) \in DOMAIN docs /\ Len(docs) \in Nat /\ Len(docs) \in 1 .. Len(docs)
<1> USE DEF IInv
<1>1. walk \in Seq(Place) /\ Distinct(walk) /\ Len(docs) # 0 /\ docs \in Seq(File)
      /\ Range(walk) \subseteq PlacesOf(Len(docs)) /\ options.bridge
  BY DEF Typed, LoopInv, FileInv
<1>2. /\ Head(walk) \in Place /\ Head(walk) \in Range(walk)
      /\ Tail(walk) \in Seq(Place) /\ Distinct(Tail(walk))
      /\ Range(Tail(walk)) = Range(walk) \ {Head(walk)}
  BY <1>1, HeadAndTail
<1>3. Len(docs) \in DOMAIN docs /\ Len(docs) \in Nat /\ Len(docs) \in 1 .. Len(docs)
  BY <1>1
<1>4. Untouched(rows, translations, Len(docs), Head(walk))
  BY <1>1, <1>2 DEF BridgeInv
<1> QED
  BY <1>1, <1>2, <1>3, <1>4

(* The head of walk has been dealt with: everything else of what was said  *)
(* stays, and the claim itself is bridged.                                 *)
LEMMA BridgedOn ==
  ASSUME IInv, pc = "bridge", pc' = "bridge", walk # <<>>, walk' = Tail(walk),
         UNCHANGED <<options, naproche, which, docs, rest, parse_failed, exit>>,
         CountInv', rows' \in Seq(Verdict), totals' \in Counters, calls' \in Nat,
         translations' \in Seq(Translation),
         \A k \in DOMAIN rows' : (k \in DOMAIN rows /\ rows'[k] = rows[k]) \/ rows'[k].file = Len(docs),
         \A k \in DOMAIN translations' :
           (k \in DOMAIN translations /\ translations'[k] = translations[k])
             \/ translations'[k].file = Len(docs),
         \A i, at : ~(i = Len(docs) /\ at = Head(walk)) =>
           SameStory(rows, translations, rows', translations', i, at),
         Bridged(rows', translations', Len(docs), Head(walk)),
         skip' = IF Answered(translations', Len(docs), Head(walk)) THEN Skipping(Head(walk)) ELSE skip
  PROVE  IInv'
<1> USE DEF IInv
<1> DEFINE here == Len(docs)
           p == Head(walk)
<1>1. /\ p \in PlacesOf(here) /\ p \in Range(walk)
      /\ Untouched(rows, translations, here, p) /\ options.bridge
      /\ walk' \in Seq(Place) /\ Distinct(walk') /\ Range(walk') = Range(walk) \ {p}
      /\ here \in DOMAIN docs /\ here \in Nat /\ here \in 1 .. Len(docs)
  BY HeadOfWalk
<1>2. \A i : PlacesOf(i)' = PlacesOf(i) /\ OwedIn(i)' = OwedIn(i)
  BY DEF PlacesOf, OwedIn
<1> HIDE DEF here, p
<1>3. Len(docs)' = here /\ Len(docs) = here /\ Head(walk) = p
  BY DEF here, p
<1>4. Typed'
  BY <1>1 DEF Typed
<1>5. FileInv'
  BY DEF FileInv
<1>6. LoopInv'
  <2>1. Range(walk') \subseteq Range(walk) /\ AllPlaces' = AllPlaces
    BY <1>1 DEF AllPlaces, PlacesOf
  <2>2. Range(walk) \subseteq PlacesOf(here) /\ Range(walk) \union Range(rest) \subseteq AllPlaces
    BY <1>3 DEF LoopInv
  <2>3. Range(walk') \subseteq PlacesOf(Len(docs))'
    BY <1>2, <1>3, <2>1, <2>2
  <2>4. Range(walk') \union Range(rest') \subseteq AllPlaces'
    BY <2>1, <2>2
  <2> QED
    BY <1>1, <2>3, <2>4 DEF LoopInv
<1>7. ExitInv'
  BY DEF ExitInv, Completed
<1>8. FreshInv'
  <2>1. ASSUME NEW k \in DOMAIN rows' PROVE rows'[k].file \in 1 .. Len(docs')
    BY <1>1, <1>3, <2>1 DEF FreshInv
  <2>2. ASSUME NEW k \in DOMAIN translations'
        PROVE  translations'[k].file \in 1 .. Len(docs')
    BY <1>1, <1>3, <2>2 DEF FreshInv
  <2> QED
    BY <1>1, <2>1, <2>2 DEF FreshInv
<1>9. \A at : at # p => /\ SameStory(rows, translations, rows', translations', here, at)
                        /\ Answered(translations', here, at) <=> Answered(translations, here, at)
  <2> SUFFICES ASSUME NEW at, at # p
               PROVE  /\ SameStory(rows, translations, rows', translations', here, at)
                      /\ Answered(translations', here, at) <=> Answered(translations, here, at)
    OBVIOUS
  <2>1. SameStory(rows, translations, rows', translations', here, at)
    BY <1>3
  <2> QED
    BY <2>1, StoryStays
<1> DEFINE s == docs[here].scenarios
           name == ObligationName(s, p)
<1>10. skip' = IF Answered(translations', here, p)
               THEN IF LeanTagged(s, p) THEN skip \union {name} ELSE skip
               ELSE skip
  BY <1>3 DEF Skipping, NameOf, scenarios, current
<1>11. ~Answered(translations, here, p)
  BY <1>1 DEF Untouched, Answered
<1>12. docs'[Len(docs')].scenarios = s
  BY <1>3
<1> HIDE DEF s
<1>13. \A at \in PlacesOf(here) :
         LeanTagged(s, at) /\ Answered(translations', here, at) => ObligationName(s, at) \in skip'
  <2> SUFFICES ASSUME NEW at \in PlacesOf(here), LeanTagged(s, at), Answered(translations', here, at)
               PROVE  ObligationName(s, at) \in skip'
    OBVIOUS
  <2>1. CASE at = p
    BY <1>10, <2>1
  <2>2. CASE at # p
    <3>1. Answered(translations, here, at)
      BY <1>9, <2>2
    <3>2. ObligationName(s, at) \in skip
      BY <1>3, <3>1 DEF SkipInv, s
    <3> QED
      BY <1>10, <3>2
  <2> QED
    BY <2>1, <2>2
<1>14. \A n \in skip' : \E at \in PlacesOf(here) :
         n = ObligationName(s, at) /\ Answered(translations', here, at)
  <2> SUFFICES ASSUME NEW n \in skip'
               PROVE  \E at \in PlacesOf(here) :
                        n = ObligationName(s, at) /\ Answered(translations', here, at)
    OBVIOUS
  <2>1. CASE n \in skip
    <3>1. PICK at \in PlacesOf(here) :
            n = ObligationName(s, at) /\ Answered(translations, here, at)
      BY <1>3, <2>1 DEF SkipInv, s
    <3>2. at # p
      BY <1>11, <3>1
    <3> QED
      BY <1>9, <3>1, <3>2
  <2>2. CASE n \notin skip
    <3>1. n = name /\ Answered(translations', here, p)
      BY <1>10, <2>2
    <3> QED
      BY <1>1, <3>1
  <2> QED
    BY <2>1, <2>2
<1>15. SkipInv'
  BY <1>2, <1>3, <1>12, <1>13, <1>14 DEF SkipInv, s
<1>16. \A at \in PlacesOf(here) :
         IF at \in Range(walk') THEN Untouched(rows', translations', here, at)
         ELSE Bridged(rows', translations', here, at)
  <2> SUFFICES ASSUME NEW at \in PlacesOf(here)
               PROVE  IF at \in Range(walk') THEN Untouched(rows', translations', here, at)
                      ELSE Bridged(rows', translations', here, at)
    OBVIOUS
  <2>1. CASE at = p
    BY <1>1, <1>3, <2>1
  <2>2. CASE at # p
    <3>1. SameStory(rows, translations, rows', translations', here, at)
      BY <1>9, <2>2
    <3>2. /\ Untouched(rows, translations, here, at) => Untouched(rows', translations', here, at)
          /\ Bridged(rows, translations, here, at) => Bridged(rows', translations', here, at)
      BY <3>1, StoryStays
    <3>3. at \in Range(walk') <=> at \in Range(walk)
      BY <1>1, <2>2
    <3>4. IF at \in Range(walk) THEN Untouched(rows, translations, here, at)
          ELSE Bridged(rows, translations, here, at)
      BY <1>3 DEF BridgeInv
    <3> QED
      BY <3>2, <3>3, <3>4
  <2> QED
    BY <2>1, <2>2
<1>17. BridgeInv'
  BY <1>2, <1>3, <1>16 DEF BridgeInv
<1>18. CheckInv'
  BY DEF CheckInv
<1>19. DoneInv'
  <2> SUFFICES ASSUME NEW i \in DOMAIN docs, docs[i].readable, i < here,
                      DistinctNames(docs[i].scenarios), NEW at \in PlacesOf(i)
               PROVE  Settled(OwedIn(i), rows', translations', i, at)
    BY <1>2, <1>3 DEF DoneInv
  <2>1. i # here
    BY <1>1
  <2>2. SameStory(rows, translations, rows', translations', i, at)
    BY <1>3, <2>1
  <2>3. Settled(OwedIn(i), rows, translations, i, at)
    BY <1>3 DEF DoneInv
  <2> QED
    BY <2>2, <2>3, StoryStays
<1> QED
  BY <1>4, <1>5, <1>6, <1>7, <1>8, <1>15, <1>17, <1>18, <1>19

(* A line, and with it a row, on a claim nothing was said of.              *)
LEMMA LineSaid ==
  ASSUME NEW rs \in Seq(Verdict), NEW ts \in Seq(Translation),
         NEW i \in Nat, NEW p \in Place, Untouched(rs, ts, i, p),
         NEW o \in {"ok", "failed", "skipped"},
         NEW t \in Translation, t = [file |-> i, at |-> p, outcome |-> o]
  PROVE  LET ts2 == Append(ts, t) IN
         /\ ts2 \in Seq(Translation)
         /\ \A k \in DOMAIN ts2 : (k \in DOMAIN ts /\ ts2[k] = ts[k]) \/ ts2[k].file = i
         /\ OutcomesAt(ts2, i, p) = {o}
         /\ Answered(ts2, i, p) <=> o # "skipped"
<1> DEFINE ts2 == Append(ts, t)
<1>1. /\ ts2 \in Seq(Translation) /\ DOMAIN ts2 = DOMAIN ts \union {Len(ts) + 1}
      /\ \A k \in DOMAIN ts : ts2[k] = ts[k]
      /\ ts2[Len(ts) + 1] = t
      /\ OutcomesAt(ts2, i, p) =
           OutcomesAt(ts, i, p) \union IF t.file = i /\ t.at = p THEN {t.outcome} ELSE {}
  BY LineAppended
<1>2. t.file = i /\ t.at = p /\ t.outcome = o
  OBVIOUS
<1> HIDE DEF ts2
<1>3. OutcomesAt(ts2, i, p) = {o}
  BY <1>1, <1>2 DEF Untouched
<1>4. Answered(ts2, i, p) <=> o # "skipped"
  BY <1>3 DEF Answered
<1> QED
  BY <1>1, <1>2, <1>3, <1>4 DEF ts2

(* A translation that was skipped keeps the invariant: no row, no name. *)
LEMMA SkippedStep == IInv /\ TranslateSkipped => IInv'
<1> SUFFICES ASSUME IInv, TranslateSkipped PROVE IInv'
  OBVIOUS
<1> DEFINE here == Len(docs)
           p == Head(walk)
           t == [file |-> here, at |-> p, outcome |-> "skipped"]
<1>1. /\ pc = "bridge" /\ pc' = "bridge" /\ walk # <<>> /\ walk' = Tail(walk)
      /\ UNCHANGED <<options, naproche, which, docs, skip, rest, rows, totals, calls,
                     parse_failed, exit>>
      /\ translations' = Append(translations, t)
  BY DEF TranslateSkipped, Translated, result, current
<1>2. p \in Place /\ Untouched(rows, translations, here, p) /\ here \in Nat
  BY <1>1, HeadOfWalk
<1>3. t \in Translation /\ t.file = here /\ t.at = p
  BY <1>2 DEF Translation
<1> HIDE DEF here, p
<1>4. rows \in Seq(Verdict) /\ translations \in Seq(Translation)
  BY DEF IInv, Typed
<1>5. /\ translations' \in Seq(Translation)
      /\ \A k \in DOMAIN translations' :
           (k \in DOMAIN translations /\ translations'[k] = translations[k])
             \/ translations'[k].file = here
      /\ OutcomesAt(translations', here, p) = {"skipped"}
      /\ ~Answered(translations', here, p)
  <2>1. "skipped" \in {"ok", "failed", "skipped"}
    OBVIOUS
  <2> HIDE DEF t
  <2>2. t = [file |-> here, at |-> p, outcome |-> "skipped"]
    BY DEF t
  <2> QED
    BY <1>1, <1>2, <1>3, <1>4, <2>1, <2>2, LineSaid
<1>6. Bridged(rows', translations', here, p)
  <2>1. RowsAt(rows, here, p) = {}
    BY <1>2 DEF Untouched
  <2> QED
    BY <1>1, <1>5, <2>1 DEF Bridged
<1>7. \A i, at : ~(i = here /\ at = p) =>
        SameStory(rows, translations, rows', translations', i, at)
  <2> SUFFICES ASSUME NEW i, NEW at, ~(i = here /\ at = p)
               PROVE  SameStory(rows, translations, rows, Append(translations, t), i, at)
    BY <1>1
  <2> DEFINE r == [file |-> here, at |-> p, ok |-> TRUE, body |-> None]
  <2>1. r \in Verdict /\ r.file = here /\ r.at = p
    BY <1>2 DEF Verdict
  <2> HIDE DEF r, t
  <2>2. ~(r.file = i /\ r.at = at) /\ ~(t.file = i /\ t.at = at)
    BY <1>3, <2>1
  <2> QED
    BY <1>3, <1>4, <2>1, <2>2, ElsewhereSaid
<1>8. CountInv' /\ rows' \in Seq(Verdict) /\ totals' \in Counters /\ calls' \in Nat
  BY <1>1 DEF IInv, Typed, CountInv
<1>9. \A k \in DOMAIN rows' : k \in DOMAIN rows /\ rows'[k] = rows[k]
  BY <1>1
<1>10. Len(docs) = here /\ Head(walk) = p
  BY DEF here, p
<1>11. skip' = IF Answered(translations', Len(docs), Head(walk)) THEN Skipping(Head(walk)) ELSE skip
  BY <1>1, <1>5, <1>10
<1> HIDE DEF t
<1> QED
  BY <1>1, <1>5, <1>6, <1>7, <1>8, <1>9, <1>10, <1>11, BridgedOn

(* A claim translated and judged, or one whose translation failed.         *)
LEMMA VerdictStep ==
  ASSUME IInv, pc = "bridge", walk # <<>>, NEW o \in {"ok", "failed"}, NEW ok \in BOOLEAN,
         NEW b \in {None, "translated"},
         o = "ok" => b = "translated", o = "failed" => ~ok,
         Translated(o), rows' = Append(rows, Row(Head(walk), ok, b)),
         totals' = [totals EXCEPT !.ok = @ + IF ok THEN 1 ELSE 0,
                                  !.fail = @ + IF ok THEN 0 ELSE 1,
                                  !.obligations = @ + IF b = None THEN 0 ELSE 1],
         skip' = Skipping(Head(walk)), walk' = Tail(walk),
         UNCHANGED <<pc, options, naproche, which, docs, rest, calls, parse_failed, exit>>
  PROVE  IInv'
<1> DEFINE here == Len(docs)
           p == Head(walk)
           r == Row(p, ok, b)
           t == [file |-> here, at |-> p, outcome |-> o]
<1>1. translations' = Append(translations, t) /\ pc' = "bridge"
  BY DEF Translated, current
<1>2. p \in Place /\ Untouched(rows, translations, here, p) /\ here \in Nat
  BY HeadOfWalk
<1>3. t \in Translation /\ t.file = here /\ t.at = p
  BY <1>2 DEF Translation
<1>4. r = [file |-> here, at |-> p, ok |-> ok, body |-> b]
  BY DEF Row, current
<1>5. r \in Verdict /\ r.file = here /\ r.at = p /\ r.ok = ok /\ r.body = b
  <2>1. b \in {None, "translated", "empty"}
    OBVIOUS
  <2> QED
    BY <1>2, <1>4, <2>1 DEF Verdict
<1> HIDE DEF here, p, r
<1>6. Len(docs) = here /\ Head(walk) = p /\ rows' = Append(rows, r)
  BY DEF here, p, r
<1>7. rows \in Seq(Verdict) /\ translations \in Seq(Translation) /\ calls \in Nat
  BY DEF IInv, Typed
<1>8. /\ translations' \in Seq(Translation)
      /\ \A k \in DOMAIN translations' :
           (k \in DOMAIN translations /\ translations'[k] = translations[k])
             \/ translations'[k].file = here
      /\ OutcomesAt(translations', here, p) = {o}
      /\ Answered(translations', here, p)
  <2>1. o \in {"ok", "failed", "skipped"} /\ o # "skipped"
    OBVIOUS
  <2>2. t = [file |-> here, at |-> p, outcome |-> o]
    OBVIOUS
  <2> HIDE DEF t
  <2> QED
    BY <1>1, <1>2, <1>3, <1>7, <2>1, <2>2, LineSaid
<1> HIDE DEF t
<1>9. /\ rows' \in Seq(Verdict)
      /\ DOMAIN rows' = DOMAIN rows \union {Len(rows) + 1}
      /\ \A k \in DOMAIN rows : rows'[k] = rows[k]
      /\ rows'[Len(rows) + 1] = r
      /\ RowsAt(rows', here, p) =
           RowsAt(rows, here, p) \union IF r.file = here /\ r.at = p THEN {Len(rows) + 1} ELSE {}
  BY <1>5, <1>6, <1>7, RowAppended
<1>10. RowsAt(rows', here, p) = {Len(rows) + 1} /\ Len(rows) + 1 \in DOMAIN rows'
  BY <1>2, <1>5, <1>9 DEF Untouched
<1>11. Bridged(rows', translations', here, p)
  <2>1. CASE o = "ok"
    <3>1. rows'[Len(rows) + 1].body = "translated"
      BY <1>5, <1>9, <2>1
    <3> QED
      BY <1>8, <1>10, <2>1, <3>1 DEF Bridged
  <2>2. CASE o = "failed"
    <3>1. ~rows'[Len(rows) + 1].ok
      BY <1>5, <1>9, <2>2
    <3> QED
      BY <1>8, <1>10, <2>2, <3>1 DEF Bridged
  <2> QED
    BY <2>1, <2>2
<1>12. \A i, at : ~(i = here /\ at = p) =>
         SameStory(rows, translations, rows', translations', i, at)
  <2> SUFFICES ASSUME NEW i, NEW at, ~(i = here /\ at = p)
               PROVE  SameStory(rows, translations, Append(rows, r), Append(translations, t), i, at)
    BY <1>1, <1>6
  <2>1. ~(r.file = i /\ r.at = at) /\ ~(t.file = i /\ t.at = at)
    BY <1>3, <1>5
  <2> QED
    BY <1>3, <1>5, <1>7, <2>1, ElsewhereSaid
<1>13. totals' = [totals EXCEPT !.ok = @ + IF r.ok THEN 1 ELSE 0,
                                !.fail = @ + IF r.ok THEN 0 ELSE 1,
                                !.obligations = @ + IF r.body = None THEN 0 ELSE 1]
  BY <1>5
<1>14. calls' \in {calls, calls + 1}
  OBVIOUS
<1>15. CountInv' /\ totals' \in Counters /\ calls' \in Nat
  BY <1>5, <1>6, <1>13, <1>14, Counting DEF IInv
<1>16. \A k \in DOMAIN rows' : (k \in DOMAIN rows /\ rows'[k] = rows[k]) \/ rows'[k].file = here
  BY <1>5, <1>9
<1>17. skip' = IF Answered(translations', Len(docs), Head(walk)) THEN Skipping(Head(walk)) ELSE skip
  BY <1>6, <1>8
<1> QED
  BY <1>1, <1>6, <1>8, <1>9, <1>11, <1>12, <1>15, <1>16, <1>17, BridgedOn

(* The bridge's turn keeps the invariant, whatever Naproche says. *)
LEMMA TranslateStep ==
  IInv /\ (TranslateSkipped \/ TranslateFails \/ \E ok \in BOOLEAN : TranslateOk(ok)) => IInv'
<1>1. ASSUME IInv, TranslateFails PROVE IInv'
  <2>1. totals \in Counters
    BY <1>1 DEF IInv, Typed
  <2>2. totals' = [totals EXCEPT !.ok = @ + IF FALSE THEN 1 ELSE 0,
                                 !.fail = @ + IF FALSE THEN 0 ELSE 1,
                                 !.obligations = @ + IF None = None THEN 0 ELSE 1]
    <3>1. totals.ok + 0 = totals.ok /\ totals.obligations + 0 = totals.obligations
      BY <2>1 DEF Counters
    <3>2. totals' = [totals EXCEPT !.fail = @ + 1]
      BY <1>1 DEF TranslateFails
    <3>3. [totals EXCEPT !.fail = @ + 1] =
            [totals EXCEPT !.ok = @ + 0, !.fail = @ + 1, !.obligations = @ + 0]
      BY <2>1, <3>1 DEF Counters
    <3> QED
      BY <3>2, <3>3
  <2>3. "failed" \in {"ok", "failed"} /\ FALSE \in BOOLEAN /\ None \in {None, "translated"}
    OBVIOUS
  <2>4. pc = "bridge" /\ walk # <<>> /\ Translated("failed")
        /\ rows' = Append(rows, Row(Head(walk), FALSE, None))
        /\ skip' = Skipping(Head(walk)) /\ walk' = Tail(walk)
        /\ UNCHANGED <<pc, options, naproche, which, docs, rest, calls, parse_failed, exit>>
    BY <1>1 DEF TranslateFails
  <2>5. ("failed" = "ok" => None = "translated") /\ ("failed" = "failed" => ~FALSE)
    OBVIOUS
  <2> QED
    BY <1>1, <2>2, <2>3, <2>4, <2>5, VerdictStep
<1>2. ASSUME IInv, NEW ok \in BOOLEAN, TranslateOk(ok) PROVE IInv'
  <2>1. "translated" # None
    BY NoneIs
  <2>2. totals' = [totals EXCEPT !.ok = @ + IF ok THEN 1 ELSE 0,
                                 !.fail = @ + IF ok THEN 0 ELSE 1,
                                 !.obligations = @ + IF "translated" = None THEN 0 ELSE 1]
    BY <1>2, <2>1 DEF TranslateOk, Emit
  <2>3. "ok" \in {"ok", "failed"} /\ "translated" \in {None, "translated"}
        /\ ("ok" = "ok" => "translated" = "translated") /\ ("ok" = "failed" => ~ok)
    OBVIOUS
  <2>4. pc = "bridge" /\ walk # <<>> /\ Translated("ok")
        /\ rows' = Append(rows, Row(Head(walk), ok, "translated"))
        /\ skip' = Skipping(Head(walk)) /\ walk' = Tail(walk)
        /\ UNCHANGED <<pc, options, naproche, which, docs, rest, calls, parse_failed, exit>>
    BY <1>2 DEF TranslateOk, Emit
  <2> QED
    BY <1>2, <2>2, <2>3, <2>4, VerdictStep
<1> QED
  BY <1>1, <1>2, SkippedStep

(* The traceback after a translation: the line is on disk, the row is not. *)
LEMMA TracebackStep == IInv /\ TranslatedCheckRaises => IInv'
<1> SUFFICES ASSUME IInv, TranslatedCheckRaises PROVE IInv'
  OBVIOUS
<1> DEFINE here == Len(docs)
           p == Head(walk)
           t == [file |-> here, at |-> p, outcome |-> "ok"]
           r == [file |-> here, at |-> p, ok |-> TRUE, body |-> None]
<1>1. /\ pc = "bridge" /\ pc' = "raised" /\ exit' = 1 /\ walk # <<>>
      /\ UNCHANGED <<options, naproche, which, docs, walk, skip, rest, rows, totals, calls,
                     parse_failed>>
      /\ translations' = Append(translations, t)
  BY DEF TranslatedCheckRaises, Translated, file, result, current
<1>2. p \in Place /\ Untouched(rows, translations, here, p) /\ here \in Nat
      /\ options.bridge /\ here \in 1 .. Len(docs) /\ here \in DOMAIN docs
  BY <1>1, HeadOfWalk
<1>3. t \in Translation /\ t.file = here /\ t.at = p
  BY <1>2 DEF Translation
<1>4. r \in Verdict /\ r.file = here /\ r.at = p
  BY <1>2 DEF Verdict
<1>5. rows \in Seq(Verdict) /\ translations \in Seq(Translation)
  BY DEF IInv, Typed
<1> HIDE DEF here, p, r, t
<1>6. Len(docs) = here
  BY DEF here
<1>7. /\ translations' \in Seq(Translation)
      /\ DOMAIN translations' = DOMAIN translations \union {Len(translations) + 1}
      /\ \A k \in DOMAIN translations : translations'[k] = translations[k]
      /\ translations'[Len(translations) + 1] = t
  BY <1>1, <1>3, <1>5, LineAppended
<1>8. Typed'
  <2>1. exit' # None
    BY <1>1, NoneIs
  <2> QED
    BY <1>1, <1>7, <2>1 DEF IInv, Typed
<1>9. FileInv' /\ ExitInv' /\ SkipInv' /\ BridgeInv' /\ CheckInv'
  BY <1>1 DEF IInv, FileInv, ExitInv, Completed, SkipInv, BridgeInv, CheckInv
<1>10. LoopInv'
  BY <1>1 DEF IInv, LoopInv, AllPlaces, PlacesOf
<1>11. CountInv'
  BY <1>1 DEF IInv, CountInv
<1>12. FreshInv'
  BY <1>1, <1>2, <1>3, <1>6, <1>7 DEF IInv, FreshInv
<1>13. DoneInv'
  <2>1. \A i : PlacesOf(i)' = PlacesOf(i) /\ OwedIn(i)' = OwedIn(i)
    BY <1>1 DEF PlacesOf, OwedIn
  <2> SUFFICES ASSUME NEW i \in DOMAIN docs, docs[i].readable, i < here,
                      DistinctNames(docs[i].scenarios), NEW at \in PlacesOf(i)
               PROVE  Settled(OwedIn(i), rows, Append(translations, t), i, at)
    BY <1>1, <1>6, <2>1 DEF DoneInv
  <2>2. i # here
    BY <1>2
  <2>3. ~(r.file = i /\ r.at = at) /\ ~(t.file = i /\ t.at = at)
    BY <1>3, <1>4, <2>2
  <2>4. SameStory(rows, translations, rows, Append(translations, t), i, at)
    BY <1>3, <1>4, <1>5, <2>3, ElsewhereSaid
  <2>5. Settled(OwedIn(i), rows, translations, i, at)
    BY <1>6 DEF IInv, DoneInv
  <2> QED
    BY <2>4, <2>5, StoryStays
<1> QED
  BY <1>8, <1>9, <1>10, <1>11, <1>12, <1>13 DEF IInv

-----------------------------------------------------------------------------
(* IInv holds in every state of every behaviour of the command. *)
THEOREM Invariance == Spec => []IInv
<1>1. IInv /\ [Next]_vars => IInv'
  <2> SUFFICES ASSUME IInv, [Next]_vars PROVE IInv'
    OBVIOUS
  <2>1. CASE ReadFails \/ \E doc \in Documents : Read(doc)
    BY <2>1, ReadStep
  <2>2. CASE \E ran : InterpretFile(ran)
    BY <2>2, InterpretStep
  <2>3. CASE TranslateSkipped \/ TranslateFails \/ \E ok \in BOOLEAN : TranslateOk(ok)
    BY <2>3, TranslateStep
  <2>4. CASE ExtractObligations
    BY <2>4, ExtractStep
  <2>5. CASE CheckSkipped
    BY <2>5, SkipStep
  <2>6. CASE \E ok \in BOOLEAN : CheckObligation(ok)
    BY <2>6, CheckStep
  <2>7. CASE TranslatedCheckRaises
    BY <2>7, TracebackStep
  <2>8. CASE Quiet
    BY <2>8, QuietStep
  <2> QED
    BY <2>1, <2>2, <2>3, <2>4, <2>5, <2>6, <2>7, <2>8 DEF Next, Quiet
<1> QED
  BY InitHolds, <1>1, PTL DEF Spec

(* Types, bounds and where the command is: no more files are gone through  *)
(* than given, what the loops hold are places of those files, no more is   *)
(* counted than there are rows, and an exit code comes with the end.       *)
THEOREM TypesHold == Spec => []TypeOK
<1>1. ASSUME IInv PROVE TypeOK
  <2> USE <1>1 DEF IInv
  <2>1. current <= FileCount
    BY DEF Typed, current
  <2>2. \A i \in DOMAIN docs : ~docs[i].readable => parse_failed
    BY DEF FileInv
  <2>3. Range(walk) \union Range(rest) \subseteq
          UNION {Range(Walk(docs[i].scenarios)) : i \in DOMAIN docs}
    BY DEF LoopInv, AllPlaces, PlacesOf
  <2>4. calls <= Len(rows) /\ totals.ok + totals.fail <= Len(rows)
    <3>1. Len(rows) \in Nat
      BY DEF Typed
    <3> QED
      BY <3>1 DEF CountInv
  <2> QED
    BY <2>1, <2>2, <2>3, <2>4 DEF Typed, TypeOK
<1> QED
  BY <1>1, Invariance, PTL

(* Where the scenarios of a file have names of their own, every claim of   *)
(* the file is answered exactly once, by the bridge or by the prover, and  *)
(* nothing else is; what Naproche translated is judged as translated, and  *)
(* what it rejected is no success (EachClaimOnce).                         *)
THEOREM ClaimsAnsweredOnce == Spec => []EachClaimOnce
<1>1. ASSUME IInv PROVE EachClaimOnce
  <2> SUFFICES ASSUME Completed, NEW i \in Readable, DistinctNames(docs[i].scenarios),
                      NEW at \in Range(Walk(docs[i].scenarios))
               PROVE  /\ Cardinality(RowsOf(i, at)) = IF Owed(i, at) THEN 1 ELSE 0
                      /\ "ok" \in Outcomes(i, at) =>
                           \A k \in RowsOf(i, at) : rows[k].body = "translated"
                      /\ "failed" \in Outcomes(i, at) => \A k \in RowsOf(i, at) : ~rows[k].ok
    BY DEF EachClaimOnce
  <2>1. RowsOf(i, at) = RowsAt(rows, i, at)
    BY DEF RowsOf, RowsAt
  <2>2. Outcomes(i, at) = OutcomesAt(translations, i, at)
    BY DEF Outcomes, OutcomesAt
  <2>3. Owed(i, at) <=> at \in OwedIn(i) \/ Answered(translations, i, at)
    BY <2>2 DEF Owed, OwedIn, Answered
  <2>4. Settled(OwedIn(i), rows, translations, i, at)
    <3>1. i \in DOMAIN docs /\ docs[i].readable /\ at \in PlacesOf(i) /\ pc = "done"
      BY DEF Readable, Completed, PlacesOf
    <3> QED
      BY <1>1, <3>1 DEF IInv, DoneInv
  <2>5. Cardinality(RowsAt(rows, i, at)) = IF Owed(i, at) THEN 1 ELSE 0
    <3>1. CASE Owed(i, at)
      <4>1. PICK k \in DOMAIN rows : RowsAt(rows, i, at) = {k}
        BY <2>3, <2>4, <3>1 DEF Settled
      <4> QED
        BY <3>1, <4>1, FS_Singleton
    <3>2. CASE ~Owed(i, at)
      <4>1. RowsAt(rows, i, at) = {}
        BY <2>3, <2>4, <3>2 DEF Settled
      <4> QED
        BY <3>2, <4>1, FS_EmptySet
    <3> QED
      BY <3>1, <3>2
  <2> QED
    BY <2>1, <2>2, <2>4, <2>5 DEF Settled
<1> QED
  BY <1>1, Invariance, PTL

(* The exit code of a command that went through all its files says whether *)
(* one could not be read and whether every verdict was good, and the       *)
(* summary line counts the rows at all times (ExitCodeTellsAll).           *)
THEOREM ExitCodeTells == Spec => []ExitCodeTellsAll
<1>1. ASSUME IInv PROVE ExitCodeTellsAll
  <2> USE <1>1 DEF IInv
  <2>1. /\ rows \in Seq(Verdict) /\ Len(rows) \in Nat /\ DOMAIN rows = 1 .. Len(rows)
        /\ docs \in Seq(File)
        /\ totals \in Counters
    BY DEF Typed
  <2>2. totals.ok \in Nat /\ totals.fail \in Nat
    BY <2>1 DEF Counters
  <2>3. totals.ok + totals.fail = Len(rows) /\ totals.ok = Cardinality(Good(rows))
    BY DEF CountInv
  <2>4. totals.fail = 0 <=> \A k \in DOMAIN rows : rows[k].ok
    <3>1. IsFiniteSet(DOMAIN rows) /\ Cardinality(DOMAIN rows) = Len(rows)
      <4>1. PICK n \in Nat : n = Len(rows) /\ DOMAIN rows = 1 .. n
        BY <2>1
      <4>2. Cardinality(1 .. n) = (IF 1 > n THEN 0 ELSE n - 1 + 1) /\ IsFiniteSet(1 .. n)
        BY FS_Interval
      <4>3. Cardinality(1 .. n) = n
        BY <4>2
      <4> QED
        BY <4>1, <4>2, <4>3
    <3>2. Good(rows) \subseteq DOMAIN rows
      BY DEF Good
    <3>3. Cardinality(Good(rows)) = Len(rows) <=> Good(rows) = DOMAIN rows
      BY <3>1, <3>2, FS_Subset
    <3>4. totals.fail = 0 <=> Cardinality(Good(rows)) = Len(rows)
      BY <2>1, <2>2, <2>3
    <3> QED
      BY <3>3, <3>4 DEF Good
  <2>5. ASSUME Completed
        PROVE  /\ (exit = 2) <=> (Readable # 1 .. FileCount)
               /\ (exit = 0) <=> (Readable = 1 .. FileCount /\ \A k \in DOMAIN rows : rows[k].ok)
    <3>1. exit = ExitCode
      BY <2>5 DEF ExitInv
    <3>2. DOMAIN docs = 1 .. FileCount
      BY <2>1, <2>5 DEF Completed, current
    <3>3. parse_failed <=> Readable # 1 .. FileCount
      BY <3>2 DEF FileInv, Readable
    <3>4. exit = IF parse_failed THEN 2 ELSE IF totals.fail > 0 THEN 1 ELSE 0
      BY <3>1 DEF ExitCode
    <3>5. totals.fail > 0 <=> totals.fail # 0
      BY <2>2
    <3> QED
      BY <2>4, <3>3, <3>4, <3>5
  <2>6. totals.obligations + Cardinality({k \in DOMAIN rows : rows[k].body = None}) = Len(rows)
        /\ totals.ok = Cardinality({k \in DOMAIN rows : rows[k].ok})
    BY DEF CountInv, Good, Bodiless
  <2> QED
    BY <2>3, <2>5, <2>6 DEF ExitCodeTellsAll
<1> QED
  BY <1>1, Invariance, PTL

-----------------------------------------------------------------------------
(* The scan of a text. First the reading of a text t, which has no state.  *)
FragmentType == [delimiter : Opening, start : Nat \ {0}, end : Nat \ {0}]

(* What is found is where it was looked for, and is not cut off. *)
LEMMA FindIs ==
  ASSUME NEW t \in Seq(STRING), NEW w, Len(w) \in Nat, NEW from \in Nat \ {0},
         Find(t, w, from) # 0
  PROVE  Find(t, w, from) \in from .. Len(t) /\ Find(t, w, from) + Len(w) - 1 <= Len(t)
<1> DEFINE found == {i \in from .. Len(t) : StartsWith(t, w, i)}
<1>1. Find(t, w, from) = IF found = {} THEN 0
                         ELSE CHOOSE i \in found : \A j \in found : i <= j
  BY DEF Find, First
<1>2. Len(t) \in Nat
  OBVIOUS
<1>3. found \subseteq Nat
  BY <1>2
<1>4. \A i \in found : i \in from .. Len(t) /\ i + Len(w) - 1 <= Len(t)
  BY DEF StartsWith
<1> HIDE DEF found
<1>5. found # {}
  BY <1>1
<1>6. \E i \in found : \A j \in found : i <= j
  BY <1>3, <1>5, Least
<1>7. Find(t, w, from) \in found
  BY <1>1, <1>5, <1>6
<1> QED
  BY <1>4, <1>7

(* The delimiter that is tried is one that stands there. *)
LEMMA DelimiterIs ==
  ASSUME NEW t, NEW i, DelimiterAt(t, i) # <<>>
  PROVE  DelimiterAt(t, i) \in Opening /\ StartsWith(t, DelimiterAt(t, i), i)
<1> DEFINE opening == {d \in Opening : StartsWith(t, d, i)}
<1>1. DelimiterAt(t, i) = IF opening = {} THEN <<>>
                          ELSE CHOOSE d \in opening : \A e \in opening : Len(e) <= Len(d)
  BY DEF DelimiterAt
<1>2. \A d \in Opening : Len(d) \in 1 .. 2
  BY DEF Opening
<1>3. \A d \in opening : Len(d) \in 1 .. 2 /\ d \in Opening /\ StartsWith(t, d, i)
  BY <1>2
<1> HIDE DEF opening
<1>4. opening # {}
  BY <1>1
<1>5. \E d \in opening : \A e \in opening : Len(e) <= Len(d)
  <2>1. CASE \E d \in opening : Len(d) = 2
    BY <1>3, <2>1
  <2>2. CASE ~\E d \in opening : Len(d) = 2
    <3>1. \A d \in opening : Len(d) = 1
      BY <1>3, <2>2
    <3> QED
      BY <1>4, <3>1
  <2> QED
    BY <2>1, <2>2
<1>6. DelimiterAt(t, i) \in opening
  BY <1>1, <1>4, <1>5
<1> QED
  BY <1>3, <1>6

(* The rounds of the loop that looks for the closing dollar. *)
IsRounds(f, t, open) ==
  f = [n \in 0 .. Len(t) |-> IF n = 0 THEN open + 1 ELSE Round(t, f[n - 1])]

(* The function that CloseDollar chooses exists. *)
LEMMA RoundsExist ==
  ASSUME NEW t \in Seq(STRING), NEW open \in Nat
  PROVE  \E f \in [0 .. Len(t) -> Nat] :
           /\ f[0] = open + 1
           /\ \A n \in 1 .. Len(t) : f[n] = Round(t, f[n - 1])
           /\ CloseDollar(t, open) = IF f[Len(t)] > Len(t) THEN 0 ELSE f[Len(t)]
<1> DEFINE N == Len(t)
           step == [n \in 1 .. N |-> [j \in Nat |-> Round(t, j)]]
<1>1. N \in Nat
  OBVIOUS
<1>2. \A j \in Nat : Round(t, j) \in Nat
  BY DEF Round
<1>3. step \in [1 .. N -> [Nat -> Nat]]
  BY <1>2
<1>4. \A n \in 1 .. N : \A j \in Nat : step[n][j] = Round(t, j)
  OBVIOUS
<1> DEFINE g == CHOOSE f : IsRounds(f, t, open)
<1>5. CloseDollar(t, open) = IF g[Len(t)] > Len(t) THEN 0 ELSE g[Len(t)]
  BY DEF CloseDollar, IsRounds
<1> HIDE DEF N, step, g
<1>6. PICK f \in [0 .. N -> Nat] : f[0] = open + 1 /\ \A n \in 1 .. N : f[n] = step[n][f[n - 1]]
  <2>1. open + 1 \in Nat
    OBVIOUS
  <2>2. \E f : Recurs(f, Nat, open + 1, N, step)
    BY <1>1, <1>3, <2>1, Recursion
  <2> QED
    BY <2>2 DEF Recurs
<1>7. \A n \in 1 .. N : n - 1 \in 0 .. N /\ n \in 0 .. N /\ n # 0
  BY <1>1
<1>8. \A n \in 1 .. N : f[n] = Round(t, f[n - 1])
  BY <1>4, <1>6, <1>7
<1>9. f = [n \in 0 .. N |-> IF n = 0 THEN open + 1 ELSE Round(t, f[n - 1])]
  BY <1>1, <1>6, <1>8
<1>10. IsRounds(f, t, open)
  BY <1>9 DEF IsRounds, N
<1>11. IsRounds(g, t, open)
  BY <1>10 DEF g
<1>12. /\ DOMAIN g = 0 .. N /\ g[0] = open + 1
       /\ \A n \in 1 .. N : g[n] = Round(t, g[n - 1])
       /\ g = [n \in 0 .. N |-> g[n]]
  <2>1. g = [n \in 0 .. N |-> IF n = 0 THEN open + 1 ELSE Round(t, g[n - 1])]
    BY <1>11 DEF IsRounds, N
  <2>2. DOMAIN g = 0 .. N /\ 0 \in 0 .. N
    BY <1>1, <2>1
  <2>3. \A n \in 0 .. N : g[n] = IF n = 0 THEN open + 1 ELSE Round(t, g[n - 1])
    BY <2>1
  <2>4. g = [n \in 0 .. N |-> g[n]]
    BY <2>1, <2>3
  <2> QED
    BY <1>7, <2>2, <2>3, <2>4
<1>13. 0 .. N \subseteq {n \in 0 .. N : g[n] \in Nat}
  <2> DEFINE S == {n \in 0 .. N : g[n] \in Nat}
  <2>1. 0 \in S
    BY <1>1, <1>12
  <2>2. \A n \in 1 .. N : n - 1 \in S => n \in S
    BY <1>2, <1>7, <1>12
  <2> HIDE DEF S
  <2>3. 0 .. N \subseteq S
    BY <1>1, <2>1, <2>2, Climb
  <2> QED
    BY <2>3 DEF S
<1>14. g \in [0 .. N -> Nat]
  BY <1>12, <1>13
<1> QED
  BY <1>5, <1>12, <1>14 DEF N

(* An odd number of backslashes stands between open and i, right before i. *)
OddBefore(t, open, i) ==
  \E k \in open .. i - 1 :
    (i - k) % 2 = 0 /\ t[k] # "\\" /\ \A j \in k + 1 .. i - 1 : t[j] = "\\"

EvenBefore(t, open, i) ==
  \E k \in open .. i - 1 :
    (i - k) % 2 = 1 /\ t[k] # "\\" /\ \A j \in k + 1 .. i - 1 : t[j] = "\\"

(* What the loop for the closing dollar has made sure of when it is at j. *)
Looked(t, open, j) ==
  /\ j \in Nat /\ open < j
  /\ j <= Len(t) => EvenBefore(t, open, j)
  /\ \A i \in open + 1 .. j - 1 : i <= Len(t) /\ t[i] = "$" => OddBefore(t, open, i)

(* The run of backslashes before a place is odd or even, not both. *)
LEMMA OneParity ==
  ASSUME NEW t, NEW open \in Nat, NEW i \in Nat, EvenBefore(t, open, i)
  PROVE  ~OddBefore(t, open, i)
<1> SUFFICES ASSUME OddBefore(t, open, i) PROVE FALSE
  OBVIOUS
<1>1. PICK k \in open .. i - 1 :
        (i - k) % 2 = 1 /\ t[k] # "\\" /\ \A j \in k + 1 .. i - 1 : t[j] = "\\"
  BY DEF EvenBefore
<1>2. PICK l \in open .. i - 1 :
        (i - l) % 2 = 0 /\ t[l] # "\\" /\ \A j \in l + 1 .. i - 1 : t[j] = "\\"
  BY DEF OddBefore
<1>3. ~(k < l)
  <2> SUFFICES ASSUME k < l PROVE FALSE
    OBVIOUS
  <2>1. l \in k + 1 .. i - 1
    OBVIOUS
  <2> QED
    BY <1>1, <1>2, <2>1
<1>4. ~(l < k)
  <2> SUFFICES ASSUME l < k PROVE FALSE
    OBVIOUS
  <2>1. k \in l + 1 .. i - 1
    OBVIOUS
  <2> QED
    BY <1>1, <1>2, <2>1
<1>5. k = l
  BY <1>3, <1>4
<1> QED
  BY <1>1, <1>2, <1>5

(* One round keeps that. *)
LEMMA RoundLooks ==
  ASSUME NEW t \in Seq(STRING), NEW open \in DOMAIN t, NEW j, Looked(t, open, j)
  PROVE  Looked(t, open, Round(t, j))
<1>1. open \in Nat /\ j \in Nat /\ Len(t) \in Nat
  BY DEF Looked
<1>2. CASE j > Len(t) \/ t[j] = "$"
  BY <1>2 DEF Round
<1>3. CASE ~(j > Len(t) \/ t[j] = "$") /\ t[j] = "\\"
  <2>1. Round(t, j) = j + 2
    BY <1>3 DEF Round
  <2>2. PICK k \in open .. j - 1 :
          (j - k) % 2 = 1 /\ t[k] # "\\" /\ \A m \in k + 1 .. j - 1 : t[m] = "\\"
    BY <1>1, <1>3 DEF Looked, EvenBefore
  <2>3. k \in Nat /\ k < j /\ open <= k
    BY <1>1
  <2>4. \A m \in k + 1 .. j : t[m] = "\\"
    <3>1. \A m \in k + 1 .. j : m \in k + 1 .. j - 1 \/ m = j
      BY <1>1, <2>3
    <3> QED
      BY <1>3, <2>2, <3>1
  <2>5. EvenBefore(t, open, j + 2)
    <3>1. CASE t[j + 1] = "\\"
      <4>1. k \in open .. (j + 2) - 1
        BY <1>1, <2>3
      <4>2. ((j + 2) - k) % 2 = 1
        BY <1>1, <2>2, <2>3
      <4>3. \A m \in k + 1 .. (j + 2) - 1 : m \in k + 1 .. j \/ m = j + 1
        BY <1>1, <2>3
      <4>4. \A m \in k + 1 .. (j + 2) - 1 : t[m] = "\\"
        BY <2>4, <3>1, <4>3
      <4> QED
        BY <2>2, <4>1, <4>2, <4>4 DEF EvenBefore
    <3>2. CASE t[j + 1] # "\\"
      <4>1. j + 1 \in open .. (j + 2) - 1 /\ ((j + 2) - (j + 1)) % 2 = 1
        BY <1>1, <2>3
      <4>2. \A m \in (j + 1) + 1 .. (j + 2) - 1 : FALSE
        BY <1>1
      <4> QED
        BY <3>2, <4>1, <4>2 DEF EvenBefore
    <3> QED
      BY <3>1, <3>2
  <2>6. OddBefore(t, open, j + 1)
    <3>1. k \in open .. (j + 1) - 1 /\ ((j + 1) - k) % 2 = 0
      BY <1>1, <2>2, <2>3
    <3>2. (j + 1) - 1 = j
      BY <1>1
    <3> QED
      BY <2>2, <2>4, <3>1, <3>2 DEF OddBefore
  <2>7. \A i \in open + 1 .. (j + 2) - 1 : i \in open + 1 .. j - 1 \/ i = j \/ i = j + 1
    BY <1>1
  <2>8. \A i \in open + 1 .. (j + 2) - 1 : i <= Len(t) /\ t[i] = "$" => OddBefore(t, open, i)
    BY <1>3, <2>6, <2>7 DEF Looked
  <2>9. j + 2 \in Nat /\ open < j + 2
    BY <1>1, <2>3
  <2> QED
    BY <2>1, <2>5, <2>8, <2>9 DEF Looked
<1>4. CASE ~(j > Len(t) \/ t[j] = "$") /\ t[j] # "\\"
  <2>1. Round(t, j) = j + 1
    BY <1>4 DEF Round
  <2>2. EvenBefore(t, open, j + 1)
    <3>1. j \in open .. (j + 1) - 1 /\ ((j + 1) - j) % 2 = 1
      BY <1>1 DEF Looked
    <3>2. \A m \in j + 1 .. (j + 1) - 1 : FALSE
      BY <1>1
    <3> QED
      BY <1>4, <3>1, <3>2 DEF EvenBefore
  <2>3. \A i \in open + 1 .. (j + 1) - 1 : i \in open + 1 .. j - 1 \/ i = j
    BY <1>1
  <2>4. \A i \in open + 1 .. (j + 1) - 1 : i <= Len(t) /\ t[i] = "$" => OddBefore(t, open, i)
    BY <1>4, <2>3 DEF Looked
  <2>5. j + 1 \in Nat /\ open < j + 1
    BY <1>1 DEF Looked
  <2> QED
    BY <2>1, <2>2, <2>4, <2>5 DEF Looked
<1> QED
  BY <1>2, <1>3, <1>4

(* The loop ends at the first dollar that is not escaped. *)
LEMMA DollarCloses ==
  ASSUME NEW t \in Seq(STRING), NEW open \in DOMAIN t, t[open] = "$", CloseDollar(t, open) # 0
  PROVE  LET c == CloseDollar(t, open)
         IN  /\ c \in open + 1 .. Len(t) /\ t[c] = "$"
             /\ \A i \in open + 1 .. c : t[i] = "$" => (i = c <=> ~OddBefore(t, open, i))
<1> DEFINE N == Len(t)
<1>1. N \in Nat /\ open \in Nat \ {0} /\ open <= N
  OBVIOUS
<1>2. PICK f \in [0 .. N -> Nat] :
        /\ f[0] = open + 1
        /\ \A n \in 1 .. N : f[n] = Round(t, f[n - 1])
        /\ CloseDollar(t, open) = IF f[N] > N THEN 0 ELSE f[N]
  BY <1>1, RoundsExist
<1> DEFINE Ended(j) == j > N \/ t[j] = "$"
           S == {n \in 0 .. N : Looked(t, open, f[n]) /\ (Ended(f[n]) \/ n < f[n])}
<1>3. 0 \in S
  <2>1. EvenBefore(t, open, open + 1)
    <3>1. open \in open .. (open + 1) - 1 /\ ((open + 1) - open) % 2 = 1
      BY <1>1
    <3>2. \A m \in open + 1 .. (open + 1) - 1 : FALSE
      BY <1>1
    <3>3. t[open] # "\\"
      OBVIOUS
    <3> QED
      BY <3>1, <3>2, <3>3 DEF EvenBefore
  <2>2. \A i \in open + 1 .. (open + 1) - 1 : FALSE
    BY <1>1
  <2>3. open + 1 \in Nat /\ open < open + 1 /\ 0 < open + 1 /\ 0 \in 0 .. N
    BY <1>1
  <2>4. Looked(t, open, open + 1)
    BY <2>1, <2>2, <2>3 DEF Looked
  <2> QED
    BY <1>2, <2>3, <2>4
<1>4. ASSUME NEW n \in 1 .. N, n - 1 \in S PROVE n \in S
  <2>1. f[n] = Round(t, f[n - 1]) /\ n \in 0 .. N /\ n - 1 \in 0 .. N
    BY <1>1, <1>2
  <2>2. f[n - 1] \in Nat /\ f[n] \in Nat /\ n \in Nat
    BY <1>1, <2>1
  <2>3. Looked(t, open, f[n - 1]) /\ (Ended(f[n - 1]) \/ n - 1 < f[n - 1])
    BY <1>4
  <2>4. Looked(t, open, f[n])
    BY <2>1, <2>3, RoundLooks
  <2>5. Ended(f[n]) \/ n < f[n]
    <3>1. CASE Ended(f[n - 1])
      <4>1. f[n] = f[n - 1]
        BY <2>1, <3>1 DEF Round
      <4> QED
        BY <3>1, <4>1
    <3>2. CASE ~Ended(f[n - 1])
      <4>1. f[n] = f[n - 1] + 1 \/ f[n] = f[n - 1] + 2
        BY <2>1, <3>2 DEF Round
      <4>2. n - 1 < f[n - 1]
        BY <2>3, <3>2
      <4> QED
        BY <2>2, <4>1, <4>2
    <3> QED
      BY <3>1, <3>2
  <2> QED
    BY <2>1, <2>4, <2>5
<1> HIDE DEF S
<1>5. N \in S
  <2>1. 0 .. N \subseteq S
    BY <1>1, <1>3, <1>4, Climb
  <2> QED
    BY <1>1, <2>1
<1> DEFINE c == CloseDollar(t, open)
<1>6. c = f[N] /\ c <= N /\ c \in Nat
  BY <1>1, <1>2
<1> HIDE DEF c
<1>7. Looked(t, open, c) /\ (Ended(c) \/ N < c)
  BY <1>5, <1>6 DEF S
<1>8. c \in open + 1 .. N /\ t[c] = "$"
  BY <1>1, <1>6, <1>7 DEF Looked
<1>9. ~OddBefore(t, open, c)
  BY <1>1, <1>6, <1>7, OneParity DEF Looked
<1>10. \A i \in open + 1 .. c : i = c \/ (i \in open + 1 .. c - 1 /\ i <= N /\ i # c)
  BY <1>1, <1>6
<1>11. \A i \in open + 1 .. c - 1 : i <= N /\ t[i] = "$" => OddBefore(t, open, i)
  BY <1>7 DEF Looked
<1>12. \A i \in open + 1 .. c : t[i] = "$" => (i = c <=> ~OddBefore(t, open, i))
  BY <1>9, <1>10, <1>11
<1> QED
  BY <1>8, <1>12 DEF c

(* A place has one fragment at most; it starts there, ends in the text, and *)
(* if it opens with one dollar, the loop for the closing dollar ended it.   *)
LEMMA FragmentIs ==
  ASSUME NEW t \in Seq(STRING), NEW i \in DOMAIN t, NEW f \in FragmentAt(t, i)
  PROVE  /\ f \in FragmentType /\ f.start = i /\ f.start < f.end /\ f.end <= Len(t)
         /\ FragmentAt(t, i) = {f}
         /\ f.delimiter = <<"$">> =>
              t[i] = "$" /\ CloseDollar(t, i) # 0 /\ f.end = CloseDollar(t, i)
<1> DEFINE d == DelimiterAt(t, i)
           close == IF d = <<>> THEN 0 ELSE CloseOf(t, d, i)
<1>1. FragmentAt(t, i) = IF close = 0 THEN {}
        ELSE {[delimiter |-> d, start |-> i, end |-> close + Len(Closing(d)) - 1]}
  BY DEF FragmentAt
<1>2. d # <<>> => d \in Opening /\ StartsWith(t, d, i)
  BY DelimiterIs
<1> HIDE DEF d
<1>3. close # 0 /\ f = [delimiter |-> d, start |-> i, end |-> close + Len(Closing(d)) - 1]
      /\ FragmentAt(t, i) = {f}
  BY <1>1
<1>4. d # <<>> /\ close = CloseOf(t, d, i) /\ CloseOf(t, d, i) # 0
  BY <1>3
<1> HIDE DEF close
<1>5. d \in Opening /\ StartsWith(t, d, i)
  BY <1>2, <1>4
<1>6. \A e \in Opening : Len(e) \in 1 .. 2 /\ Len(Closing(e)) \in 1 .. 2
  BY DEF Opening, Closing
<1>7. i \in Nat \ {0} /\ i <= Len(t) /\ Len(t) \in Nat
  OBVIOUS
<1>8. CASE d = <<"$">>
  <2>1. Closing(<<"$">>) = <<"$">>
    BY DEF Closing
  <2>2. Len(Closing(d)) = 1
    BY <1>8, <2>1
  <2>3. close = CloseDollar(t, i)
    BY <1>4, <1>8 DEF CloseOf
  <2>4. t[i] = "$"
    BY <1>5, <1>7, <1>8 DEF StartsWith
  <2>5. close \in i + 1 .. Len(t)
    BY <1>4, <2>3, <2>4, DollarCloses
  <2>6. f.delimiter = d /\ f.start = i /\ f.end = close
    BY <1>3, <1>7, <2>2, <2>5
  <2>7. close \in Nat \ {0} /\ i < close /\ close <= Len(t)
    BY <1>7, <2>5
  <2>8. f = [delimiter |-> d, start |-> i, end |-> close]
    BY <1>3, <1>7, <2>2, <2>5
  <2>9. f \in FragmentType
    BY <1>5, <1>7, <2>7, <2>8 DEF FragmentType
  <2> QED
    BY <1>3, <2>3, <2>4, <2>6, <2>7, <2>9
<1>9. CASE d # <<"$">>
  <2>1. close = Find(t, Closing(d), i + Len(d))
    BY <1>4, <1>9 DEF CloseOf
  <2> DEFINE a == Len(d)
             b == Len(Closing(d))
             last == close + b - 1
  <2>2. a \in {1, 2} /\ b \in {1, 2}
    BY <1>5, <1>6
  <2>3. i + a \in Nat \ {0} /\ b \in Nat
    BY <1>7, <2>2
  <2>4. close \in i + a .. Len(t) /\ close + b - 1 <= Len(t)
    BY <1>3, <2>1, <2>3, FindIs
  <2>5. last \in Nat \ {0} /\ i < last /\ last <= Len(t)
    <3> HIDE DEF a, b
    <3>1. close \in Nat /\ i < close
      BY <1>7, <2>2, <2>4
    <3>2. last = close \/ last = close + 1
      BY <2>2, <3>1
    <3>3. last <= Len(t)
      BY <2>4
    <3> HIDE DEF last
    <3> QED
      BY <1>7, <3>1, <3>2, <3>3
  <2>6. f = [delimiter |-> d, start |-> i, end |-> last]
    BY <1>3
  <2> HIDE DEF a, b, last
  <2>7. f.delimiter = d /\ f.start = i /\ f.end = last
    BY <2>6
  <2>8. f \in FragmentType
    BY <1>5, <1>7, <2>5, <2>6 DEF FragmentType
  <2> QED
    BY <1>3, <1>9, <2>5, <2>7, <2>8
<1> QED
  BY <1>8, <1>9

(* No fragment opens with an escaped dollar's backslash. *)
LEMMA EscapedHasNone ==
  ASSUME NEW t \in Seq(STRING), NEW i \in Nat \ {0}, StartsWith(t, <<"\\", "$">>, i)
  PROVE  /\ i + 1 \in DOMAIN t /\ t[i] = "\\" /\ t[i + 1] = "$"
         /\ FragmentAt(t, i) = {}
<1>1. i + 1 \in DOMAIN t /\ t[i] = "\\" /\ t[i + 1] = "$"
  BY DEF StartsWith
<1>2. ~StartsWith(t, <<"$", "$">>, i) /\ ~StartsWith(t, <<"$">>, i)
  <2>1. 1 \in DOMAIN <<"$", "$">> /\ 1 \in DOMAIN <<"$">> /\ i + 1 - 1 = i
    OBVIOUS
  <2> QED
    BY <1>1, <2>1 DEF StartsWith
<1>3. ~StartsWith(t, <<"\\", "(">>, i) /\ ~StartsWith(t, <<"\\", "[">>, i)
  <2>1. 2 \in DOMAIN <<"\\", "(">> /\ 2 \in DOMAIN <<"\\", "[">> /\ i + 2 - 1 = i + 1
    OBVIOUS
  <2> QED
    BY <1>1, <2>1 DEF StartsWith
<1>4. \A d \in Opening : ~StartsWith(t, d, i)
  BY <1>2, <1>3 DEF Opening
<1>5. DelimiterAt(t, i) = <<>>
  <2>1. {d \in Opening : StartsWith(t, d, i)} = {}
    BY <1>4
  <2> QED
    BY <2>1 DEF DelimiterAt
<1>6. FragmentAt(t, i) = {}
  BY <1>5 DEF FragmentAt
<1> QED
  BY <1>1, <1>6

(* A dollar after a backslash is escaped there. *)
LEMMA EscapedIs ==
  ASSUME NEW t \in Seq(STRING), NEW i \in Nat \ {0}, i + 1 \in DOMAIN t,
         t[i] = "\\", t[i + 1] = "$"
  PROVE  StartsWith(t, <<"\\", "$">>, i)
BY DEF StartsWith

ScanTyped ==
  /\ text \in Seq(STRING)
  /\ pos \in Nat \ {0}
  /\ out \in Seq(FragmentType)
  /\ scan \in {"on", "strip", "done"}

(* What was found stands in the text, in order. *)
FoundInv ==
  /\ \A n \in DOMAIN out : out[n].start \in DOMAIN text /\ out[n] \in FragmentAt(text, out[n].start)
  /\ \A m, n \in DOMAIN out : m < n => out[m].end < out[n].start

(* ScanIsLeftmost of one place. *)
ReadAt(i) ==
  \A f \in FragmentAt(text, i) :
    f \in Fragments <=> ~Literal(i) /\ ~\E g \in Fragments : g.start < i /\ i <= g.end

(* What is behind the cursor is read, and the cursor stands on no dollar    *)
(* that is text.                                                            *)
BehindInv ==
  scan = "on" =>
    /\ \A f \in Fragments : f.end < pos
    /\ \A i \in DOMAIN text : i < pos => ReadAt(i)
    /\ pos \in DOMAIN text => ~Literal(pos)

AllReadInv == scan # "on" => \A i \in DOMAIN text : ReadAt(i)

ScanInv == ScanTyped /\ FoundInv /\ BehindInv /\ AllReadInv /\ NothingLost

(* The facts of the types that the steps use. *)
LEMMA ScanFacts ==
  ASSUME ScanTyped, FoundInv
  PROVE  /\ Len(text) \in Nat /\ DOMAIN text = 1 .. Len(text)
         /\ Len(out) \in Nat /\ DOMAIN out = 1 .. Len(out)
         /\ pos \in Nat \ {0}
         /\ \A f \in Fragments : /\ f.start \in DOMAIN text /\ f \in FragmentAt(text, f.start)
                                 /\ f \in FragmentType
                                 /\ f.start < f.end /\ f.end <= Len(text)
<1>1. Len(text) \in Nat /\ DOMAIN text = 1 .. Len(text)
      /\ Len(out) \in Nat /\ DOMAIN out = 1 .. Len(out) /\ pos \in Nat \ {0}
      /\ text \in Seq(STRING)
  BY DEF ScanTyped
<1>2. \A f \in Fragments : f.start \in DOMAIN text /\ f \in FragmentAt(text, f.start)
  BY DEF FoundInv, Fragments, ToSet
<1>3. \A f \in Fragments : f \in FragmentType /\ f.start < f.end /\ f.end <= Len(text)
  BY <1>1, <1>2, FragmentIs
<1> QED
  BY <1>1, <1>2, <1>3

LEMMA ScanInitHolds == ScanInit => ScanInv
<1> SUFFICES ASSUME ScanInit PROVE ScanInv
  OBVIOUS
<1>1. text \in Seq(STRING) /\ pos = 1 /\ out = <<>> /\ scan = "on"
  BY MathTexAssumption DEF ScanInit
<1>2. out \in Seq(FragmentType) /\ DOMAIN out = {}
  BY <1>1
<1>3. ScanTyped
  BY <1>1, <1>2 DEF ScanTyped
<1>4. FoundInv
  BY <1>2 DEF FoundInv
<1>5. BehindInv
  <2>1. Fragments = {}
    BY <1>2 DEF Fragments, ToSet
  <2>2. \A i \in DOMAIN text : ~(i < pos)
    BY <1>1
  <2>3. ~Literal(pos)
    BY <1>1 DEF Literal
  <2> QED
    BY <2>1, <2>2, <2>3 DEF BehindInv
<1>6. AllReadInv /\ NothingLost
  BY <1>1 DEF AllReadInv, NothingLost
<1> QED
  BY <1>3, <1>4, <1>5, <1>6 DEF ScanInv

(* A step that finds nothing and goes on leaves what was read as it is. *)
LEMMA EscapedStep ==
  ASSUME ScanInv, SkipEscaped
  PROVE  ScanInv'
<1>1. ScanTyped /\ FoundInv /\ BehindInv
  BY DEF ScanInv
<1>2. scan = "on" /\ StartsWith(text, <<"\\", "$">>, pos) /\ pos' = pos + 2
      /\ text' = text /\ out' = out /\ stripped' = stripped /\ scan' = scan
  BY DEF SkipEscaped, Escaped
<1>3. text \in Seq(STRING) /\ pos \in Nat \ {0} /\ Len(text) \in Nat
  BY <1>1 DEF ScanTyped
<1>4. pos + 1 \in DOMAIN text /\ text[pos] = "\\" /\ text[pos + 1] = "$"
      /\ FragmentAt(text, pos) = {}
  BY <1>2, <1>3, EscapedHasNone
<1>5. ScanTyped'
  BY <1>1, <1>2 DEF ScanTyped
<1>6. FoundInv'
  BY <1>1, <1>2 DEF FoundInv
<1>7. Fragments' = Fragments
  BY <1>2 DEF Fragments
<1>8. \A i : Literal(i)' <=> Literal(i)
  BY <1>2, <1>7 DEF Literal, Inside
<1>9. \A i : ReadAt(i)' <=> ReadAt(i)
  BY <1>2, <1>7, <1>8 DEF ReadAt
<1>10. /\ \A f \in Fragments : f.end < pos /\ f.start \in Nat /\ f.end \in Nat
       /\ \A f \in Fragments : f \in FragmentAt(text, f.start) /\ f.start < f.end
       /\ \A i \in DOMAIN text : i < pos => ReadAt(i)
  BY <1>1, <1>2, ScanFacts DEF BehindInv, FragmentType
<1>11. ReadAt(pos)
  BY <1>4 DEF ReadAt
<1>12. ReadAt(pos + 1)
  <2>1. SUFFICES ASSUME NEW f \in FragmentAt(text, pos + 1)
                 PROVE  f \notin Fragments /\ Literal(pos + 1)
    BY <2>1 DEF ReadAt
  <2>2. f.start = pos + 1
    BY <1>3, <1>4, FragmentIs
  <2>3. \A g \in Fragments : g.start # pos + 1
    BY <1>3, <1>10
  <2>4. ~Inside(pos)
    BY <1>3, <1>10 DEF Inside
  <2>5. pos + 1 > 1 /\ (pos + 1) - 1 = pos
    BY <1>3
  <2> QED
    BY <1>4, <2>2, <2>3, <2>4, <2>5 DEF Literal
<1>13. BehindInv'
  <2>1. \A f \in Fragments' : f.end < pos'
    BY <1>2, <1>3, <1>7, <1>10
  <2>2. \A i \in DOMAIN text : i < pos + 2 => i < pos \/ i = pos \/ i = pos + 1
    BY <1>3
  <2>3. \A i \in DOMAIN text' : i < pos' => ReadAt(i)'
    BY <1>2, <1>9, <1>10, <1>11, <1>12, <2>2
  <2>4. ~Literal(pos + 2)
    <3>1. (pos + 2) - 1 = pos + 1
      BY <1>3
    <3>2. text[pos + 1] # "\\"
      BY <1>4
    <3> QED
      BY <3>1, <3>2 DEF Literal
  <2>5. (~Literal(pos))'
    BY <1>2, <1>7, <2>4 DEF Literal, Inside
  <2> QED
    BY <2>1, <2>3, <2>5 DEF BehindInv
<1>14. AllReadInv' /\ NothingLost'
  BY <1>2 DEF AllReadInv, NothingLost
<1> QED
  BY <1>5, <1>6, <1>13, <1>14 DEF ScanInv

LEMMA AdvanceStep ==
  ASSUME ScanInv, Advance
  PROVE  ScanInv'
<1>1. ScanTyped /\ FoundInv /\ BehindInv
  BY DEF ScanInv
<1>2. scan = "on" /\ pos <= Len(text) /\ ~StartsWith(text, <<"\\", "$">>, pos)
      /\ FragmentAt(text, pos) = {} /\ pos' = pos + 1
      /\ text' = text /\ out' = out /\ stripped' = stripped /\ scan' = scan
  BY DEF Advance, Escaped
<1>3. text \in Seq(STRING) /\ pos \in Nat \ {0} /\ Len(text) \in Nat
  BY <1>1 DEF ScanTyped
<1>4. ScanTyped'
  BY <1>1, <1>2 DEF ScanTyped
<1>5. FoundInv'
  BY <1>1, <1>2 DEF FoundInv
<1>6. Fragments' = Fragments
  BY <1>2 DEF Fragments
<1>7. \A i : Literal(i)' <=> Literal(i)
  BY <1>2, <1>6 DEF Literal, Inside
<1>8. \A i : ReadAt(i)' <=> ReadAt(i)
  BY <1>2, <1>6, <1>7 DEF ReadAt
<1>9. /\ \A f \in Fragments : f.end < pos /\ f.end \in Nat
      /\ \A i \in DOMAIN text : i < pos => ReadAt(i)
  BY <1>1, <1>2, ScanFacts DEF BehindInv, FragmentType
<1>10. ReadAt(pos)
  BY <1>2 DEF ReadAt
<1>11. BehindInv'
  <2>1. \A f \in Fragments' : f.end < pos'
    BY <1>2, <1>3, <1>6, <1>9
  <2>2. \A i \in DOMAIN text : i < pos + 1 => i < pos \/ i = pos
    BY <1>3
  <2>3. \A i \in DOMAIN text' : i < pos' => ReadAt(i)'
    BY <1>2, <1>8, <1>9, <1>10, <2>2
  <2>4. pos + 1 \in DOMAIN text => ~Literal(pos + 1)
    <3>1. (pos + 1) - 1 = pos
      BY <1>3
    <3> QED
      BY <1>2, <1>3, <3>1, EscapedIs DEF Literal
  <2>5. (pos \in DOMAIN text => ~Literal(pos))'
    BY <1>2, <1>6, <2>4 DEF Literal, Inside
  <2> QED
    BY <2>1, <2>3, <2>5 DEF BehindInv
<1>12. AllReadInv' /\ NothingLost'
  BY <1>2 DEF AllReadInv, NothingLost
<1> QED
  BY <1>4, <1>5, <1>11, <1>12 DEF ScanInv

(* A fragment is taken where the cursor is: no dollar of the prose, and in  *)
(* no fragment before. What opens in it is none.                            *)
LEMMA FragmentStep ==
  ASSUME ScanInv, TakeFragment
  PROVE  ScanInv'
<1>1. ScanTyped /\ FoundInv /\ BehindInv
  BY DEF ScanInv
<1>2. PICK f \in FragmentAt(text, pos) : out' = Append(out, f) /\ pos' = f.end + 1
  BY DEF TakeFragment
<1>3. scan = "on" /\ pos <= Len(text)
      /\ text' = text /\ stripped' = stripped /\ scan' = scan
  BY DEF TakeFragment
<1>4. text \in Seq(STRING) /\ pos \in Nat \ {0} /\ Len(text) \in Nat /\ pos \in DOMAIN text
      /\ out \in Seq(FragmentType)
  BY <1>1, <1>3 DEF ScanTyped
<1>5. /\ f \in FragmentType /\ f.start = pos /\ f.start < f.end /\ f.end <= Len(text)
      /\ FragmentAt(text, pos) = {f}
  BY <1>2, <1>4, FragmentIs
<1>6. f.end \in Nat \ {0}
  BY <1>5 DEF FragmentType
<1>7. Len(out) \in Nat /\ DOMAIN out = 1 .. Len(out) /\ DOMAIN out' = 1 .. Len(out) + 1
      /\ (\A n \in DOMAIN out : out'[n] = out[n]) /\ out'[Len(out) + 1] = f
  BY <1>2, <1>4
<1>8. \A n \in DOMAIN out' : n \in DOMAIN out \/ n = Len(out) + 1
  BY <1>7
<1>9. Fragments' = Fragments \union {f}
  <2>1. \A n \in DOMAIN out : n \in DOMAIN out'
    BY <1>7
  <2>2. Len(out) + 1 \in DOMAIN out'
    BY <1>7
  <2>3. \A g \in Fragments' : g \in Fragments \/ g = f
    BY <1>7, <1>8 DEF Fragments, ToSet
  <2>4. \A g \in Fragments : g \in Fragments'
    BY <1>7, <2>1 DEF Fragments, ToSet
  <2>5. f \in Fragments'
    BY <1>7, <2>2 DEF Fragments, ToSet
  <2> QED
    BY <2>3, <2>4, <2>5
<1>10. /\ \A g \in Fragments : /\ g.start \in DOMAIN text /\ g.end < pos /\ g.start < g.end
                               /\ g.start \in Nat /\ g.end \in Nat
       /\ \A i \in DOMAIN text : i < pos => ReadAt(i)
       /\ ~Literal(pos)
  BY <1>1, <1>3, <1>4, ScanFacts DEF BehindInv, FragmentType
<1>11. ScanTyped'
  <2>1. out' \in Seq(FragmentType) /\ pos' \in Nat \ {0}
    BY <1>2, <1>4, <1>5, <1>6
  <2> QED
    BY <1>1, <1>3, <2>1 DEF ScanTyped
<1>12. FoundInv'
  <2>1. \A n \in DOMAIN out' :
          out'[n].start \in DOMAIN text' /\ out'[n] \in FragmentAt(text', out'[n].start)
    BY <1>1, <1>2, <1>3, <1>4, <1>5, <1>7, <1>8 DEF FoundInv
  <2>2. ASSUME NEW m \in DOMAIN out', NEW n \in DOMAIN out', m < n
        PROVE  out'[m].end < out'[n].start
    <3>1. m \in DOMAIN out
      BY <1>7, <2>2
    <3>2. CASE n \in DOMAIN out
      BY <1>1, <1>7, <2>2, <3>1, <3>2 DEF FoundInv
    <3>3. CASE n = Len(out) + 1
      <4>1. out[m] \in Fragments
        BY <3>1 DEF Fragments, ToSet
      <4>2. out[m].end < pos
        BY <1>10, <4>1
      <4> QED
        BY <1>5, <1>7, <3>1, <3>3, <4>2
    <3> QED
      BY <1>8, <3>2, <3>3
  <2> QED
    BY <2>1, <2>2 DEF FoundInv
<1>13. \A i : i \in Nat /\ i < pos => (Inside(i)' <=> Inside(i))
  BY <1>5, <1>6, <1>9, <1>4 DEF Inside
<1>14. \A i \in DOMAIN text : i <= pos => (Literal(i)' <=> Literal(i))
  <2> SUFFICES ASSUME NEW i \in DOMAIN text, i <= pos PROVE Literal(i)' <=> Literal(i)
    OBVIOUS
  <2>1. i \in Nat
    BY <1>4
  <2>2. i > 1 => i - 1 \in Nat /\ i - 1 < pos
    BY <1>4, <2>1
  <2>3. i > 1 => (Inside(i - 1)' <=> Inside(i - 1))
    BY <1>13, <2>2
  <2> QED
    BY <1>3, <2>3 DEF Literal
<1>15. ASSUME NEW i \in DOMAIN text, i < pos PROVE ReadAt(i)'
  <2>1. ReadAt(i) /\ i \in Nat
    BY <1>4, <1>10, <1>15
  <2>2. \A g \in FragmentAt(text, i) : g # f
    <3>1. \A g \in FragmentAt(text, i) : g.start = i
      BY <1>4, FragmentIs
    <3> QED
      BY <1>4, <1>5, <1>15, <3>1
  <2>3. \A g \in FragmentAt(text, i) : g \in Fragments' <=> g \in Fragments
    BY <1>9, <2>2
  <2>4. (\E g \in Fragments' : g.start < i /\ i <= g.end)
          <=> \E g \in Fragments : g.start < i /\ i <= g.end
    <3>1. ~(f.start < i)
      BY <1>4, <1>5, <1>15, <2>1
    <3> QED
      BY <1>9, <3>1
  <2>5. Literal(i)' <=> Literal(i)
    BY <1>4, <1>14, <1>15, <2>1
  <2> QED
    BY <1>3, <2>1, <2>3, <2>4, <2>5 DEF ReadAt
<1>16. ASSUME NEW i \in DOMAIN text, i = pos PROVE ReadAt(i)'
  <2>1. \A g \in FragmentAt(text, i) : g \in Fragments'
    BY <1>5, <1>9, <1>16
  <2>2. ~\E g \in Fragments' : g.start < i /\ i <= g.end
    <3>1. ~(f.start < i)
      BY <1>4, <1>5, <1>16
    <3>2. \A g \in Fragments : ~(i <= g.end)
      BY <1>4, <1>10, <1>16
    <3> QED
      BY <1>9, <3>1, <3>2
  <2>3. ~Literal(i)'
    BY <1>4, <1>10, <1>14, <1>16
  <2> QED
    BY <1>3, <2>1, <2>2, <2>3 DEF ReadAt
<1>17. ASSUME NEW i \in DOMAIN text, pos < i, i <= f.end PROVE ReadAt(i)'
  <2>1. ASSUME NEW g \in FragmentAt(text, i) PROVE g \notin Fragments'
    <3>1. g.start = i /\ i \in Nat
      BY <1>4, FragmentIs
    <3>2. \A h \in Fragments : h.start < i
      BY <1>4, <1>10, <1>17, <3>1
    <3>3. f.start < i
      BY <1>5, <1>17
    <3> QED
      BY <1>9, <3>1, <3>2, <3>3
  <2>2. \E g \in Fragments' : g.start < i /\ i <= g.end
    BY <1>5, <1>9, <1>17
  <2> QED
    BY <1>3, <2>1, <2>2 DEF ReadAt
<1>18. BehindInv'
  <2>1. \A g \in Fragments' : g.end < pos'
    BY <1>2, <1>4, <1>5, <1>6, <1>9, <1>10
  <2>2. \A i \in DOMAIN text : i < f.end + 1 => i < pos \/ i = pos \/ (pos < i /\ i <= f.end)
    BY <1>4, <1>6
  <2>3. \A i \in DOMAIN text' : i < pos' => ReadAt(i)'
    BY <1>2, <1>3, <1>15, <1>16, <1>17, <2>2
  <2>4. Inside(f.end)'
    <3>1. f \in Fragments' /\ f.start <= f.end /\ f.end <= f.end
      BY <1>4, <1>5, <1>6, <1>9
    <3> QED
      BY <3>1 DEF Inside
  <2>5. (f.end + 1) - 1 = f.end
    BY <1>6
  <2>6. ~Literal(f.end + 1)'
    BY <2>4, <2>5 DEF Literal
  <2>7. (~Literal(pos))'
    <3>1. Literal(f.end + 1)' <=> (Literal(pos))'
      BY <1>2 DEF Literal, Inside
    <3> QED
      BY <2>6, <3>1
  <2> QED
    BY <2>1, <2>3, <2>7 DEF BehindInv
<1>19. AllReadInv' /\ NothingLost'
  BY <1>3 DEF AllReadInv, NothingLost
<1> QED
  BY <1>11, <1>12, <1>18, <1>19 DEF ScanInv

LEMMA EndStep ==
  ASSUME ScanInv, ScanEnds
  PROVE  ScanInv'
<1>1. ScanTyped /\ FoundInv /\ BehindInv
  BY DEF ScanInv
<1>2. scan = "on" /\ pos > Len(text) /\ scan' = "strip" /\ pos' = 1
      /\ text' = text /\ out' = out /\ stripped' = stripped
  BY DEF ScanEnds
<1>3. ScanTyped'
  BY <1>1, <1>2 DEF ScanTyped
<1>4. FoundInv'
  BY <1>1, <1>2 DEF FoundInv
<1>5. Fragments' = Fragments
  BY <1>2 DEF Fragments
<1>6. \A i : ReadAt(i)' <=> ReadAt(i)
  BY <1>2, <1>5 DEF ReadAt, Literal, Inside
<1>7. \A i \in DOMAIN text : i < pos
  BY <1>1, <1>2 DEF ScanTyped
<1>8. AllReadInv'
  BY <1>1, <1>2, <1>6, <1>7 DEF AllReadInv, BehindInv
<1>9. BehindInv' /\ NothingLost'
  BY <1>2 DEF BehindInv, NothingLost
<1> QED
  BY <1>3, <1>4, <1>8, <1>9 DEF ScanInv

Ascending(s) == \A m, n \in DOMAIN s : m < n => s[m] < s[n]

(* Sequences that ascend, each above the one before, ascend when they are  *)
(* put one after the other.                                                *)
LEMMA FlatAscends ==
  ASSUME NEW ss \in Seq(Seq(Nat)), Len(ss) # 0,
         \A n \in DOMAIN ss : Ascending(ss[n]),
         \A m, n \in DOMAIN ss : m < n => \A x \in Range(ss[m]), y \in Range(ss[n]) : x < y
  PROVE  /\ FlattenSeq(ss) \in Seq(Nat)
         /\ Ascending(FlattenSeq(ss))
         /\ \A x : x \in Range(FlattenSeq(ss)) <=> \E n \in DOMAIN ss : x \in Range(ss[n])
<1> DEFINE N == Len(ss)
<1>1. N \in Nat \ {0} /\ DOMAIN ss = 1 .. N
  OBVIOUS
<1>2. FlatUpTo(FlattenSeq(ss), ss, N, Nat)
  BY Flattened
<1>3. PICK f : IsFlat(f, ss, N) /\ FlattenSeq(ss) = f[N]
  BY <1>1, FlatIs
<1> HIDE DEF N
<1>4. \A n \in 1 .. N : f[n] = IF n = 1 THEN ss[n] ELSE f[n - 1] \o ss[n]
  BY <1>3 DEF IsFlat
<1>5. \A n \in 1 .. N : ss[n] \in Seq(Nat) /\ Ascending(ss[n])
  <2>1. \A n \in DOMAIN ss : ss[n] \in Seq(Nat)
    OBVIOUS
  <2> QED
    BY <1>1, <2>1
<1> DEFINE Upto(n) == /\ f[n] \in Seq(Nat)
                      /\ Ascending(f[n])
                      /\ \A x \in Range(f[n]) : \E m \in 1 .. n : x \in Range(ss[m])
           S == {n \in 0 .. N : n # 0 => Upto(n)}
<1>6. 0 \in S
  BY <1>1
<1>7. ASSUME NEW n \in 1 .. N, n - 1 \in S PROVE n \in S
  <2>1. n \in 0 .. N /\ n \in Nat /\ ss[n] \in Seq(Nat) /\ Ascending(ss[n])
    BY <1>1, <1>5
  <2>2. CASE n = 1
    <3>1. f[n] = ss[n] /\ n \in 1 .. n
      BY <1>4, <2>1, <2>2
    <3>2. Upto(n)
      BY <2>1, <3>1
    <3> QED
      BY <2>1, <3>2
  <2>3. CASE n # 1
    <3> DEFINE p == n - 1
    <3>1. p \in 1 .. N /\ p \in Nat /\ p < n /\ p # 0
      BY <1>1, <2>1, <2>3
    <3>2. Upto(p)
      BY <1>7, <3>1
    <3>3. f[n] = f[p] \o ss[n]
      BY <1>4, <2>3
    <3> HIDE DEF p
    <3>4. \A m \in 1 .. p : m \in 1 .. n /\ m \in DOMAIN ss /\ m < n
      BY <1>1, <2>1, <3>1
    <3>5. n \in DOMAIN ss /\ n \in 1 .. n
      BY <1>1, <2>1
    <3> DEFINE s == f[p]
               u == ss[n]
    <3>6. s \in Seq(Nat) /\ u \in Seq(Nat) /\ Ascending(s) /\ Ascending(u)
      BY <2>1, <3>2
    <3>7. \A x \in Range(s), y \in Range(u) : x < y
      <4>1. \A x \in Range(s) : \E m \in 1 .. p : x \in Range(ss[m])
        BY <3>2
      <4> QED
        BY <3>4, <3>5, <4>1
    <3>8. \A x \in Range(s) : \E m \in 1 .. n : x \in Range(ss[m])
      BY <3>2, <3>4
    <3> HIDE DEF s, u
    <3>9. /\ s \o u \in Seq(Nat)
          /\ Range(s \o u) = Range(s) \union Range(u)
      BY <3>6, Joined
    <3>10. Ascending(s \o u)
      <4>1. Len(s) \in Nat /\ Len(u) \in Nat /\ Len(s \o u) = Len(s) + Len(u)
            /\ DOMAIN s = 1 .. Len(s) /\ DOMAIN (s \o u) = 1 .. Len(s) + Len(u)
        BY <3>6
      <4>2. \A k \in DOMAIN (s \o u) :
              /\ k \in DOMAIN s => (s \o u)[k] = s[k]
              /\ k \notin DOMAIN s => k - Len(s) \in DOMAIN u /\ (s \o u)[k] = u[k - Len(s)]
        BY <3>6
      <4> SUFFICES ASSUME NEW k \in DOMAIN (s \o u), NEW l \in DOMAIN (s \o u), k < l
                   PROVE  (s \o u)[k] < (s \o u)[l]
        BY DEF Ascending
      <4>3. CASE l \in DOMAIN s
        <5>1. k \in DOMAIN s
          BY <4>1, <4>3
        <5> QED
          BY <3>6, <4>2, <4>3, <5>1 DEF Ascending
      <4>4. CASE k \notin DOMAIN s
        <5>1. l \notin DOMAIN s
          BY <4>1, <4>4
        <5>2. k - Len(s) < l - Len(s)
          BY <4>1
        <5> QED
          BY <3>6, <4>2, <4>4, <5>1, <5>2 DEF Ascending
      <4>5. CASE k \in DOMAIN s /\ l \notin DOMAIN s
        <5>1. (s \o u)[k] \in Range(s) /\ (s \o u)[l] \in Range(u)
          BY <4>2, <4>5 DEF Range
        <5> QED
          BY <3>7, <5>1
      <4> QED
        BY <4>3, <4>4, <4>5
    <3>11. \A x \in Range(s \o u) : \E m \in 1 .. n : x \in Range(ss[m])
      BY <3>5, <3>8, <3>9 DEF u
    <3>12. f[n] = s \o u
      BY <3>3 DEF s, u
    <3>13. Upto(n)
      BY <3>9, <3>10, <3>11, <3>12
    <3> QED
      BY <2>1, <3>13
  <2> QED
    BY <2>2, <2>3
<1> HIDE DEF S
<1>8. N \in S
  <2>1. 0 .. N \subseteq S
    BY <1>1, <1>6, <1>7, Climb
  <2> QED
    BY <1>1, <2>1
<1>9. Upto(N)
  BY <1>1, <1>8 DEF S
<1> QED
  BY <1>1, <1>2, <1>3, <1>9 DEF FlatUpTo

(* What Strip puts together: cursor and until of its part n. *)
Cursor(n) == IF n = 0 THEN 1 ELSE out[n].end + 1

Until(n) == IF n = Len(out) THEN Len(text) ELSE out[n + 1].start - 1

PartOf(n) == [i \in 1 .. Until(n) + 1 - Cursor(n) |-> Cursor(n) + i - 1]

(* The parts are what is before, between and after the fragments.          *)
LEMMA PartsAre ==
  ASSUME ScanTyped, FoundInv, NEW n \in 0 .. Len(out)
  PROVE  /\ Cursor(n) \in Nat \ {0} /\ Until(n) \in Nat /\ Until(n) <= Len(text)
         /\ Until(n) + 1 - Cursor(n) \in Nat
         /\ PartOf(n) \in Seq(Nat) /\ Ascending(PartOf(n))
         /\ Range(PartOf(n)) = Cursor(n) .. Until(n)
<1> DEFINE T == Len(text)
           L == Len(out)
<1>1. /\ T \in Nat /\ DOMAIN text = 1 .. T /\ L \in Nat /\ DOMAIN out = 1 .. L
      /\ n \in 0 .. L
  BY ScanFacts
<1> HIDE DEF T, L
<1>2. \A m \in DOMAIN out : /\ out[m].start \in 1 .. T /\ out[m].end \in Nat
                            /\ out[m].start < out[m].end /\ out[m].end <= T
  <2>1. \A m \in DOMAIN out : out[m] \in Fragments
    BY DEF Fragments, ToSet
  <2> QED
    BY <1>1, <2>1, ScanFacts DEF FragmentType, T
<1>3. \A k, m \in DOMAIN out : k < m => out[k].end < out[m].start
  BY DEF FoundInv
<1>4. Cursor(n) \in Nat \ {0} /\ Cursor(n) <= T + 1
  <2>1. CASE n = 0
    BY <1>1, <2>1 DEF Cursor
  <2>2. CASE n # 0
    <3>1. n \in DOMAIN out
      BY <1>1, <2>2
    <3>2. Cursor(n) = out[n].end + 1
      BY <2>2 DEF Cursor
    <3> QED
      BY <1>1, <1>2, <3>1, <3>2
  <2> QED
    BY <2>1, <2>2
<1>5. Until(n) \in Nat /\ Until(n) <= T /\ Cursor(n) <= Until(n) + 1
  <2>1. CASE n = L
    BY <1>1, <1>4, <2>1 DEF Until, L, T
  <2>2. CASE n # L
    <3>1. n + 1 \in DOMAIN out /\ (n # 0 => n \in DOMAIN out /\ n < n + 1)
      BY <1>1, <2>2
    <3>2. Until(n) = out[n + 1].start - 1
      BY <2>2 DEF Until, L, T
    <3>3. out[n + 1].start \in 1 .. T
      BY <1>2, <3>1
    <3>4. n # 0 => out[n].end < out[n + 1].start
      BY <1>3, <3>1
    <3>5. Cursor(n) <= out[n + 1].start
      <4>1. CASE n = 0
        BY <3>3, <4>1 DEF Cursor
      <4>2. CASE n # 0
        <5>1. out[n].end \in Nat /\ Cursor(n) = out[n].end + 1
          BY <1>2, <3>1, <4>2 DEF Cursor
        <5> QED
          BY <3>3, <3>4, <4>2, <5>1
      <4> QED
        BY <4>1, <4>2
    <3> QED
      BY <1>1, <1>4, <3>2, <3>3, <3>5
  <2> QED
    BY <2>1, <2>2
<1> DEFINE c == Cursor(n)
           l == Until(n) + 1 - Cursor(n)
<1>6. c \in Nat \ {0} /\ l \in Nat /\ Until(n) = c + l - 1 /\ Until(n) \in Nat
  BY <1>4, <1>5
<1>7. PartOf(n) = [i \in 1 .. l |-> c + i - 1]
  BY DEF PartOf
<1> HIDE DEF c, l
<1>8. \A i \in 1 .. l : c + i - 1 \in Nat
  BY <1>6
<1>9. PartOf(n) \in Seq(Nat)
  BY <1>6, <1>7, <1>8
<1>10. DOMAIN PartOf(n) = 1 .. l /\ \A i \in 1 .. l : PartOf(n)[i] = c + i - 1
  BY <1>7
<1>11. Ascending(PartOf(n))
  BY <1>6, <1>10 DEF Ascending
<1>12. Range(PartOf(n)) = c .. Until(n)
  <2>1. \A i \in 1 .. l : c + i - 1 \in c .. Until(n)
    BY <1>6
  <2>2. \A x \in c .. Until(n) : x - c + 1 \in 1 .. l /\ c + (x - c + 1) - 1 = x
    BY <1>6
  <2>3. \A x \in Range(PartOf(n)) : x \in c .. Until(n)
    BY <1>10, <2>1 DEF Range
  <2>4. \A x \in c .. Until(n) : x \in Range(PartOf(n))
    BY <1>10, <2>2 DEF Range
  <2> QED
    BY <2>3, <2>4
<1> QED
  BY <1>4, <1>5, <1>6, <1>9, <1>11, <1>12 DEF c, l, T

(* What is in no fragment is in exactly one part. *)
LEMMA PartsMakeTheRest ==
  ASSUME ScanTyped, FoundInv
  PROVE  /\ \A m, n \in 0 .. Len(out) : m < n => Until(m) < Cursor(n)
         /\ \A i : (\E n \in 0 .. Len(out) : i \in Cursor(n) .. Until(n))
                     <=> i \in DOMAIN text /\ ~Inside(i)
<1> DEFINE T == Len(text)
           L == Len(out)
<1>1. T \in Nat /\ DOMAIN text = 1 .. T /\ L \in Nat /\ DOMAIN out = 1 .. L
  BY ScanFacts
<1> HIDE DEF T, L
<1>2. \A m \in DOMAIN out : /\ out[m].start \in 1 .. T /\ out[m].end \in Nat
                            /\ out[m].start < out[m].end /\ out[m].end <= T
  <2>1. \A m \in DOMAIN out : out[m] \in Fragments
    BY DEF Fragments, ToSet
  <2> QED
    BY <1>1, <2>1, ScanFacts DEF FragmentType, T
<1>3. \A k, m \in DOMAIN out : k < m => out[k].end < out[m].start
  BY DEF FoundInv
<1>4. \A k, m \in DOMAIN out : k <= m => out[k].end <= out[m].end /\ out[k].start <= out[m].start
  <2> SUFFICES ASSUME NEW k \in DOMAIN out, NEW m \in DOMAIN out, k <= m
               PROVE  out[k].end <= out[m].end /\ out[k].start <= out[m].start
    OBVIOUS
  <2>1. out[k].start \in Nat /\ out[k].end \in Nat /\ out[m].start \in Nat /\ out[m].end \in Nat
        /\ out[k].start < out[k].end /\ out[m].start < out[m].end
    BY <1>1, <1>2
  <2>2. k = m \/ k < m
    BY <1>1
  <2>3. k < m => out[k].end < out[m].start
    BY <1>3
  <2> QED
    BY <2>1, <2>2, <2>3
<1>5. \A n \in 0 .. L :
        /\ Cursor(n) \in Nat \ {0} /\ Until(n) \in Nat /\ Until(n) <= T
        /\ n = 0 => Cursor(n) = 1
        /\ n # 0 => n \in DOMAIN out /\ Cursor(n) = out[n].end + 1
        /\ n = L => Until(n) = T
        /\ n # L => n + 1 \in DOMAIN out /\ Until(n) = out[n + 1].start - 1
  <2> TAKE n \in 0 .. L
  <2>1. Cursor(n) \in Nat \ {0} /\ Until(n) \in Nat /\ Until(n) <= T
    BY PartsAre DEF T, L
  <2>2. n # 0 => n \in DOMAIN out
    BY <1>1
  <2>3. n # L => n + 1 \in DOMAIN out
    BY <1>1
  <2>4. Cursor(n) = IF n = 0 THEN 1 ELSE out[n].end + 1
    BY DEF Cursor
  <2>5. Until(n) = IF n = L THEN T ELSE out[n + 1].start - 1
    BY DEF Until, T, L
  <2> QED
    BY <2>1, <2>2, <2>3, <2>4, <2>5
<1>6. ASSUME NEW m \in 0 .. L, NEW n \in 0 .. L, m < n
      PROVE  Until(m) < Cursor(n)
  <2>1. m + 1 \in DOMAIN out /\ n \in DOMAIN out /\ m + 1 <= n /\ m # L /\ n # 0
    BY <1>1, <1>6
  <2>2. out[m + 1].start <= out[n].start /\ out[n].start < out[n].end
    BY <1>2, <1>4, <2>1
  <2>3. Until(m) = out[m + 1].start - 1 /\ Cursor(n) = out[n].end + 1
    BY <1>5, <2>1
  <2>4. out[m + 1].start \in Nat /\ out[n].start \in Nat /\ out[n].end \in Nat
    BY <1>1, <1>2, <2>1
  <2> QED
    BY <2>2, <2>3, <2>4
<1>7. \A i : Inside(i) <=> \E k \in DOMAIN out : out[k].start <= i /\ i <= out[k].end
  BY DEF Inside, Fragments, ToSet
<1>8. ASSUME NEW n \in 0 .. L, NEW i \in Cursor(n) .. Until(n)
      PROVE  i \in DOMAIN text /\ ~Inside(i)
  <2>1. i \in Nat /\ i \in DOMAIN text /\ Cursor(n) <= i /\ i <= Until(n)
    BY <1>1, <1>5
  <2>2. ASSUME NEW k \in DOMAIN out, out[k].start <= i, i <= out[k].end PROVE FALSE
    <3>1. out[k].start \in Nat /\ out[k].end \in Nat
      BY <1>1, <1>2
    <3>2. CASE k <= n
      <4>1. n # 0 /\ n \in DOMAIN out
        BY <1>1, <3>2
      <4>2. out[k].end <= out[n].end /\ Cursor(n) = out[n].end + 1 /\ out[n].end \in Nat
        BY <1>2, <1>4, <1>5, <3>2, <4>1
      <4> QED
        BY <2>1, <2>2, <3>1, <4>2
    <3>3. CASE ~(k <= n)
      <4>1. n # L /\ n + 1 \in DOMAIN out /\ n + 1 <= k
        BY <1>1, <3>3
      <4>2. /\ out[n + 1].start <= out[k].start /\ Until(n) = out[n + 1].start - 1
            /\ out[n + 1].start \in Nat
        <5>1. out[n + 1].start <= out[k].start
          BY <1>4, <4>1
        <5>2. out[n + 1].start \in 1 .. T
          BY <1>2, <4>1
        <5>3. Until(n) = out[n + 1].start - 1
          BY <1>5, <4>1
        <5> QED
          BY <1>1, <5>1, <5>2, <5>3
      <4> QED
        BY <2>1, <2>2, <3>1, <4>2
    <3> QED
      BY <3>2, <3>3
  <2> QED
    BY <1>7, <2>1, <2>2
<1>9. ASSUME NEW i \in DOMAIN text, ~Inside(i)
      PROVE  \E n \in 0 .. L : i \in Cursor(n) .. Until(n)
  <2> DEFINE S == {m \in 1 .. L + 1 : m = L + 1 \/ i < out[m].start}
  <2>1. L + 1 \in S /\ S \subseteq Nat
    BY <1>1
  <2>2. PICK m \in S : \A k \in S : m <= k
    BY <2>1, Least
  <2>3. m \in 1 .. L + 1 /\ m - 1 \in 0 .. L /\ (m - 1) + 1 = m /\ i \in Nat
    BY <1>1
  <2>4. m = L + 1 \/ i < out[m].start
    OBVIOUS
  <2>5. m - 1 \in S => FALSE
    <3>1. m - 1 \in S => m <= m - 1
      BY <2>2
    <3> QED
      BY <2>3, <3>1
  <2>6. m - 1 # 0 => m - 1 \in DOMAIN out /\ ~(i < out[m - 1].start)
    BY <1>1, <2>3, <2>5
  <2> HIDE DEF S
  <2>7. Cursor(m - 1) <= i
    <3>1. CASE m - 1 = 0
      <4>1. Cursor(m - 1) = 1
        BY <1>5, <2>3, <3>1
      <4> QED
        BY <1>1, <4>1
    <3>2. CASE m - 1 # 0
      <4>1. m - 1 \in DOMAIN out /\ ~(i < out[m - 1].start)
        BY <2>6, <3>2
      <4>2. out[m - 1].start \in Nat /\ out[m - 1].end \in Nat
        BY <1>1, <1>2, <4>1
      <4>3. ~(i <= out[m - 1].end)
        BY <1>7, <1>9, <2>3, <4>1, <4>2
      <4>4. Cursor(m - 1) = out[m - 1].end + 1
        BY <1>5, <2>3, <3>2
      <4> QED
        BY <2>3, <4>2, <4>3, <4>4
    <3> QED
      BY <3>1, <3>2
  <2>8. i <= Until(m - 1)
    <3>1. CASE m = L + 1
      <4>1. m - 1 = L
        BY <1>1, <3>1
      <4>2. Until(m - 1) = T
        BY <1>5, <2>3, <4>1
      <4> QED
        BY <1>1, <4>2
    <3>2. CASE m # L + 1
      <4>1. m - 1 # L /\ m \in DOMAIN out
        BY <1>1, <2>3, <3>2
      <4>2. Until(m - 1) = out[m].start - 1
        BY <1>5, <2>3, <4>1
      <4>3. i < out[m].start /\ out[m].start \in Nat
        BY <1>1, <1>2, <2>4, <3>2, <4>1
      <4> QED
        BY <2>3, <4>2, <4>3
    <3> QED
      BY <3>1, <3>2
  <2>9. Cursor(m - 1) \in Nat /\ Until(m - 1) \in Nat
    BY <1>5, <2>3
  <2>10. i \in Cursor(m - 1) .. Until(m - 1)
    BY <2>3, <2>7, <2>8, <2>9
  <2> QED
    BY <2>3, <2>10
<1> QED
  BY <1>6, <1>8, <1>9 DEF L

(* What is left of the text is the text without its fragments.             *)
LEMMA StripStep ==
  ASSUME ScanInv, Strip
  PROVE  ScanInv'
<1>1. ScanTyped /\ FoundInv /\ AllReadInv
  BY DEF ScanInv
<1>2. scan = "strip" /\ scan' = "done" /\ text' = text /\ pos' = pos /\ out' = out
  BY DEF Strip
<1> DEFINE N == Len(out) + 1
           ss == [n \in 1 .. N |-> PartOf(n - 1)]
<1>3. stripped' = FlattenSeq(ss)
  BY DEF Strip, PartOf, Cursor, Until
<1>4. N \in Nat \ {0} /\ \A n \in 1 .. N : n - 1 \in 0 .. Len(out) /\ n \in Nat
  BY <1>1 DEF ScanTyped
<1>5. \A n \in 1 .. N : /\ ss[n] = PartOf(n - 1) /\ ss[n] \in Seq(Nat) /\ Ascending(ss[n])
                        /\ Range(ss[n]) = Cursor(n - 1) .. Until(n - 1)
                        /\ Cursor(n - 1) \in Nat /\ Until(n - 1) \in Nat
  BY <1>1, <1>4, PartsAre
<1>6. ss \in Seq(Seq(Nat)) /\ Len(ss) = N /\ DOMAIN ss = 1 .. N
  <2>1. \A n \in 1 .. N : PartOf(n - 1) \in Seq(Nat)
    BY <1>5
  <2> QED
    BY <1>4, <2>1
<1> HIDE DEF ss
<1>7. ASSUME NEW m \in DOMAIN ss, NEW n \in DOMAIN ss, m < n,
             NEW x \in Range(ss[m]), NEW y \in Range(ss[n])
      PROVE  x < y
  <2>1. m - 1 \in 0 .. Len(out) /\ n - 1 \in 0 .. Len(out) /\ m - 1 < n - 1
    BY <1>4, <1>6, <1>7
  <2>2. Until(m - 1) < Cursor(n - 1)
    BY <1>1, <2>1, PartsMakeTheRest
  <2>3. x \in Cursor(m - 1) .. Until(m - 1) /\ y \in Cursor(n - 1) .. Until(n - 1)
        /\ Until(m - 1) \in Nat /\ Cursor(n - 1) \in Nat /\ Cursor(m - 1) \in Nat
        /\ Until(n - 1) \in Nat
    BY <1>5, <1>6
  <2> QED
    BY <2>2, <2>3
<1>8. /\ stripped' \in Seq(Nat) /\ Ascending(stripped')
      /\ \A x : x \in Range(stripped') <=> \E n \in DOMAIN ss : x \in Range(ss[n])
  <2>1. Len(ss) # 0 /\ \A n \in DOMAIN ss : Ascending(ss[n])
    BY <1>4, <1>5, <1>6
  <2>2. \A m, n \in DOMAIN ss : m < n => \A x \in Range(ss[m]), y \in Range(ss[n]) : x < y
    BY <1>7
  <2> QED
    BY <1>3, <1>6, <2>1, <2>2, FlatAscends
<1>9. \A x : x \in Range(stripped') <=> x \in DOMAIN text /\ ~Inside(x)
  <2>1. \A x : (\E n \in DOMAIN ss : x \in Range(ss[n]))
               <=> \E n \in 0 .. Len(out) : x \in Cursor(n) .. Until(n)
    <3>1. \A n \in 0 .. Len(out) : n + 1 \in 1 .. N /\ (n + 1) - 1 = n
      BY <1>1 DEF ScanTyped
    <3>2. \A n \in 0 .. Len(out) : n + 1 \in DOMAIN ss /\ Range(ss[n + 1]) = Cursor(n) .. Until(n)
      <4> TAKE n \in 0 .. Len(out)
      <4>1. n + 1 \in 1 .. N /\ (n + 1) - 1 = n
        BY <3>1
      <4>2. Range(ss[n + 1]) = Cursor((n + 1) - 1) .. Until((n + 1) - 1)
        BY <1>5, <4>1
      <4> QED
        BY <1>6, <4>1, <4>2
    <3> HIDE DEF N
    <3>3. \A n \in DOMAIN ss : n - 1 \in 0 .. Len(out) /\ Range(ss[n]) = Cursor(n - 1) .. Until(n - 1)
      BY <1>4, <1>5, <1>6
    <3> QED
      BY <3>2, <3>3
  <2> QED
    BY <1>1, <1>8, <2>1, PartsMakeTheRest
<1>10. ScanTyped'
  BY <1>1, <1>2 DEF ScanTyped
<1>11. FoundInv'
  BY <1>1, <1>2 DEF FoundInv
<1>12. Fragments' = Fragments
  BY <1>2 DEF Fragments
<1>13. \A i : Inside(i)' <=> Inside(i)
  BY <1>12 DEF Inside
<1>14. NothingLost'
  <2>1. ToSet(stripped') = Range(stripped')
    BY DEF ToSet, Range
  <2>2. ToSet(stripped') = {i \in DOMAIN text : ~Inside(i)}
    BY <1>9, <2>1
  <2>3. {i \in DOMAIN text : ~Inside(i)}' = {i \in DOMAIN text : ~Inside(i)}
    BY <1>2, <1>13
  <2>4. \A m, n \in DOMAIN stripped' : m < n => stripped'[m] < stripped'[n]
    BY <1>8 DEF Ascending
  <2> QED
    BY <2>2, <2>3, <2>4 DEF NothingLost
<1>15. AllReadInv'
  <2>1. \A i : ReadAt(i)' <=> ReadAt(i)
    BY <1>2, <1>12 DEF ReadAt, Literal, Inside
  <2> QED
    BY <1>1, <1>2, <2>1 DEF AllReadInv
<1>16. BehindInv'
  BY <1>2 DEF BehindInv
<1> QED
  BY <1>10, <1>11, <1>14, <1>15, <1>16 DEF ScanInv

(* Every dollar that opens a fragment is closed where the loop ended. *)
LEMMA FoundDollarsClose ==
  ASSUME ScanTyped, FoundInv
  PROVE  DollarsClose
<1> SUFFICES ASSUME NEW f \in Fragments, f.delimiter = <<"$">>
             PROVE  /\ text[f.end] = "$"
                    /\ \A i \in f.start + 1 .. f.end :
                         text[i] = "$" => (i = f.end <=> ~OddBefore(text, f.start, i))
  BY DEF DollarsClose, OddBackslashes, OddBefore
<1>1. f.start \in DOMAIN text /\ f \in FragmentAt(text, f.start) /\ text \in Seq(STRING)
  BY ScanFacts DEF ScanTyped
<1>2. text[f.start] = "$" /\ CloseDollar(text, f.start) # 0 /\ f.end = CloseDollar(text, f.start)
  BY <1>1, FragmentIs
<1> QED
  BY <1>1, <1>2, DollarCloses

(* The scan keeps its invariant. *)
LEMMA ScanInvariance == ScanSpec => []ScanInv
<1>1. ScanInv /\ [ScanNext]_scan_vars => ScanInv'
  <2> SUFFICES ASSUME ScanInv, [ScanNext]_scan_vars PROVE ScanInv'
    OBVIOUS
  <2>1. CASE UNCHANGED scan_vars
    <3>1. text' = text /\ pos' = pos /\ out' = out /\ stripped' = stripped /\ scan' = scan
      BY <2>1 DEF scan_vars
    <3>2. ScanTyped' /\ FoundInv'
      BY <3>1 DEF ScanInv, ScanTyped, FoundInv
    <3>3. Fragments' = Fragments
      BY <3>1 DEF Fragments
    <3>4. \A i : ReadAt(i)' <=> ReadAt(i)
      BY <3>1, <3>3 DEF ReadAt, Literal, Inside
    <3>5. BehindInv' /\ AllReadInv'
      BY <3>1, <3>3, <3>4 DEF ScanInv, BehindInv, AllReadInv, Literal, Inside
    <3>6. NothingLost'
      BY <3>1, <3>3 DEF ScanInv, NothingLost, Inside
    <3> QED
      BY <3>2, <3>5, <3>6 DEF ScanInv
  <2>2. CASE ScanNext
    BY <2>2, EscapedStep, FragmentStep, AdvanceStep, EndStep, StripStep DEF ScanNext
  <2> QED
    BY <2>1, <2>2
<1> QED
  BY <1>1, ScanInitHolds, PTL DEF ScanSpec

(* Whatever delimiters a text leaves open or nests, the loop finds the     *)
(* leftmost reading of it, up to where a "$$" closes at an escaped dollar, *)
(* and the step is its math and its prose (mathtex.py 57-160).             *)
THEOREM MathIsFound == ScanSpec => []TextIsRead
<1>1. ScanInv => TextIsRead
  <2> SUFFICES ASSUME ScanInv PROVE TextIsRead
    OBVIOUS
  <2>1. ScanIsLeftmost
    BY DEF ScanInv, FoundInv, AllReadInv, ReadAt, ScanIsLeftmost
  <2>2. DollarsClose
    BY FoundDollarsClose DEF ScanInv
  <2> QED
    BY <2>1, <2>2 DEF ScanInv, TextIsRead
<1> QED
  BY <1>1, ScanInvariance, PTL
=============================================================================
