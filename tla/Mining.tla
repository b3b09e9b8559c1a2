------------------------------- MODULE Mining -------------------------------
(***************************************************************************)
(* Calls of the mining pipeline (mining/pipeline.mine) behind kalinov mine *)
(* and the mine tool of the server. mine is the one tool that gives its    *)
(* task's turn away (while it waits for arXiv), so calls of one server     *)
(* overlap, and commands overlap anyway. They share the output directory.  *)
(*                                                                         *)
(* The steps after the response are one turn of the event loop in a        *)
(* server; commands are processes and interleave at each of them.          *)
(***************************************************************************)
EXTENDS Optional, Sequences, SequencesExt

CONSTANTS
  Calls,               (* a call is also the id of the run it starts *)
  Feeds,               (* what arXiv may answer: sequences of entries *)
  Recognised,          (* sentences the pattern table of the extractor knows *)
  Limits,              (* --limit *)
  Unwritten            (* a feature file opened and not yet written *)

PaperType == [archive : STRING, number : Nat, sentences : Seq(STRING)]

ItemType ==
  [url : Nat, license : {"arxiv-noEx-distribute"}, text : Seq(STRING), of : PaperType]

ClaimType == [text : STRING, source_item : ItemType]

AnswerType ==
  [kind : {"ok", "gated", "refused", "http", "raised", "killed"}, candidates : Nat]

ASSUME MiningAssumption ==
  /\ Limits \subseteq Nat
  /\ Feeds \subseteq Seq(PaperType \union {None})
  /\ None \notin Calls \union PaperType \union AnswerType \union Seq(STRING)
  /\ Unwritten \notin Seq(ClaimType)

VARIABLES
  call,                (* per call: [pc, limit, rest, claims, answer] *)
  active,              (* per task: the active run, None if there is none *)
  log,                 (* mining.jsonl by run *)
  feature_files        (* feature files under the output directory *)

mining_vars == <<call, active, log, feature_files>>

NewCall == [pc |-> "idle", limit |-> 0, rest |-> <<>>, claims |-> <<>>, answer |-> None]

MiningInit ==
  /\ call = [c \in Calls |-> NewCall]
  /\ active = [c \in Calls |-> None]
  /\ log = [c \in Calls |-> <<>>]
  /\ feature_files = <<>>

At(c, pc) == call[c].pc = pc

Step(c, changes) == call' = [call EXCEPT ![c] = changes]

-----------------------------------------------------------------------------
(* The pieces of the pipeline. *)

(* An entry of the feed, unless it lacks an id, a title or a summary. The  *)
(* id is what follows the last slash of http://arxiv.org/abs/<archive>/<n> *)
(* or .../abs/<n>, and the url is made of it again.                        *)
SourceItem(entry) ==
  [url |-> entry.number, license |-> "arxiv-noEx-distribute", text |-> entry.sentences, of |-> entry]

ItemsOf(feed, limit) ==
  FlattenSeq([i \in 1 .. IF limit < Len(feed) THEN limit ELSE Len(feed) |->
    IF feed[i] = None THEN <<>> ELSE <<SourceItem(feed[i])>>])

(* HeuristicExtractor.extract *)
Extract(item) ==
  FlattenSeq([i \in DOMAIN item.text |->
    IF item.text[i] \in Recognised THEN <<[text |-> item.text[i], source_item |-> item]>>
    ELSE <<>>])

TextsOf(claims) == [i \in DOMAIN claims |-> claims[i].text]

(* Mutant: the name has only the first claim in its hash. *)
FileNameOfFirst(claims) == <<claims[1].text>>

(* <feature>__<sha8 of the texts>: eight digits are taken to tell texts    *)
(* apart.                                                                  *)
FileName(claims) == TextsOf(claims)

Attributed(claims) ==
  \A i \in DOMAIN claims : claims[i].source_item.url # None /\ claims[i].source_item.license # None

(* Mutant: the active run is a global that the latest call has set. *)
MiningRunGlobal(c) ==
  LET others == {d \in Calls \ {c} : active[d] # None}
  IN IF others # {} THEN CHOOSE d \in others : TRUE ELSE active[c]

(* telemetry.active_run: a context variable, one per task. *)
MiningRun(c) == active[c]

MiningLog(c, record) ==
  log' = IF MiningRun(c) = None THEN log ELSE [log EXCEPT ![MiningRun(c)] = Append(@, record)]

Put(name, content) ==
  feature_files' = [n \in DOMAIN feature_files \union {name} |-> IF n = name THEN content ELSE feature_files[n]]

(* The command or the tool ends. A command's exit code is 0 for "ok", 4    *)
(* for "gated", 2 for a MiningError ("refused"), 1 for an HTTP failure and *)
(* a traceback for the rest; the tool answers an error for the second and  *)
(* third, and raises for the last two.                                     *)
EndCall(c, answer) ==
  /\ Step(c, [call[c] EXCEPT !.pc = "done", !.answer = answer])
  /\ active' = [active EXCEPT ![c] = None]

Failure(kind) == [kind |-> kind, candidates |-> 0]

-----------------------------------------------------------------------------
(* --network, or network=true, was not given. *)
Gate(c) ==
  /\ At(c, "idle")
  /\ EndCall(c, Failure("gated"))
  /\ UNCHANGED <<log, feature_files>>

StartMining(c, limit) ==
  /\ At(c, "idle")
  /\ active' = [active EXCEPT ![c] = c]
  /\ Step(c, [call[c] EXCEPT !.pc = "ready", !.limit = limit])
  /\ UNCHANGED <<log, feature_files>>

UnknownSource(c) ==
  /\ At(c, "ready")
  /\ EndCall(c, Failure("refused"))
  /\ UNCHANGED <<log, feature_files>>

NothingAsked(c) ==
  /\ At(c, "ready") /\ call[c].limit = 0
  /\ Step(c, [call[c] EXCEPT !.pc = "extracting"])
  /\ UNCHANGED <<active, log, feature_files>>

(* _throttle looks at the end of the last request of its own source: mine  *)
(* makes a source for every call, so there is none and it never waits.     *)
Request(c) ==
  /\ At(c, "ready") /\ call[c].limit > 0
  /\ Step(c, [call[c] EXCEPT !.pc = "waiting"])
  /\ UNCHANGED <<active, log, feature_files>>

Respond(c, feed) ==
  /\ At(c, "waiting")
  /\ Step(c, [call[c] EXCEPT !.pc = "extracting", !.rest = ItemsOf(feed, call[c].limit)])
  /\ UNCHANGED <<active, log, feature_files>>

(* Timeout or status ("http"), or a body that is no XML ("raised"). *)
RequestFails(c, kind) ==
  /\ At(c, "waiting")
  /\ EndCall(c, Failure(kind))
  /\ UNCHANGED <<log, feature_files>>

ExtractNext(c) ==
  LET item == Head(call[c].rest)
      claims == Extract(item)
  IN
  /\ At(c, "extracting") /\ call[c].rest # <<>>
  /\ Step(c, [call[c] EXCEPT !.rest = Tail(@), !.claims = @ \o claims])
  /\ MiningLog(c, [by |-> c, candidate_count |-> Len(claims), emitted_path |-> None])
  /\ UNCHANGED <<active, feature_files>>

NoClaims(c) ==
  /\ At(c, "extracting") /\ call[c].rest = <<>> /\ call[c].claims = <<>>
  /\ EndCall(c, [kind |-> "ok", candidates |-> 0])
  /\ UNCHANGED <<log, feature_files>>

OpenFeature(c) ==
  /\ At(c, "extracting") /\ call[c].rest = <<>> /\ call[c].claims # <<>>
  /\ Attributed(call[c].claims)
  /\ Put(FileName(call[c].claims), Unwritten)
  /\ Step(c, [call[c] EXCEPT !.pc = "writing"])
  /\ UNCHANGED <<active, log>>

(* A MiningError for a claim without a url or a license; or the directory  *)
(* or the file cannot be made.                                             *)
EmitRaises(c) ==
  /\ At(c, "extracting") /\ call[c].rest = <<>> /\ call[c].claims # <<>>
  /\ EndCall(c, Failure(IF Attributed(call[c].claims) THEN "raised" ELSE "refused"))
  /\ UNCHANGED <<log, feature_files>>

(* What a file holds when claims are written from its start. One opened    *)
(* before another call wrote it keeps the end of a longer text: of how     *)
(* many scenarios is left open.                                            *)
WrittenOver(old, claims) ==
  {claims} \union
  (IF old = Unwritten THEN {} ELSE {claims \o SubSeq(old, i, Len(old)) : i \in 2 .. Len(old)})

(* The disk is full, say. *)
WriteFails(c) ==
  /\ At(c, "writing")
  /\ EndCall(c, Failure("raised"))
  /\ UNCHANGED <<log, feature_files>>

(* write_text, the last row, and the run is left. *)
WriteFeature(c) ==
  /\ At(c, "writing")
  /\ \E content \in WrittenOver(feature_files[FileName(call[c].claims)], call[c].claims) :
       Put(FileName(call[c].claims), content)
  /\ MiningLog(c, [by |-> c, candidate_count |-> Len(call[c].claims),
                   emitted_path |-> FileName(call[c].claims)])
  /\ active' = [active EXCEPT ![c] = None]
  /\ Step(c, [call[c] EXCEPT !.pc = "counting"])

(* The scenarios are counted in the file. *)
CountCandidates(c) ==
  LET emitted == feature_files[FileName(call[c].claims)] IN
  /\ At(c, "counting")
  /\ EndCall(c, [kind |-> "ok", candidates |-> IF emitted = Unwritten THEN 0 ELSE Len(emitted)])
  /\ UNCHANGED <<log, feature_files>>

(* The command is killed. *)
Die(c) ==
  /\ ~At(c, "idle") /\ ~At(c, "done")
  /\ EndCall(c, Failure("killed"))
  /\ UNCHANGED <<log, feature_files>>

MiningNext ==
  \E c \in Calls :
    \/ Gate(c) \/ UnknownSource(c) \/ NothingAsked(c) \/ Request(c)
    \/ \E limit \in Limits : StartMining(c, limit)
    \/ \E feed \in Feeds : Respond(c, feed)
    \/ \E kind \in {"http", "raised"} : RequestFails(c, kind)
    \/ ExtractNext(c) \/ NoClaims(c) \/ OpenFeature(c) \/ EmitRaises(c)
    \/ WriteFails(c) \/ WriteFeature(c) \/ CountCandidates(c) \/ Die(c)

MiningSpec == MiningInit /\ [][MiningNext]_mining_vars

-----------------------------------------------------------------------------
MiningTypeOK ==
  /\ \A c \in Calls :
       /\ call[c].pc \in {"idle", "ready", "waiting", "extracting", "writing", "counting", "done"}
       /\ call[c].limit \in Limits \union {0}
       /\ active[c] \in {None, c}
       /\ active[c] = c <=> call[c].pc \in {"ready", "waiting", "extracting", "writing"}
       /\ call[c].pc \in {"writing", "counting"} => FileName(call[c].claims) \in DOMAIN feature_files
       /\ (call[c].answer = None) <=> (call[c].pc # "done")

(* What the rows of the items say was found. *)
Counted(records) ==
  LET sum[n \in 0 .. Len(records)] ==
        IF n = 0 THEN 0
        ELSE IF records[n].emitted_path = None THEN sum[n - 1] + records[n].candidate_count
        ELSE sum[n - 1]
  IN sum[Len(records)]

(* mining.jsonl of a run tells what its own call found, whatever calls     *)
(* were under way while it waited: no row is another call's, the rows of   *)
(* the items add up to the claims it holds, and they add up to its last    *)
(* row.                                                                    *)
RowsInOwnRun ==
  \A c \in Calls :
    /\ \A i \in DOMAIN log[c] : log[c][i].by = c
    /\ Counted(log[c]) = Len(call[c].claims)
    /\ \A i \in DOMAIN log[c] : log[c][i].emitted_path # None =>
         i = Len(log[c]) /\ log[c][i].candidate_count = Counted(log[c])

(* The other calls that found the same sentences. *)
Others(c) == {d \in Calls \ {c} : TextsOf(call[d].claims) = TextsOf(call[c].claims)}

(* The call has written its file. *)
WroteFile(c) ==
  /\ call[c].claims # <<>>
  /\ At(c, "counting") \/ (At(c, "done") /\ call[c].answer.kind = "ok")

(* A call that did not get to the end of its file. *)
LeftUnwritten(c) ==
  At(c, "writing") \/ (At(c, "done") /\ call[c].answer.kind \in {"killed", "raised"})

(* A file that a call reports holds its claims and no others, from the     *)
(* moment it is written and ever after, unless another call finds the same *)
(* sentences: such a call may put its own claims there (the sentences are  *)
(* the same, their attribution is not), leave the end of a longer text     *)
(* behind them when the two overlap, or, killed in between, leave the file *)
(* empty. Nothing else ever gets into it, and only then is a call told     *)
(* another number than it emitted: none, or too many.                      *)
FileHoldsClaims ==
  \A c \in Calls :
    LET claims == call[c].claims
        file == feature_files[FileName(claims)]
    IN WroteFile(c) =>
         /\ FileName(claims) \in DOMAIN feature_files
         /\ Others(c) = {} => file = claims
         /\ file = Unwritten => \E d \in Others(c) : LeftUnwritten(d)
         /\ file # Unwritten =>
              /\ \E d \in Others(c) \union {c} : IsPrefix(call[d].claims, file)
              /\ \A i \in DOMAIN file : \E d \in Others(c) \union {c} : file[i] \in Range(call[d].claims)
         /\ At(c, "done") =>
              LET told == call[c].answer.candidates IN
              \/ told = Len(claims)
              \/ Others(c) # {} /\ (told = 0 \/ told > Len(claims))
=============================================================================
