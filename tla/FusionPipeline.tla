--------------------------- MODULE FusionPipeline ---------------------------
(***************************************************************************)
(* The fusion engine (core, fusion_engine/ and the providers it calls): a   *)
(* panel of models answers a prompt, failed answers are replaced by those   *)
(* of fallback candidates, a judge compares the answers and a writer turns  *)
(* its verdict into the final one.  A call tries a remote API or a chain of *)
(* local backends; a failed remote call turns the whole process offline.    *)
(* Prompts, temperatures and scores are left out: an answer is "text", a    *)
(* "mock" (the text LocalProvider makes up), or "error".                    *)
(***************************************************************************)
EXTENDS Integers, SequencesExt

CONSTANTS
  Settings, \* the situations a run may begin in
  MaxPanel, \* max_candidates
  FlintTag, FlintRepo, GlmTag, GlmRepo, \* the specialists: Ollama's name, the hub's
  NoModel   \* no model forced, or none found

Flags == {"ollama", "openvino", "onnx", "transformers"}

(* A run has at least two models; the catalogue's query returns a model once *)
(* (model_id is UNIQUE), and a batch holds a call.                          *)
ASSUME FusionAssumption ==
  /\ MaxPanel \in Nat \ {0, 1}
  /\ \A c \in Settings :
       /\ c.ranked \in Seq(ToSet(c.ranked)) /\ c.cached \in Seq(ToSet(c.cached))
       /\ \A i, j \in DOMAIN c.ranked : c.ranked[i] = c.ranked[j] => i = j
       /\ NoModel \notin ToSet(c.ranked)
       /\ c.flags \subseteq Flags /\ c.batch \in Nat \ {0}

Specialists == {FlintTag, FlintRepo, GlmTag, GlmRepo}

VARIABLES
  setting,  \* the situation of this run
  flags,    \* the environment's MODELFUSION_USE_*
  at,       \* how far run_fusion is
  panel,    \* panel_models
  pool,     \* fallback_pool
  judge,    \* judge_model, and writer_model, which is chosen alike
  call,     \* the panel's calls and answers; 0 is the call of any later step
  wave,     \* the panel's calls that run together
  used,     \* candidates taken from fallback_iter
  queue,    \* answers still to replace, or to ask for a verdict, in the panel's order
  source,   \* the candidate whose answer has replaced a panel answer
  position, \* recommended_final_position
  final     \* what run_fusion returns

choiceVars == <<setting, panel, pool, judge>>
panelVars == <<wave, used, queue, source>>
fusionVars == <<choiceVars, panelVars, flags, at, call, position, final>>

Slots == 1..Len(panel)
Backends == {"ollama", "openvino", "onnx", "transformers"}
Good == {"text", "mock"}
Ended == Good \cup {"error"}

FusionInit ==
  /\ setting = NoModel /\ flags = {}
  /\ at = "waiting"
  /\ panel = <<>> /\ pool = <<>> /\ judge = NoModel
  /\ call = [s \in 0..MaxPanel + 1 |-> "idle"]
  /\ wave = {} /\ used = 0 /\ queue = {}
  /\ source = [s \in 1..MaxPanel + 1 |-> NoModel]
  /\ position = "none" /\ final = "none"

-----------------------------------------------------------------------------
(* Choosing the models.  `c' is the setting: ranked is what the selector    *)
(* finds for the task, cached what Ollama has installed, judges those of    *)
(* them the judge may be, textgen the best model for text generation.       *)

Hub(m) == [kind |-> "hub", model |-> m]
Local(m) == [kind |-> "local", model |-> m]
Prefer(c, tag, repo) == IF tag \in ToSet(c.cached) THEN Local(tag) ELSE Hub(repo)

ModelsOf(ps) == {ps[i].model : i \in DOMAIN ps}

(* What the first n of a list leave when those of a set are passed over.    *)
Filtered(list, gone) ==
  LET kept[n \in 0..Len(list)] ==
        IF n = 0 THEN <<>>
        ELSE IF list[n] \in gone THEN kept[n - 1] ELSE Append(kept[n - 1], list[n])
  IN kept
Without(list, gone) == Filtered(list, gone)[Len(list)]

Best(c, n) == SubSeq(c.ranked, 1, Min({n, Len(c.ranked)}))

(* Step 1: Flint always, GLM when it fits, and the forced model, which is   *)
(* not counted against the maximum.                                        *)
Specials(c) ==
  LET flint == <<Prefer(c, FlintTag, FlintRepo)>>
      withGlm == flint \o IF c.glm THEN <<Prefer(c, GlmTag, GlmRepo)>> ELSE <<>>
  IN withGlm \o IF \/ c.forced \in {NoModel, FlintTag, FlintRepo}
                   \/ c.forced \in ModelsOf(withGlm)
                THEN <<>> ELSE <<Prefer(c, c.forced, c.forced)>>

Offered(c) == Without(Best(c, 3 * MaxPanel), {c.forced})

(* Steps 2 and 3: how many of the listed candidates are looked at before    *)
(* the panel is full; those already on it are passed over.                 *)
Unseen(c, k) == Filtered(Offered(c), ModelsOf(Specials(c)))[k]
Looked(c) ==
  LET full == {k \in 0..Len(Offered(c)) : Len(Specials(c) \o Unseen(c, k)) >= MaxPanel}
  IN IF full = {} THEN Len(Offered(c)) ELSE Min(full)

(* Steps 4 to 6: then what Ollama has, then the same models once more.      *)
Distinct(c) ==
  LET chosen == Specials(c) \o [i \in DOMAIN Unseen(c, Looked(c)) |-> Hub(Unseen(c, Looked(c))[i])]
      others == Without(c.cached, ModelsOf(chosen))
      more == Max({0, Min({MaxPanel - Len(chosen), Len(others)})})
  IN chosen \o [i \in 1..more |-> Local(others[i])]

Panel(c) ==
  IF c.mode = "multi-sample"
  THEN [i \in 1..MaxPanel |-> Hub(IF c.forced # NoModel THEN c.forced ELSE c.ranked[1])]
  ELSE LET base == Distinct(c)
       IN [i \in 1..Max({MaxPanel, Len(base)}) |-> base[((i - 1) % Len(base)) + 1]]

Pool(c) ==
  IF c.mode # "multi-sample" THEN SubSeq(Offered(c), Looked(c) + 1, Len(Offered(c)))
  ELSE IF c.forced # NoModel THEN <<>> ELSE Tail(Best(c, 3))

Judge(c) ==
  LET able == {i \in DOMAIN c.cached : c.cached[i] \in c.judges}
  IN IF c.forced # NoModel THEN Hub(c.forced)
     ELSE IF able # {} THEN Local(c.cached[Min(able)]) ELSE Hub(c.textgen)

(* The selector bails out when it finds nothing; only a multi-model panel   *)
(* does without it.                                                        *)
NothingFound(c) ==
  /\ c.forced = NoModel
  /\ \/ c.mode = "multi-sample" /\ c.ranked = <<>>
     \/ Judge(c).model = NoModel

(* run_fusion up to the first call.  Local backends answer in batches.      *)
BeginFusion(c) ==
  /\ at = "waiting"
  /\ setting' = c
  /\ flags' = c.flags
  /\ IF NothingFound(c)
     THEN at' = "failed" /\ UNCHANGED <<panel, pool, judge, wave>>
     ELSE /\ at' = "panel"
          /\ panel' = Panel(c) /\ pool' = Pool(c) /\ judge' = Judge(c)
          /\ wave' = 1..(IF c.flags = {} THEN Len(Panel(c)) ELSE Min({c.batch, Len(Panel(c))}))
  /\ UNCHANGED <<call, used, queue, source, position, final>>

-----------------------------------------------------------------------------
(* One call: call_model and the providers under it.                         *)

Single == {"replace", "judge", "verdict", "writer"}

Kind(s) ==
  IF s # 0 THEN panel[s].kind
  ELSE IF at \in {"judge", "writer"} THEN judge.kind ELSE "hub"

(* join_all polls the calls of a wave in order before any of them goes on.  *)
Polled == at = "panel" => \A s \in wave : call[s] # "idle"

(* Where a call goes, given the flags at that moment.                       *)
Route(kind, fs) ==
  IF kind = "local" THEN "generate"
  ELSE IF fs = {} /\ setting.token THEN "remote" ELSE "ollama"

(* Without a token the process goes offline, as after a failed remote call. *)
StartCall(s) ==
  /\ call[s] = "idle"
  /\ IF s = 0 THEN at \in Single
     ELSE at = "panel" /\ s \in wave /\ \A t \in wave : t < s => call[t] # "idle"
  /\ flags' = flags \cup IF Kind(s) = "hub" /\ flags = {} /\ ~setting.token
                         THEN {"transformers"} ELSE {}
  /\ call' = [call EXCEPT ![s] = Route(Kind(s), flags')]
  /\ UNCHANGED <<choiceVars, panelVars, at, position, final>>

(* The backend tried after another; each needs a flag that implies it.      *)
NextBackend(b) ==
  LET openvino == "openvino" \in flags
      onnx == openvino \/ "onnx" \in flags
      transformers == onnx \/ "transformers" \in flags
  IN IF b = "ollama" /\ openvino THEN "openvino"
     ELSE IF b \in {"ollama", "openvino"} /\ onnx THEN "onnx"
     ELSE IF b # "transformers" /\ transformers THEN "transformers" ELSE "error"

\* What becomes of call s, when that is all that changes.
Becomes(s, c) ==
  /\ call' = [call EXCEPT ![s] = c]
  /\ UNCHANGED <<choiceVars, panelVars, flags, at, position, final>>

CallAnswers(s) ==
  /\ Polled /\ call[s] \in Backends \cup {"remote", "generate"}
  /\ Becomes(s, "text")

(* A backend's error or timeout; an unreadable answer of the remote API and *)
(* an error status of Ollama's, which are not tried again.                 *)
CallFails(s) ==
  /\ Polled
  /\ \/ call[s] \in Backends /\ Becomes(s, NextBackend(call[s]))
     \/ call[s] \in {"remote", "generate"} /\ Becomes(s, "error")

(* The remote API is unreachable or refuses: this call and every later one  *)
(* is answered locally.                                                    *)
RemoteFails(s) ==
  /\ Polled /\ call[s] = "remote"
  /\ flags' = flags \cup {"transformers"}
  /\ call' = [call EXCEPT ![s] = Route("hub", flags')]
  /\ UNCHANGED <<choiceVars, panelVars, at, position, final>>

(* Nothing listens where LocalProvider looks for Ollama.                    *)
OllamaUnreachable(s) ==
  /\ Polled /\ call[s] = "generate"
  /\ Becomes(s, IF setting.noSim THEN "error" ELSE "mock")

-----------------------------------------------------------------------------
(* run_fusion from the first answer on.                                     *)

GoodSlots == {s \in Slots : call[s] \in Good}

MutFailedSlots == {s \in Slots : call[s] = "error" /\ source[s] = NoModel}

FailedSlots == {s \in Slots : call[s] = "error"}

(* The next chunk, or the end of run_panel.                                 *)
WaveEnds ==
  /\ at = "panel"
  /\ \A s \in wave : call[s] \in Ended
  /\ LET next == {s \in Slots : s > Max(wave) /\ s <= Max(wave) + setting.batch}
     IN IF next # {} THEN wave' = next /\ UNCHANGED at
        ELSE wave' = {} /\ at' = "answered"
  /\ UNCHANGED <<choiceVars, used, queue, source, flags, call, position, final>>

(* The head of the fallback loop: another pass over the failed answers, or, *)
(* when none is left or nobody to replace it, the judge.                   *)
Review ==
  /\ at = "answered"
  /\ \/ /\ FailedSlots # {} /\ used < Len(pool)
        /\ at' = "replace" /\ queue' = FailedSlots
     \/ /\ FailedSlots = {} \/ used >= Len(pool)
        /\ at' = IF GoodSlots = {} THEN "failed" ELSE "judge"
        /\ UNCHANGED queue
  /\ UNCHANGED <<choiceVars, wave, used, source, flags, call, position, final>>

(* One replacement has been run; a pass ends with its list or the pool.     *)
Replaced ==
  /\ at = "replace" /\ call[0] \in Ended
  /\ call' = [call EXCEPT ![Min(queue)] = call[0], ![0] = "idle"]
  /\ source' = [source EXCEPT ![Min(queue)] = pool[used + 1]]
  /\ used' = used + 1
  /\ LET over == queue = {Min(queue)} \/ used' = Len(pool)
     IN /\ queue' = IF over THEN {} ELSE queue \ {Min(queue)}
        /\ at' = IF over THEN "answered" ELSE "replace"
  /\ UNCHANGED <<choiceVars, wave, flags, position, final>>

(* The judge answers, or the models that did are asked for the verdict in   *)
(* turn.                                                                   *)
Judged ==
  /\ at = "judge" /\ call[0] \in Ended
  /\ call' = [call EXCEPT ![0] = "idle"]
  /\ IF call[0] = "error"
     THEN at' = "verdict" /\ queue' = GoodSlots /\ UNCHANGED position
     ELSE at' = "writer" /\ position' = call[0] /\ UNCHANGED queue
  /\ UNCHANGED <<choiceVars, wave, used, source, flags, final>>

(* The first verdict is taken; without one, the first good answer is.       *)
VerdictGiven ==
  /\ at = "verdict" /\ call[0] \in Ended
  /\ call' = [call EXCEPT ![0] = "idle"]
  /\ IF call[0] = "error" /\ queue # {Min(queue)}
     THEN queue' = queue \ {Min(queue)} /\ UNCHANGED <<at, position>>
     ELSE /\ queue' = {} /\ at' = "writer"
          /\ position' = IF call[0] = "error" THEN call[Min(GoodSlots)] ELSE call[0]
  /\ UNCHANGED <<choiceVars, wave, used, source, flags, final>>

Written ==
  /\ at = "writer" /\ call[0] \in Ended
  /\ at' = "done"
  /\ final' = IF call[0] = "error" THEN position ELSE call[0]
  /\ UNCHANGED <<choiceVars, panelVars, flags, call, position>>

Calling ==
  \E s \in 0..MaxPanel + 1 :
    StartCall(s) \/ CallAnswers(s) \/ CallFails(s) \/ RemoteFails(s) \/ OllamaUnreachable(s)

FusionStep == Calling \/ WaveEnds \/ Review \/ Replaced \/ Judged \/ VerdictGiven \/ Written

FusionNext == (\E c \in Settings : BeginFusion(c)) \/ FusionStep

-----------------------------------------------------------------------------
FusionTypeOK ==
  /\ flags \subseteq Flags
  /\ used \in 0..Len(pool)
  /\ call \in [0..MaxPanel + 1 -> Ended \cup Backends \cup {"idle", "remote", "generate"}]
  /\ wave \subseteq Slots /\ queue \subseteq Slots
  /\ position \in Good \cup {"none"} /\ final \in Good \cup {"none"}
  /\ at \in Single \cup {"waiting", "panel", "answered", "done", "failed"}

(* The judge sees at least one answer, and a failed one only when the pool  *)
(* has nobody left to replace it.                                          *)
JudgesAnswers ==
  at \in {"judge", "verdict", "writer", "done"} =>
    /\ \A s \in Slots : call[s] \in Ended
    /\ \E s \in Slots : call[s] \in Good
    /\ (\E s \in Slots : call[s] = "error") => used = Len(pool)

(* A candidate stands in for one answer, and for none of a model that was   *)
(* asked already, the specialists apart.                                   *)
FallbackIsFresh ==
  \A i \in DOMAIN pool :
    /\ pool[i] \in Specialists \/ pool[i] \notin ModelsOf(panel)
    /\ Cardinality({s \in Slots : source[s] = pool[i]}) <= 1

(* The panel is full, and one too large only for a forced model.            *)
PanelIsFull ==
  panel # <<>> =>
    \/ Len(panel) = MaxPanel
    \/ Len(panel) = MaxPanel + 1 /\ setting.forced # NoModel /\ setting.glm

(* A run that starts offline never runs more local backends at once than a  *)
(* batch has.                                                              *)
BatchFits ==
  at = "panel" /\ setting.flags # {} =>
    Cardinality({s \in Slots : call[s] \in Backends}) <= setting.batch

(* What is returned was answered by some model, and a run fails only when   *)
(* no model answered; a made-up answer is returned only where it may be.    *)
AnswerIsReal ==
  /\ at = "done" => final \in Good
  /\ at = "failed" => \A s \in Slots : call[s] \notin Good
  /\ setting # NoModel /\ setting.noSim => "mock" \notin {final, position}

(* The parts of the fusion run that a reader of its answer relies on.       *)
FusionConsistent ==
  /\ FusionTypeOK /\ JudgesAnswers /\ FallbackIsFresh
  /\ PanelIsFull /\ BatchFits /\ AnswerIsReal

=============================================================================
