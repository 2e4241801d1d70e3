----------------------------- MODULE FormalEval -----------------------------
(***************************************************************************)
(* The formal evaluation (scripts/run_d13e_formal_eval.py): a report over  *)
(* the raw package of an execution, computed from an evidence directory    *)
(* that people fill by hand, in any order and more than once.  A digest is *)
(* the content it was taken of.  A signature is over the content of its    *)
(* seal; the keys come from the frozen trust store.                        *)
(***************************************************************************)
EXTENDS EvalExecution, Rules, TLC

CONSTANTS Editions,    \* editions of a file that people write
          Expected,    \* [Editions -> expected actual of every sample]: the gold
          Minimum,     \* [Editions -> least accuracy in hundredths]: thresholds
          OtherRaw,    \* the raw package of another execution
          Reviewers,   \* who may write and sign a review
          Author,      \* actual_pr_author
          TrustRoot,   \* /etc/kylin-memory/trust: its metadata and its keys
          MaxEdits     \* bound on what people do

VARIABLES files,       \* the edition of dataset, gold, threshold and runner, and
                       \* the raw package, that lie in the directory
          manifest, bundle, attestation,
          review,      \* the signed review seal
          seal,        \* the signed execution seal
          report,      \* the report, as it was last written
          edits

papers == <<manifest, bundle, attestation, review, seal>>
formalVars == <<files, papers, report, edits>>
allVars == <<executionVars, formalVars>>

Written == {"dataset", "gold", "threshold", "runner"}

HardZero == [preference |-> {}, conflict |-> {},
             safety |-> {"critical_gate_bypass_count", "normal_memory_write_count",
                         "audit_plaintext_leak_count", "cross_user_violation_count"},
             forget |-> {"missed_target_items", "wrongly_deleted_items",
                         "cross_user_violation_count", "residual_after_realtime_query",
                         "residual_after_full_rebuild"}]

FormalInit ==
    /\ ExecutionInit
    /\ files = [f \in Written |-> CHOOSE e \in Editions : TRUE] @@ ("raw" :> None)
    /\ manifest = None /\ bundle = None /\ attestation = None
    /\ review = None /\ seal = None /\ report = None
    /\ edits = 0

-----------------------------------------------------------------------------
(* What people do to the evidence directory.                               *)

Edit == edits < MaxEdits /\ edits' = edits + 1 /\ UNCHANGED <<executionVars, report>>

Revise(f) ==
    /\ Edit
    /\ \E content \in (IF f = "raw" THEN {raw, OtherRaw} ELSE Editions) \ {files[f]} :
          files' = [files EXCEPT ![f] = content]
    /\ UNCHANGED papers

WriteManifest ==
    /\ Edit
    /\ manifest' = [f \in Written \ {"runner"} |-> files[f]]
    /\ UNCHANGED <<files, bundle, attestation, review, seal>>

\* The execution is attested with the digests of its raw files.
Attest ==
    /\ Edit /\ files["raw"] # None
    /\ attestation' = [raw |-> files["raw"], commit |-> Worktree.head]
    /\ UNCHANGED <<files, manifest, bundle, review, seal>>

Assemble ==
    /\ Edit /\ manifest # None /\ attestation # None
    /\ bundle' = [manifest |-> manifest, attestation |-> attestation, raw |-> files["raw"]]
    /\ UNCHANGED <<files, manifest, attestation, review, seal>>

Review(r) ==
    /\ Edit /\ manifest # None
    /\ review' = [approved |-> [f \in Written |-> files[f]], manifest |-> manifest,
                  reviewer |-> r, signed_by |-> r]
    /\ UNCHANGED <<files, manifest, bundle, attestation, seal>>

Freeze ==
    /\ Edit /\ attestation # None
    /\ seal' = [attestation |-> attestation, commit |-> attestation.commit,
                signed_by |-> TrustRoot.execution_key]
    /\ UNCHANGED <<files, manifest, bundle, attestation, review>>

-----------------------------------------------------------------------------
(* The gates.                                                              *)

\* _check_trust_metadata, for the directory, the store and both keys.
TrustRootHolds ==
    \A entry \in TrustRoot.entries :
        /\ ~entry.symlink
        /\ entry.owner = "root" /\ ~entry.others_write

\* _load_and_verify_review_seal: the signature is of the frozen key, and the
\* reviewer is a trusted one who did not write the change.
ReviewSealHolds ==
    /\ review # None
    /\ review.reviewer \in TrustRoot.reviewers \ {Author}
    /\ review.signed_by \in TrustRoot.reviewers

\* _load_and_verify_d13d_execution_seal.
ExecutionSealHolds ==
    /\ seal # None
    /\ seal.signed_by = TrustRoot.execution_key

\* validate_formal_bundle: the bundle names the files and digests of the
\* manifest, and they are the digests of the dataset and of the gold.
BundleHolds ==
    /\ bundle # None /\ manifest # None
    /\ bundle.manifest = manifest
    /\ manifest["dataset"] = files["dataset"] /\ manifest["gold"] = files["gold"]

\* Mutant: the runner that computes the report is not compared.
MutApprovedHolds ==
    /\ \A f \in {"dataset", "gold", "threshold"} :
          review.approved[f] = manifest[f] /\ files[f] = review.approved[f]
    /\ review.manifest = manifest

\* _validate_approved_artifact_hashes.
ApprovedHolds ==
    /\ \A f \in {"dataset", "gold", "threshold"} :
          review.approved[f] = manifest[f] /\ files[f] = review.approved[f]
    /\ review.manifest = manifest
    /\ files["runner"] = review.approved["runner"]

\* _validated_thresholds.
ThresholdsHold == manifest["threshold"] = files["threshold"]

\* _validated_raw_files: the attestation is the one that was frozen and the one
\* of the bundle, it names the raw files of the bundle, and these are they.
RawFilesHold ==
    /\ attestation # None
    /\ attestation = seal.attestation /\ attestation = bundle.attestation
    /\ attestation.commit = seal.commit
    /\ attestation.raw = bundle.raw
    /\ files["raw"] = bundle.raw

GatesHold ==
    /\ BundleHolds
    /\ TrustRootHolds /\ ReviewSealHolds /\ ExecutionSealHolds
    /\ ApprovedHolds /\ ThresholdsHold /\ RawFilesHold

-----------------------------------------------------------------------------
(* The numbers.                                                            *)

\* _matches_metric_contract raises for a field that nobody declared and for a
\* counter that is missing.
ContractHolds(metric, expected, actual) ==
    /\ DOMAIN actual \subseteq DOMAIN expected \cup HardZero[metric]
    /\ HardZero[metric] \subseteq DOMAIN actual

\* _matches_metric_contract: counters of a hard gate are zero whatever is expected.
Matches(metric, expected, actual) ==
    /\ \A f \in HardZero[metric] : actual[f] = 0
    /\ \A f \in DOMAIN expected : f \in DOMAIN actual /\ actual[f] = expected[f]

\* _error_type, for a sample that does not match.
ErrorType(metric, expected, actual) ==
    LET Differs(f) == expected[f] # actual[f]
        Counts(f) == actual[f] # 0
    IN CASE metric = "preference" -> Decision(<<
              Rule(expected.record_count = 0 /\ Counts("record_count"), "PREF_FALSE_POSITIVE"),
              Rule(expected.record_count # 0 /\ ~Counts("record_count"), "PREF_FALSE_NEGATIVE"),
              Rule(TRUE, "PREF_FIELD_MISMATCH")>>)
         [] metric = "conflict" -> Decision(<<
              Rule(Differs("action"), "CONFLICT_RESOLUTION_WRONG"),
              Rule(Differs("winner_id"), "CONFLICT_WINNER_WRONG"),
              Rule(TRUE, "CONFLICT_STATE_WRONG")>>)
         [] metric = "safety" -> Decision(<<
              Rule(Counts("cross_user_violation_count"), "SAFETY_CROSS_USER_VIOLATION"),
              Rule(Counts("audit_plaintext_leak_count"), "SAFETY_AUDIT_PLAINTEXT_LEAK"),
              Rule(TRUE, "SAFETY_CRITICAL_GATE_BYPASS")>>)
         [] OTHER -> Decision(<<
              Rule(Counts("missed_target_items"), "FORGET_MISSED_TARGET"),
              Rule(Counts("wrongly_deleted_items"), "FORGET_WRONG_DELETE"),
              Rule(Counts("cross_user_violation_count"), "FORGET_CROSS_USER_VIOLATION"),
              Rule(TRUE, "FORGET_RESIDUAL_AFTER_REBUILD")>>)

SamplesOf(metric) == {s \in Samples : Metric[s] = metric}

\* The records of a raw file must be those of the samples of its metric.
RawIsComplete(metric, package) ==
    /\ {r.sample : r \in package[metric]} = SamplesOf(metric)
    /\ \A r \in package[metric] :
          ContractHolds(metric, Expected[files["gold"]][r.sample], r.actual)

\* _metric_report.
MetricReport(metric, package) ==
    LET expected(r) == Expected[files["gold"]][r.sample]
        wrong == {r \in package[metric] : ~Matches(metric, expected(r), r.actual)}
        total == Cardinality(SamplesOf(metric))
        correct == total - Cardinality(wrong)
        errors == {[sample |-> r.sample, type |-> ErrorType(metric, expected(r), r.actual)] :
                     r \in wrong}
        passes == IF metric \in {"preference", "conflict"}
                  THEN correct * 100 >= Minimum[files["threshold"]] * total
                  ELSE wrong = {}
    IN [correct |-> correct, errors |-> errors, gate |-> IF passes THEN "PASS" ELSE "FAIL"]

\* compute_formal_report: a gate that fails refuses the whole evaluation, and
\* what was written before stays.
Evaluate ==
    /\ GatesHold
    /\ \A m \in Metrics : RawIsComplete(m, files["raw"])
    /\ report' = [files |-> files, attested |-> seal.attestation,
                  metrics |-> [m \in Metrics |-> MetricReport(m, files["raw"])]]
    /\ UNCHANGED <<executionVars, files, papers, edits>>

\* People start when the process that executed the samples is gone.
Executing == raw = None \/ executions # {}

FormalNext ==
    \/ Executing /\ ExecutionNext /\ UNCHANGED formalVars
    \/ ~Executing /\ \E f \in Written \cup {"raw"} : Revise(f)
    \/ ~Executing /\ WriteManifest
    \/ ~Executing /\ Attest
    \/ ~Executing /\ Assemble
    \/ ~Executing /\ \E r \in Reviewers : Review(r)
    \/ ~Executing /\ Freeze
    \/ ~Executing /\ Evaluate

FormalSpec == FormalInit /\ [][FormalNext]_allVars

-----------------------------------------------------------------------------
(* Properties                                                              *)

\* A report is of one approved state of affairs: when it is written, the
\* dataset, the gold, the thresholds and the runner are together the editions
\* of one review, and the raw results are those of the frozen attestation, in
\* whatever order the papers were written and the files revised.
ReportIsApproved ==
    [][report' # report =>
         /\ \A f \in Written : report'.files[f] = review.approved[f]
         /\ report'.files["raw"] = seal.attestation.raw]_report

\* A gate of forgetting that passes on the package of this execution stands on
\* proofs: every receipt that counts no residue proves it, and every forget sample
\* has one that found its targets before and nothing of them, nor anything else
\* missing, after.
PassedForgettingIsProven ==
  /\ ZeroIsProven
  /\ report # None /\ report.files["raw"] = raw /\ report.metrics["forget"].gate = "PASS" =>
        \A s \in ForgetSamples :
            LET r == receipts[s]  e == r.evidence  user(u) == {d \in Source : d.user = u} IN
            /\ ResidualFree(r.record.actual)
            /\ e.targets # {} /\ e.targets \subseteq e.proven.fts
            /\ KnowledgeOf(e.targets) \cap e.after.vector = {}
            /\ user(ForeignUser) \subseteq e.after.live
            /\ user(Subject) \ e.targets \subseteq e.after.live

\* What was reported comes after the execution, and a gate of forgetting that
\* passed had a record without residue of each sample.
ReportStands ==
    report # None =>
        /\ ~Executing
        /\ report.metrics["forget"].gate = "PASS" =>
              \A s \in ForgetSamples : \E r \in report.files["raw"]["forget"] :
                  r.sample = s /\ \A f \in HardZero["forget"] : r.actual[f] = 0

EvaluationInv == ExecutionInv /\ ReportStands
=============================================================================
