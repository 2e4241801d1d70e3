---------------------------- MODULE MCEvaluation ----------------------------
(***************************************************************************)
(* The evaluation on four samples: one that needs no runtime, one of       *)
(* safety, one that forgets a single entry of two, one that forgets all    *)
(* of a user's memories.  Two executions share the evidence root.          *)
(***************************************************************************)
EXTENDS FormalEval

MCWorktree == [path |-> <<"work">>, head |-> "c2", ancestors |-> {"c1", "c2"},
               clean |-> TRUE, testset |-> "official"]

Request(state) == [repository |-> <<"work">>, evidence |-> <<"evidence">>, state |-> state,
                   commit |-> "c2", testset |-> "official"]

\* The third would put its state below the evidence root.
MCRequests == {Request(<<"safety">>), Request(<<"forget">>), Request(<<"evidence", "state">>)}

MCSamples == {"pref", "safety", "single", "reset"}
MCMetric == [pref |-> "preference", safety |-> "safety", single |-> "forget", reset |-> "forget"]
MCMode == [single |-> "single_item", reset |-> "full_reset"]

\* Both channels, or words only with an entry that has none.
MCPreparations ==
    LET Doc(kind, id, user, text) == [kind |-> kind, id |-> id, user |-> user, text |-> text]
        Docs(text) == {Doc("knowledge", 1, "alpha", TRUE), Doc("knowledge", 2, "alpha", text),
                       Doc("preference", 1, "alpha", TRUE),
                       Doc("knowledge", 3, "beta", TRUE), Doc("preference", 2, "beta", TRUE)}
    IN {[source |-> Docs(TRUE), dual |-> TRUE], [source |-> Docs(FALSE), dual |-> FALSE]}

MCArtifact == [version |-> "v2", digest |-> 1, content |-> 1, covered |-> {"single", "reset"},
               mode |-> MCMode, foreign_controls |-> [s \in DOMAIN MCMode |-> {3}],
               own_controls |-> [single |-> {1, 2}, reset |-> {}],
               policy |-> "descendant-and-contract-compatible", prepared_at |-> "c1",
               minimum |-> "c1", source |-> 7, schema |-> 8]

MCSealed == [symlink |-> FALSE, digest |-> 7, schema |-> 8, intact |-> TRUE]

MCFields ==
    [preference |-> [required |-> {"record_count"},
                     allowed |-> {"record_count", "should_persist", "key"}],
     conflict   |-> [required |-> {}, allowed |-> {}],
     safety     |-> [required |-> HardZero.safety,
                     allowed |-> HardZero.safety \cup {"sensitivity", "admission", "operation"}],
     forget     |-> [required |-> HardZero.forget \cup {"forget_mode"},
                     allowed |-> HardZero.forget \cup {"forget_mode"}]]

Candidate == [key |-> "k", should_persist |-> TRUE]
MCCandidates == [pref |-> {{}, {Candidate}, {Candidate, [Candidate EXCEPT !.key = "l"]}}]

MCAsks == [safety |-> "event"]

\* A critical event that is kept out, and one that is let in.
Trace(admission) == [sensitivity |-> "critical", admission |-> admission, plaintext |-> FALSE,
                     writes |-> 0, foreign_read |-> FALSE]
MCTraces == {Trace("reject"), Trace("allow_extraction")}

MCExpected ==
    [e \in {1, 2} |->
       [pref |-> IF e = 1 THEN PreferenceActual({Candidate})
                 ELSE [record_count |-> 0, should_persist |-> FALSE, key |-> "none"],
        safety |-> [sensitivity |-> "critical", admission |-> "reject"],
        single |-> [forget_mode |-> "single_item"], reset |-> [forget_mode |-> "full_reset"]]]

MCTrustRoot == [entries |-> {[symlink |-> FALSE, owner |-> "root", others_write |-> FALSE]},
                reviewers |-> {"d", "author"}, execution_key |-> "d13d"]

MCMinimum == <<100, 50>>

\* The package of an earlier execution, in which the entry was missed.
MCOtherRaw ==
    LET Rec(s, actual) == [sample |-> s, actual |-> actual, scope |-> <<"c1", "earlier">>]
        Counters(mode, n) == [f \in HardZero.forget \cup {"forget_mode"} |->
                                IF f = "forget_mode" THEN mode
                                ELSE IF f = "missed_target_items" THEN n ELSE 0]
    IN [preference |-> {Rec("pref", PreferenceActual({}))}, conflict |-> {},
        safety |-> {Rec("safety", SafetyActual("safety", Trace("reject")))},
        forget |-> {Rec("single", Counters("single_item", 1)), Rec("reset", Counters("full_reset", 0))}]

\* The samples are dispatched in their order, as the runner does.
Position == [pref |-> 1, safety |-> 2, single |-> 3, reset |-> 4]

Dispatching == job # Idle /\ ~At("rename")

Failed == dispatches - Cardinality(DOMAIN receipts) - (IF Dispatching THEN 1 ELSE 0)

InOrder ==
    /\ \A s, t \in DOMAIN receipts : Position[s] < Position[t] => receipts[s].utc < receipts[t].utc
    /\ Dispatching => \A s \in DOMAIN receipts : Position[s] <= Position[job.sample]

\* One execution is bound for the safety samples and one for those of
\* forgetting, before anything is dispatched, as the runner does.
BoundFirst ==
    /\ bindings[Request(<<"forget">>)].kind # "safety"
    /\ bindings[Request(<<"safety">>)].kind # "forget"
    /\ dispatches > 0 => \A q \in MCRequests : Len(q.state) = 1 => RuntimeRoot(q) \in disk

\* Either one dispatch fails, and then a sample at most is dispatched again or
\* next; or none fails, and the package is evaluated.
OneFailure == Failed <= 1 /\ (Failed = 1 => Cardinality(DOMAIN receipts) <= 1)

\* Of the entries that can be the single one, the package forgets the first.
Evaluated ==
    ~Executing => \A d \in receipts["single"].evidence.targets : d.id = 1

Scenario == InOrder /\ BoundFirst /\ OneFailure /\ Evaluated
=============================================================================
