----------------------------- MODULE Scorecard -----------------------------
(***************************************************************************)
(* What an audit scan computes: the class of a tool from the words it uses *)
(* of itself, which probes may be run, what becomes of the controls, and   *)
(* the scores and the grade of the scorecard.                              *)
(***************************************************************************)
EXTENDS Integers, FiniteSets, FiniteSetsExt, Functions

(* The twelve dimensions of risk. *)
RISK_DIMENSIONS ==
  {"data", "privacy", "autonomy", "operational", "criticality", "financial", "compliance",
   "security_posture", "supply_chain", "reputational", "liability", "governance"}

(* Within 0..100.  What is not a number at all counts as Unscored. *)
clampScore(n) == Max({0, Min({100, n})})

Unscored == 40

(* Math.round of a quotient of naturals *)
Rounded(n, d) == (2 * n + d) \div (2 * d)

-----------------------------------------------------------------------------
(* Tools.  A tool is what the server says of it: the words of its name and *)
(* of its description.  A word is what \b delimits: delete_user is one.    *)

DESTRUCTIVE == {"delete", "remove", "destroy", "drop", "purge", "wipe", "revoke", "cancel",
                "terminate", "archive", "trash"}
OUTWARD == {"send", "email", "post", "publish", "share", "message", "notify", "invite", "reply",
            "forward", "tweet", "broadcast", "dispatch"}
EXECUTE == {"execute", "run", "exec", "shell", "command", "query", "sql", "eval", "invoke",
            "trigger", "deploy"}
WRITE == {"create", "update", "write", "set", "add", "edit", "modify", "upsert", "save", "put",
          "patch", "move", "rename", "assign", "approve", "pay", "transfer", "refund", "charge",
          "order", "schedule", "book"}
READ == {"get", "list", "search", "read", "find", "fetch", "lookup", "query", "show", "describe",
         "view", "discover", "check", "export", "download"}

Meets(words, pattern) == words \cap pattern # {}

(* Mutant of classifyAction: the weakest capability wins. *)
classifyWeakest(tool) ==
  LET text == tool.name \cup tool.description IN
  IF Meets(text, READ) THEN "read"
  ELSE IF Meets(tool.name, EXECUTE) \/ Meets(text, {"shell", "exec", "eval", "arbitrary"})
    THEN "execute"
  ELSE IF Meets(text, DESTRUCTIVE) THEN "destructive"
  ELSE IF Meets(text, OUTWARD) THEN "outward"
  ELSE IF Meets(text, WRITE) THEN "write" ELSE "unknown"

(* The most powerful capability wins. *)
classifyAction(tool) ==
  LET text == tool.name \cup tool.description IN
  IF Meets(tool.name, EXECUTE) \/ Meets(text, {"shell", "exec", "eval", "arbitrary"}) THEN "execute"
  ELSE IF Meets(text, DESTRUCTIVE) THEN "destructive"
  ELSE IF Meets(text, OUTWARD) THEN "outward"
  ELSE IF Meets(text, WRITE) THEN "write"
  ELSE IF Meets(text, READ) THEN "read" ELSE "unknown"

isAutoProbeSafe(tool) == classifyAction(tool) = "read"

(* Anything the model calls a probe's safety but read_only means review.   *)
generateProbes(reply) ==
  {[tool |-> p.tool, safety |-> IF p.safety = "read_only" THEN "read_only" ELSE "review_only"] : p \in reply}

(* The probes that are run: the model and the heuristic both agree. *)
executeSafeProbes(tools, probes) ==
  {p \in probes : p.safety = "read_only" /\ p.tool \in tools /\ isAutoProbeSafe(p.tool)}

-----------------------------------------------------------------------------
(* Controls: each has a dimension.  The model's reply judges some of them, *)
(* and maybe some that do not exist; without one all are to be reviewed.   *)

OUTCOMES == {"pass", "fail", "needs_review", "not_applicable"}

NoReply == [no |-> "reply"]

evaluateControls(controls, reply) ==
  IF reply = NoReply THEN [c \in DOMAIN controls |-> [of |-> controls[c], outcome |-> "needs_review"]]
  ELSE [c \in DOMAIN controls \cap DOMAIN reply |->
          [of |-> controls[c], outcome |-> IF reply[c] \in OUTCOMES THEN reply[c] ELSE "needs_review"]]

-----------------------------------------------------------------------------
(* Scores: 0 to 100, higher is more risk. *)

(* The score of a dimension from the outcomes of its controls alone. *)
ControlScore(results, d) ==
  LET rel == {c \in DOMAIN results : results[c].of = d}
      Share(outcome) == Cardinality({c \in rel : results[c].outcome = outcome})
  IN IF rel = {} THEN Unscored
     ELSE clampScore(Rounded(Share("fail") * 80 + Share("needs_review") * 45, Cardinality(rel)))

controlDerivedScorecard(results) == [d \in RISK_DIMENSIONS |-> ControlScore(results, d)]

(* From the model's reply, or else from the controls. *)
synthesizeScorecard(reply, results) ==
  IF reply = NoReply THEN controlDerivedScorecard(results)
  ELSE [d \in RISK_DIMENSIONS |-> IF d \in DOMAIN reply THEN clampScore(reply[d]) ELSE Unscored]

Weight(d) == IF d \in {"autonomy", "data", "liability", "security_posture"} THEN 2 ELSE 1

Total(scores) == SumFunction([d \in DOMAIN scores |-> scores[d] * Weight(d)])

(* Mutant of weightedOverall: the weights are left out of the divisor. *)
unevenOverall(scores) == Rounded(Total(scores), Cardinality(DOMAIN scores))

(* The mean, in which autonomy, data, liability and posture count double. *)
weightedOverall(scores) ==
  Rounded(Total(scores), SumFunction([d \in DOMAIN scores |-> Weight(d)]))

scoreToSeverity(score) ==
  CASE score >= 85 -> "critical"
    [] score >= 60 /\ score < 85 -> "high"
    [] score >= 35 /\ score < 60 -> "medium"
    [] score >= 15 /\ score < 35 -> "low"
    [] OTHER -> "info"

scoreToGrade(overall) ==
  CASE overall < 15 -> "A"
    [] overall >= 15 /\ overall < 35 -> "B"
    [] overall >= 35 /\ overall < 60 -> "C"
    [] overall >= 60 /\ overall < 85 -> "D"
    [] OTHER -> "F"
=============================================================================
