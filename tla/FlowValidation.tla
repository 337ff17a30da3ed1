---------------------------- MODULE FlowValidation ----------------------------
(***************************************************************************)
(* validateFlow (packages/core/src/flow/validation.ts), which the editor   *)
(* and the runner share, and what a condition of a flow says at run time   *)
(* (conditionActual and compare of flow/index.ts).  Pure code.             *)
(*                                                                         *)
(* A text is a value of which only what the code asks about is known: the  *)
(* constants below say which texts are blank, templates, URLs and so on.   *)
(* Issues are a set of records: the wording and the order are left out.    *)
(* A step is a record with the fields of its type.                         *)
(***************************************************************************)
EXTENDS Integers, Sequences, SequencesExt, FiniteSetsExt

CONSTANTS
  Blank,          \* texts whose trim() is empty
  Long,           \* texts of more than 120 characters
  Trimmed,        \* the function trim(), on every text
  Lower,          \* a header name without its case, trimmed
  Templates,      \* texts with a {{placeholder}}
  HttpUrls,       \* texts that new URL() parses as http: or https:
  HttpTokens,     \* trimmed texts that HTTP_TOKEN_RE matches
  VariableNames,  \* trimmed texts that VARIABLE_NAME_RE matches
  JsonPaths,      \* trimmed texts that start with $, balance their brackets, and evaluate
  Regexes,        \* texts that compile: as /pattern/flags, if of this form
  Numbers,        \* texts with a finite Number()
  JsonTexts,      \* texts that JSON.parse accepts
  JsonObjects,    \* ... of an object
  LineBreaks,     \* texts with a line break
  Undefined,      \* a field that is not there
  Fraction,       \* a number that is no integer
  MaxSteps, MaxDepth, MaxTimeout, MaxDelay, LongDelay, MaxIterations

HTTP_METHODS == {"GET", "POST", "PUT", "PATCH", "DELETE", "HEAD", "OPTIONS"}
STEP_TYPES == {"request", "delay", "condition", "loop"}
CONDITION_SOURCES == {"variable", "status", "bodyJsonPath", "header"}
ASSERTION_TYPES == {"status", "responseTime", "header", "bodyJsonPath", "bodySchema", "regex"}
EXTRACTION_SOURCES == {"body", "header", "status"}
MATCHERS == {"equals", "notEquals", "exists", "gt", "lt", "contains", "matches"}
BODY_MODES == {"none", "json", "form-data", "urlencoded", "raw"}

Error(code) == [level |-> "error", code |-> code]
Warning(code) == [level |-> "warning", code |-> code]
If(condition, issue) == IF condition THEN {issue} ELSE {}
Rows(s) == {s[i] : i \in DOMAIN s}
NonBlank(t) == t \notin Blank

-----------------------------------------------------------------------------
(* Values.                                                                 *)

hasTemplate(t) == t \in Templates
isHttpUrl(t) == t \in HttpUrls
isJsonPath(t) == NonBlank(t) /\ Trimmed[t] \in JsonPaths

validateIntegerRange(value, min, max, code) ==
  If(IF value = Fraction THEN TRUE ELSE value < min \/ value > max, Error(code))

validateRegex(pattern, code) == If(NonBlank(pattern) /\ pattern \notin Regexes, Error(code))

validateJsonSchema(text) ==
  If(text \in Blank \/ text \notin JsonObjects, Error("schema"))

validateMatcher(matcher, expected) ==
  If(matcher # "exists" /\ expected \in Blank, Error("expected"))
    \union If(matcher \in {"gt", "lt"} /\ NonBlank(expected) /\ expected \notin Numbers,
              Error("number"))
    \union IF matcher = "matches" THEN validateRegex(expected, "regex") ELSE {}

-----------------------------------------------------------------------------
(* Requests.                                                               *)

\* HTTP_TOKEN_RE and VARIABLE_NAME_RE, on the trimmed text.
Token(t) == Trimmed[t] \in HttpTokens
Variable(t) == Trimmed[t] \in VariableNames

validateHeaders(headers) ==
  LET on == SelectSeq(headers, LAMBDA h : h.enabled /\ NonBlank(h.key))
  IN UNION {If(h.key \in Blank /\ NonBlank(h.value), Error("header name"))
              \union If(NonBlank(h.key) /\ ~Token(h.key), Error("header name"))
              \union If(h.value \in LineBreaks, Error("header value")) : h \in Rows(headers)}
       \union If(\E i, j \in DOMAIN on : i < j /\ Lower[on[i].key] = Lower[on[j].key],
                 Warning("duplicate header"))

validateParams(params) ==
  If(\E p \in Rows(params) : p.key \in Blank /\ NonBlank(p.value), Error("param name"))

validateRequestBody(request) ==
  If(request.bodyMode = "none" /\ NonBlank(request.body), Warning("ignored body"))
    \union If(/\ request.bodyMode = "json" /\ NonBlank(request.body)
              /\ ~hasTemplate(request.body) /\ request.body \notin JsonTexts, Error("body"))

\* What the regex or the schema of an assertion is taken from.
Pattern(a) == IF NonBlank(a.expression) THEN Trimmed[a.expression] ELSE Trimmed[a.expected]

validateAssertion(a) ==
  If(a.id \in Blank, Error("assertion id"))
    \union If(a.type \notin ASSERTION_TYPES, Error("assertion type"))
    \union If(a.matcher \notin MATCHERS, Error("matcher"))
    \union If(/\ a.type \in {"header", "bodyJsonPath", "regex"}
              /\ a.expression \in Blank /\ a.expected \in Blank, Error("expression"))
    \union If(a.type = "header" /\ NonBlank(a.expression) /\ ~Token(a.expression), Error("header name"))
    \union If(a.type = "bodyJsonPath" /\ NonBlank(a.expression) /\ ~isJsonPath(a.expression),
              Error("path"))
    \union (IF a.type = "bodySchema" THEN validateJsonSchema(Pattern(a)) ELSE {})
    \union (IF a.type = "regex" THEN validateRegex(Pattern(a), "regex") ELSE {})
    \union validateMatcher(a.matcher, a.expected)

validateAssertions(assertions) ==
  UNION {validateAssertion(a) : a \in {b \in Rows(assertions) : b.enabled}}

validateExtractionRule(r) ==
  If(r.variableName \in Blank \/ ~Variable(r.variableName), Error("variable name"))
    \union If(r.source \notin EXTRACTION_SOURCES, Error("source"))
    \union If(r.source # "status" /\ r.expression \in Blank, Error("expression"))
    \union If(r.source = "header" /\ NonBlank(r.expression) /\ ~Token(r.expression), Error("header name"))
    \union If(r.source = "body" /\ NonBlank(r.expression) /\ ~isJsonPath(r.expression), Error("path"))

validateExtractionRules(rules) ==
  UNION {validateExtractionRule(r) : r \in {q \in Rows(rules) : q.enabled}}

validateRequestStep(r) ==
  If(r.url \in Blank \/ (~hasTemplate(r.url) /\ ~isHttpUrl(r.url)), Error("url"))
    \union If(r.method \notin HTTP_METHODS, Error("method"))
    \union validateIntegerRange(r.timeoutMs, 1, MaxTimeout, "timeout")
    \union If(r.bodyMode \notin BODY_MODES, Error("body mode"))
    \union validateHeaders(r.headers) \union validateParams(r.params)
    \union validateRequestBody(r) \union validateAssertions(r.assertions)
    \union validateExtractionRules(r.extractionRules)

validateDelayStep(delayMs) ==
  validateIntegerRange(delayMs, 0, MaxDelay, "delay")
    \union If(IF delayMs = Fraction THEN FALSE ELSE delayMs > LongDelay, Warning("long delay"))

-----------------------------------------------------------------------------
(* Conditions and loops.  seen: a request step comes before this one.      *)

conditionNeedsResponse(c) == c.source \in {"status", "header", "bodyJsonPath"}

validateCondition(c, seen) ==
  If(c.source \notin CONDITION_SOURCES, Error("source"))
    \union If(c.matcher \notin MATCHERS, Error("matcher"))
    \union If(c.source = "status" /\ NonBlank(c.expression), Warning("ignored expression"))
    \union If(c.source = "variable" /\ (c.expression \in Blank \/ ~Variable(c.expression)), Error("variable name"))
    \union If(c.source = "header" /\ (c.expression \in Blank \/ ~Token(c.expression)), Error("header name"))
    \union If(c.source = "bodyJsonPath" /\ ~isJsonPath(c.expression), Error("path"))
    \union If(conditionNeedsResponse(c) /\ ~seen, Warning("no response"))
    \union validateMatcher(c.matcher, Trimmed[c.expected])

List(steps) == IF steps = Undefined THEN <<>> ELSE steps

validateConditionStep(s, seen) ==
  validateCondition(s.condition, seen)
    \union If(s.thenSteps = Undefined, Error("thenSteps"))
    \union If(List(s.thenSteps) = <<>> /\ List(s.elseSteps) = <<>>, Warning("no branch"))

\* What a loop says of its end.
LoopIssues(s, seen) ==
  IF s.condition = Undefined
  THEN If(s.count = Undefined /\ s.maxIterations = Undefined, Error("unlimited"))
  ELSE If(s.conditionMode \notin {"while", "until"}, Error("conditionMode"))
         \union validateCondition(s.condition, seen)

validateLoopStep(s, seen) ==
  If(s.steps = Undefined, Error("loop steps"))
    \union If(List(s.steps) = <<>>, Warning("no steps"))
    \union (IF s.count = Undefined THEN {} ELSE validateIntegerRange(s.count, 1, MaxIterations, "count"))
    \union (IF s.maxIterations = Undefined THEN {}
            ELSE validateIntegerRange(s.maxIterations, 1, MaxIterations, "maxIterations"))
    \union If(IF {s.count, s.maxIterations} \intersect {Undefined, Fraction} # {} THEN FALSE
              ELSE s.count > s.maxIterations, Warning("stops first"))
    \union LoopIssues(s, seen)

-----------------------------------------------------------------------------
(* Steps.                                                                  *)

\* Mutant: a request in a branch counts for what comes after the branch.
SeenBefore_Nested(steps, i, seen) ==
  seen \/ \E j \in 1..(i - 1) :
            \/ steps[j].type = "request"
            \/ /\ steps[j].type = "condition"
               /\ \E s \in Rows(List(steps[j].thenSteps)) : s.type = "request"

\* hasPreviousRequest when validateSteps reaches a step of a list.
SeenBefore(steps, i, seen) == seen \/ \E j \in 1..(i - 1) : steps[j].type = "request"

RECURSIVE Visits(_, _, _)
\* The calls of validateStep, in their order: a step and the context it gets.
Visits(steps, depth, seen) ==
  FlattenSeq([i \in DOMAIN steps |->
    LET s == steps[i]
        before == SeenBefore(steps, i, seen)
        nested(list) == Visits(List(list), depth + 1, before)
    IN <<[step |-> s, depth |-> depth, seen |-> before]>>
         \o CASE s.type = "condition" -> nested(s.thenSteps) \o nested(s.elseSteps)
              [] s.type = "loop" -> nested(s.steps)
              [] OTHER -> <<>>])

\* stepIds has the id of a step already.
Repeated(visits, i) == \E j \in 1..(i - 1) : visits[j].step.id = visits[i].step.id

validateStep(visits, i) ==
  LET s == visits[i].step
  IN If(s.id \in Blank \/ Repeated(visits, i), Error("id"))
       \union If(s.name \in Blank \/ s.name \in Long, Error("name"))
       \union If(s.type \notin STEP_TYPES, Error("type"))
       \union CASE s.type = "request" -> validateRequestStep(s.request)
                [] s.type = "delay" -> validateDelayStep(s.delayMs)
                [] s.type = "condition" -> validateConditionStep(s, visits[i].seen)
                [] s.type = "loop" -> validateLoopStep(s, visits[i].seen)
                [] OTHER -> {}

\* The issues of a flow; those of a step are indexed by its visit, 0 is the flow.
validateFlow(flow, requireSteps) ==
  LET visits == Visits(flow.steps, 1, FALSE)
  IN [at \in 0..Len(visits) |->
        IF at > 0 THEN validateStep(visits, at)
        ELSE If(flow.name \in Blank \/ flow.name \in Long, Error("flow name"))
               \union If(flow.steps = <<>>, IF requireSteps THEN Error("empty") ELSE Warning("empty"))
               \union If(Len(visits) > MaxSteps, Error("too many"))
               \union If(\E v \in Rows(visits) : v.depth > MaxDepth, Error("too deep"))]

valid(issues) == \A at \in DOMAIN issues : \A i \in issues[at] : i.level # "error"

-----------------------------------------------------------------------------
(* The same conditions at run time: no expression is trimmed here, and a   *)
(* pattern is not taken as /pattern/flags.                                 *)

\* response: Undefined, or [status, headers, body], headers and body by name.
conditionActual(c, variables, response) ==
  LET of(f) == IF c.expression \in DOMAIN f THEN f[c.expression] ELSE Undefined
  IN IF c.source = "variable" THEN of(variables)
     ELSE IF response = Undefined THEN Undefined
     ELSE CASE c.source = "status" -> response.status
            [] c.source = "header" -> of(response.headers)
            [] OTHER -> of(response.body)

\* The comparison of texts that JavaScript makes: pairs <<actual, expected>>.
compare(actual, expected, matcher, Below, Includes, Tests) ==
  LET text == IF actual = Undefined THEN "undefined" ELSE actual
      orEmpty == IF actual = Undefined THEN "" ELSE actual
  IN CASE matcher = "exists" -> actual # Undefined
       [] matcher = "notEquals" -> text # expected
       [] matcher = "contains" -> <<orEmpty, expected>> \in Includes
       [] matcher = "matches" -> <<orEmpty, expected>> \in Tests
       [] matcher = "gt" -> <<expected, text>> \in Below
       [] matcher = "lt" -> <<text, expected>> \in Below
       [] OTHER -> text = expected
=============================================================================
