--------------------------- MODULE RedisCommands ----------------------------
(***************************************************************************)
(* The commands server/core/redis.rs sends to RedisJSON and RediSearch:    *)
(* parameter values put together by chains of setters (FTCreateParameters, *)
(* FTSchemaField, FTFieldOptions, FTSearchParameters), each of which       *)
(* copies a dozen fields by hand, and the argument lists that Search and   *)
(* JSON write from them.                                                   *)
(*                                                                         *)
(* A setter borrows its receiver and returns a new value, so that chains   *)
(* fork: a value may be extended twice, and sent after it was extended.    *)
(* What a clause with several arguments writes after its keyword is one    *)
(* argument here; a clause that takes a list writes each element, which is *)
(* one argument too: a count and a name.  (SUMMARIZE and HIGHLIGHT without *)
(* a list of fields, and the tags of HIGHLIGHT, are left out.)             *)
(***************************************************************************)
EXTENDS Sequences, SequencesExt, FiniteSets, Naturals

CONSTANTS
  Handles,    \* variables of the caller that hold a value of a builder
  Arguments,  \* what a caller may pass where text or numbers are asked for
  None,
  MaxCalls,   \* bound on the setters called
  MaxList     \* bound on the length of a list that a caller passes

VARIABLES
  pool,   \* handle -> the kind of builder and its fields, or None
  calls,  \* setters called so far
  cmd,    \* the command sent last: its arguments, and how each field in it
          \* was last set
  said    \* history: how the caller last set each field of a handle

vars == <<pool, calls, cmd, said>>

-----------------------------------------------------------------------------
(* Clauses: a field, its keyword, and what is written for it.              *)
(*   flag   the keyword, if the field is Some(true)                        *)
(*   word   the keyword, if the field is Some                              *)
(*   args   the keyword and its arguments, if the field is Some            *)
(*   list   the keyword and each element, if the field is Some             *)
(*   bare   the argument alone; the field is no option, and at first Empty *)

Empty == ""  \* String::default()

Clause(field, word, form) == [field |-> field, word |-> word, form |-> form]

\* Search::create, the parameters.
CreateClauses ==
  << Clause("prefix", "PREFIX", "list"),
     Clause("filter", "FILTER", "args"),
     Clause("language", "LANGUAGE", "args"),
     Clause("language_field", "LANGUAGE_FIELD", "args"),
     Clause("score", "SCORE", "args"),
     Clause("score_field", "SCORE_FIELD", "args"),
     Clause("payload_field", "PAYLOAD_FIELD", "args"),
     Clause("max_text_fields", "MAXTEXTFIELDS", "args"),
     Clause("no_offsets", "NOOFFSETS", "word"),
     Clause("temporary", "TEMPORARY", "word"),
     Clause("nohl", "NOHL", "word"),
     Clause("no_fields", "NOFIELDS", "word"),
     Clause("no_freqs", "NOFREQS", "word"),
     Clause("stopwords", "STOPWORDS", "args"),
     Clause("skip_initial_scan", "SKIPINITIALSCAN", "flag") >>

\* Search::create, a field of the schema.
SchemaClauses ==
  << Clause("name", Empty, "bare"),
     Clause("field_as", "AS", "args"),
     Clause("field_type", Empty, "bare"),
     Clause("nostem", "NOSTEM", "flag"),
     Clause("weight", "WEIGHT", "args"),
     Clause("phonetic", "PHONETIC", "args"),
     Clause("seperator", "SEPARATOR", "args"),
     Clause("sortable", "SORTABLE", "flag"),
     Clause("noindex", "NOINDEX", "flag") >>

\* Search::alter.
OptionClauses ==
  << Clause("sortable", "SORTABLE", "flag"),
     Clause("noindex", "NOINDEX", "flag"),
     Clause("nostem", "NOSTEM", "flag"),
     Clause("phonetic", "PHONETIC", "args"),
     Clause("separator", "SEPARATOR", "args"),
     Clause("weight", "WEIGHT", "args") >>

\* Search::search.
SearchClauses ==
  << Clause("no_content", "NOCONTENT", "flag"),
     Clause("verbatim", "VERBATIM", "flag"),
     Clause("no_stop_words", "NOSTOPWORDS", "flag"),
     Clause("with_scores", "WITHSCORES", "flag"),
     Clause("with_payloads", "WITHPAYLOADS", "flag"),
     Clause("with_sort_keys", "WITHSORTKEYS", "flag"),
     Clause("filter", "FILTER", "args"),
     Clause("geo_filter", "GEOFILTER", "args"),
     Clause("in_keys", "INKEYS", "args"),
     Clause("in_fields", "INFIELDS", "args"),
     Clause("return_param", "RETURN", "args"),
     Clause("summarize", "SUMMARIZE", "list"),
     Clause("highlight", "HIGHLIGHT", "list"),
     Clause("slop", "SLOP", "args"),
     Clause("in_order", "INORDER", "flag"),
     Clause("language", "LANGUAGE", "args"),
     Clause("expander", "EXPANDER", "args"),
     Clause("scorer", "SCORER", "args"),
     Clause("explain_score", "EXPLAINSCORE", "flag"),
     Clause("payload", "PAYLOAD", "args"),
     Clause("sort_by", "SORTBY", "args"),
     Clause("limit", "LIMIT", "args") >>

Kinds == {"create", "schema", "option", "search"}

Clauses(kind) ==
  CASE kind = "create" -> CreateClauses
    [] kind = "schema" -> SchemaClauses
    [] kind = "option" -> OptionClauses
    [] kind = "search" -> SearchClauses

ClausesOf(kind) == ToSet(Clauses(kind))

Lists == UNION {[1 .. n -> Arguments] : n \in 0 .. MaxList}

Values(clause) ==
  CASE clause.form = "flag" -> BOOLEAN
    [] clause.form = "list" -> Lists
    [] clause.form \notin {"flag", "list"} -> Arguments

\* What is written for a clause whose field has value v.
Written(clause, v) ==
  CASE clause.form = "bare" -> <<IF v = None THEN Empty ELSE v>>
    [] v = None /\ clause.form # "bare" -> <<>>
    [] v # None /\ clause.form = "flag" -> IF v THEN <<clause.word>> ELSE <<>>
    [] v # None /\ clause.form = "word" -> <<clause.word>>
    [] v # None /\ clause.form = "args" -> <<clause.word, v>>
    [] v # None /\ clause.form = "list" -> <<clause.word>> \o v

WrittenAll(kind, fields) ==
  FlattenSeq([i \in DOMAIN Clauses(kind) |->
                Written(Clauses(kind)[i], fields[Clauses(kind)[i].field])])

-----------------------------------------------------------------------------
(* Builders.                                                               *)

Fields(kind) == {clause.field : clause \in ClausesOf(kind)}

\* build(): no field is set.
Build(kind) == [kind |-> kind, fields |-> [f \in Fields(kind) |-> None]]

\* Mutant of Set: the copy of one field is forgotten.
SetForgets(builder, f, v) ==
  [builder EXCEPT !.fields = [g \in DOMAIN @ |->
     IF g = f THEN v ELSE IF g = "score" THEN None ELSE @[g]]]

\* Mutant of Set: a setter records that it was called.
SetMarks(builder, f, v) == [builder EXCEPT !.fields[f] = TRUE]

\* A setter: a new value with this field set and all others copied.
Set(builder, f, v) == [builder EXCEPT !.fields[f] = v]

TypeOK ==
  /\ DOMAIN pool = Handles /\ DOMAIN said = Handles
  /\ \A h \in Handles : pool[h] # None =>
       /\ pool[h].kind \in Kinds
       /\ DOMAIN pool[h].fields = Fields(pool[h].kind)
       /\ \A clause \in ClausesOf(pool[h].kind) :
            pool[h].fields[clause.field] \in {None} \cup Values(clause)
  /\ calls \in 0 .. MaxCalls

Init ==
  /\ pool = [h \in Handles |-> None]
  /\ calls = 0
  /\ cmd = None
  /\ said = [h \in Handles |-> None]

New(h, kind) ==
  /\ pool[h] = None
  /\ pool' = [pool EXCEPT ![h] = Build(kind)]
  /\ said' = [said EXCEPT ![h] = [f \in Fields(kind) |-> None]]
  /\ UNCHANGED <<calls, cmd>>

Is(h, kind) == pool[h] # None /\ pool[h].kind = kind

\* let g = h.field(value), where g may be h.
Extend(h, g) ==
  /\ calls < MaxCalls
  /\ \E clause \in ClausesOf(pool[h].kind) : \E v \in Values(clause) :
       /\ pool' = [pool EXCEPT ![g] = Set(pool[h], clause.field, v)]
       /\ said' = [said EXCEPT ![g] = [said[h] EXCEPT ![clause.field] = v]]
  /\ calls' = calls + 1
  /\ UNCHANGED cmd

\* The setters of the four builders.
ExtendCreate(h, g) == Is(h, "create") /\ Extend(h, g)
ExtendSchema(h, g) == Is(h, "schema") /\ Extend(h, g)
ExtendOption(h, g) == Is(h, "option") /\ Extend(h, g)
ExtendSearch(h, g) == Is(h, "search") /\ Extend(h, g)

Sent(name, parts, args) ==
  /\ cmd' = [name |-> name, parts |-> parts, args |-> args]
  /\ UNCHANGED <<pool, calls, said>>

WrittenOf(h) == WrittenAll(pool[h].kind, pool[h].fields)

\* Search::create with parameters p or None, and a schema of one field.
Create(p, f) ==
  /\ Is(f, "schema")
  /\ p # None => Is(p, "create")
  /\ Sent("FT.CREATE", {said[h] : h \in {p, f} \ {None}},
          (IF p = None THEN <<>> ELSE WrittenOf(p))
            \o <<"SCHEMA">> \o WrittenOf(f))

Search(h) == Is(h, "search") /\ Sent("FT.SEARCH", {said[h]}, WrittenOf(h))

Alter(h) == Is(h, "option") /\ Sent("FT.ALTER", {said[h]}, WrittenOf(h))

\* The values go out of scope, sent or not.
Drop ==
  /\ pool' = [h \in Handles |-> None] /\ said' = pool'
  /\ calls' = 0 /\ cmd' = None

Next ==
  \/ /\ cmd = None
     /\ \E h \in Handles :
          \/ \E kind \in Kinds : New(h, kind)
          \/ \E g \in Handles : \/ ExtendCreate(h, g) \/ ExtendSchema(h, g)
                                \/ ExtendOption(h, g) \/ ExtendSearch(h, g)
          \/ \E p \in Handles \cup {None} : Create(p, h)
          \/ Search(h) \/ Alter(h)
  \/ Drop

Spec == Init /\ [][Next]_vars

-----------------------------------------------------------------------------
(* Properties.                                                             *)

Position(word) == CHOOSE i \in DOMAIN cmd.args : cmd.args[i] = word

\* The words that take no argument in the syntax of RediSearch.  The others
\* take what their setters ask for; PREFIX, and FIELDS within SUMMARIZE and
\* HIGHLIGHT, take one count and as many names.
Alone ==
  {"MAXTEXTFIELDS", "NOOFFSETS", "NOHL", "NOFIELDS", "NOFREQS", "SKIPINITIALSCAN",
   "NOSTEM", "SORTABLE", "NOINDEX", "NOCONTENT", "VERBATIM", "NOSTOPWORDS",
   "WITHSCORES", "WITHPAYLOADS", "WITHSORTKEYS", "INORDER", "EXPLAINSCORE"}

Words == UNION {{clause.word : clause \in ClausesOf(kind)} : kind \in Kinds}

Keywords == {word \in {"SCHEMA"} \cup Words : word # Empty}

\* What a command says of a clause: None if its word is missing, what follows
\* the word, or TRUE if that is another word or nothing.  The name follows
\* SCHEMA, and the type follows the name or the name's AS.
Heard(clause) ==
  LET schema == Position("SCHEMA")
      aliased == cmd.args[schema + 2] = "AS"
      next == Position(clause.word) + 1
  IN  CASE clause.field = "name" -> cmd.args[schema + 1]
        [] clause.field = "field_type" ->
             cmd.args[IF aliased THEN schema + 4 ELSE schema + 2]
        [] clause.word # Empty /\ clause.word \notin ToSet(cmd.args) -> None
        [] clause.word # Empty /\ clause.word \in ToSet(cmd.args) ->
             IF next \in DOMAIN cmd.args /\ cmd.args[next] \notin Keywords
             THEN cmd.args[next] ELSE TRUE

\* What a command has to say to RediSearch for a field that was set to v.
\* Some(false) and None are the same to a flag; one group of a list is the
\* argument of its word.
Meant(clause, v) ==
  IF clause.form = "bare" THEN IF v = None THEN Empty ELSE v
  ELSE IF v = None \/ (clause.form = "flag" /\ ~v) THEN None
  ELSE IF clause.word \in Alone THEN TRUE
  ELSE IF clause.form = "list" /\ v \in [1 .. 1 -> Arguments] THEN v[1] ELSE v

\* What Search writes in a way that RediSearch refuses or takes for something
\* else: TEMPORARY without its seconds, MAXTEXTFIELDS with a number, and a list
\* with a count for each of its names, unless there is just one.
Miswritten(clause, v) ==
  /\ v # None
  /\ \/ clause.field \in {"temporary", "max_text_fields"}
     \/ clause.form = "list" /\ v \notin [1 .. 1 -> Arguments]

\* A command says of every field, in the syntax of RediSearch, what the caller
\* said last on the chain of setters that made the value, whatever was set
\* before, after or on another branch of the chain; and the schema's name stays
\* in front of its type.  What Search itself miswrites is no part of this.
CommandSaysWhatWasSet ==
  cmd # None =>
    \A part \in cmd.parts : \A kind \in Kinds :
      DOMAIN part = Fields(kind) =>
        \A clause \in ClausesOf(kind) :
          \/ Miswritten(clause, part[clause.field])
          \/ Heard(clause) = Meant(clause, part[clause.field])
=============================================================================
