---------------------------- MODULE RedisSearch -----------------------------
(***************************************************************************)
(* A search from the setters of its parameters to its results: what        *)
(* RedisCommands writes, what RediSearch makes of the options, and what    *)
(* the loop of SearchReply, which does not know the options, reads.        *)
(***************************************************************************)
EXTENDS SearchReply

CONSTANTS
  Handles, Arguments, None, MaxCalls, MaxList,   \* of RedisCommands
  Extra     \* what an option may add to a reply: a score, or a sort key

VARIABLES
  pool, calls, cmd, said,   \* of RedisCommands
  stage,    \* "build": parameters are put together; "asked": the search is
            \* sent; "reply": its reply is read
  meant,    \* the shaping options that the caller set
  heard     \* the shaping options that RediSearch was sent

C == INSTANCE RedisCommands

\* RediSearch takes an argument by its place in a command and never for a
\* keyword: where it matters what stands there, they are told apart.
ASSUME RedisSearchAssumption ==
  /\ Extra \in Keys
  /\ MaxCalls \in Nat /\ MaxList \in Nat
  /\ None \notin Handles \cup Arguments \cup BOOLEAN \cup C!Lists
  /\ \A kind \in C!Kinds : \A clause \in C!ClausesOf(kind) :
       clause.word \notin Arguments
  /\ "SCHEMA" \notin Arguments /\ C!Empty \notin Arguments

buildVars == <<pool, calls, cmd, said>>
linkVars == <<stage, meant, heard>>
searchVars == <<vars, buildVars, linkVars>>

\* The options that give a reply another shape.
ShapeFields == {"no_content", "with_scores", "with_payloads", "with_sort_keys",
                "explain_score", "return_param"}

ShapeClauses == {c \in C!ClausesOf("search") : c.field \in ShapeFields}

SearchTypeOK ==
  /\ TypeOK /\ C!TypeOK
  /\ stage \in {"build", "asked", "reply"}
  /\ meant \subseteq ShapeFields /\ heard \subseteq ShapeFields

Nothing == hits' = <<>> /\ reply' = <<>> /\ at' = 1 /\ results' = <<>>
             /\ outcome' = "ok"

SearchInit ==
  /\ hits = <<>> /\ reply = <<>> /\ at = 1 /\ results = <<>> /\ outcome = "ok"
  /\ C!Init
  /\ stage = "build" /\ meant = {} /\ heard = {}

Compose == stage = "build" /\ C!Next /\ UNCHANGED <<vars, linkVars>>

\* The command is on its way, and its parameters go out of scope.
Ask(asked, sent) ==
  /\ stage = "build"
  /\ stage' = "asked" /\ meant' = asked /\ heard' = sent
  /\ C!Drop
  /\ UNCHANGED vars

\* Search::search with parameters.
AskWith ==
  /\ cmd # None /\ cmd.name = "FT.SEARCH"
  /\ \E part \in cmd.parts :
       Ask({c.field : c \in {d \in ShapeClauses : C!Meant(d, part[d.field]) # None}},
           {c.field : c \in {d \in ShapeClauses : d.word \in ToSet(cmd.args)}})

\* Search::search with None, as all resolvers call it.
AskPlain == cmd = None /\ pool = [h \in Handles |-> None] /\ Ask({}, {})

\* What RediSearch writes for a document found, of which it was asked for n
\* fields.  An explained score is an array of the score and the explanation;
\* without a payload there is a null; two pairs are an array of four strings.
Shaped(hit, n) ==
  LET score  == IF "explain_score" \in heard THEN NotStrings ELSE Data(Extra)
      fields == IF n = 1 THEN hit.item ELSE Uneven
      put(wanted, item) == IF wanted THEN <<item>> ELSE <<>>
  IN  <<Data(hit.key)>> \o put("with_scores" \in heard, score)
        \o put("with_payloads" \in heard, Nil)
        \o put("with_sort_keys" \in heard, Data(Extra))
        \o put("no_content" \notin heard /\ n > 0, fields)

Found == [key : Keys \ {Extra}, item : {h.item : h \in Hits}]

Arrives(found, items) ==
  /\ stage' = "reply"
  /\ hits' = found /\ reply' = items
  /\ at' = 1 /\ results' = <<>> /\ outcome' = "loop"
  /\ UNCHANGED <<buildVars, meant, heard>>

\* RediSearch answers: with the one pair of a document's path and content, or
\* with the fields that RETURN names.
Answer ==
  /\ stage = "asked"
  /\ \E found \in UpTo(Found, MaxHits), n \in 0 .. 2 :
       /\ n = 1 \/ "return_param" \in heard
       /\ LET written == [i \in DOMAIN found |-> Shaped(found[i], n)]
          IN  Arrives(found, <<Count>> \o FlattenSeq(written))

\* Anything else that is a list.
Garble ==
  /\ stage = "asked" /\ heard = {}
  /\ \E n \in 0 .. MaxItems : \E items \in [1 .. n -> Items] : Arrives(<<>>, items)

Parse == stage = "reply" /\ Next /\ UNCHANGED <<buildVars, linkVars>>

\* The results are used; the next command is put together.
Done ==
  /\ stage = "reply" /\ outcome # "loop"
  /\ stage' = "build" /\ meant' = {} /\ heard' = {}
  /\ Nothing
  /\ UNCHANGED buildVars

SearchNext ==
  Compose \/ AskWith \/ AskPlain \/ Answer \/ Garble \/ Parse \/ Done

SearchSpec == SearchInit /\ [][SearchNext]_searchVars

-----------------------------------------------------------------------------
(* Properties.                                                             *)

\* A command says of every field that is not miswritten what the caller said
\* last, on whatever chain of setters, and whatever was set before, after or on
\* another branch, and says it in the syntax of RediSearch.
CommandSaysWhatWasSet == C!CommandSaysWhatWasSet

\* Whoever has not asked for scores, payloads, sort keys or chosen fields gets
\* the documents found, in their order, none twice and none with the content of
\* another, whatever else was set, and unset, on the way to the command.  (With
\* WITHSCORES or WITHSORTKEYS the loop takes a score for the key of a result.)
SearchFindsDocuments == stage = "reply" /\ meant = {} => ResultsAreDocuments

\* A search that asks for explained scores, or for payloads of documents that
\* have none, is read like a plain one: an array that is no pair of strings and
\* a null are passed over, and do not come between a key and its content.
HarmlessOptions ==
  /\ stage = "reply"
  /\ heard \subseteq {"with_payloads", "with_scores", "explain_score"}
  /\ "with_scores" \in heard => "explain_score" \in heard
  => ResultsAreDocuments
=============================================================================
