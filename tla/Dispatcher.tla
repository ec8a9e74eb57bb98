----------------------------- MODULE Dispatcher -----------------------------
(***************************************************************************)
(* What an R3::Tree promises to the program that uses it: a table of       *)
(* routes, a list of what was added, and replies that come from the table. *)
(* A tree, indices into an array and borrowed buffers implement it in      *)
(* R3Binding.                                                              *)
(***************************************************************************)
EXTENDS Naturals, Sequences, FiniteSets

CONSTANTS
    Additions,          \* [path, method, data] of the routes added
    Questions,          \* [op, path, method] of the requests asked about
    WellFormed(_),      \* a pattern that is accepted
    MethodFits(_, _),   \* a route's method answers for a request's
    Params(_, _),       \* what the slugs of a pattern can stand for in a path
    NoAddition, NoReply

VARIABLES
    routes,     \* [path, rank, method, data]: rank counts those of a path
    listing,    \* what "routes" returns
    addition,   \* the call of add in progress
    reply,      \* the answer to a question
    open        \* free has not been called

vars == <<routes, listing, addition, reply, open>>

Init ==
    /\ routes = {}
    /\ listing = <<>>
    /\ addition = NoAddition
    /\ reply = NoReply
    /\ open = TRUE

Waiting == open /\ addition = NoAddition /\ reply = NoReply

Submit(new) ==
    /\ Waiting
    /\ addition' = [new |-> new, done |-> FALSE]
    /\ UNCHANGED <<routes, listing, reply, open>>

Decide == addition # NoAddition /\ ~addition.done
          /\ addition' = [addition EXCEPT !.done = TRUE]
          /\ UNCHANGED <<listing, reply, open>>

Accept ==
    /\ Decide
    /\ WellFormed(addition.new.path)
    /\ LET before == {route \in routes : route.path = addition.new.path}
       IN routes' = routes \cup
                    {[path |-> addition.new.path, rank |-> Cardinality(before) + 1,
                      method |-> addition.new.method, data |-> addition.new.data]}

Refuse ==
    /\ Decide
    /\ ~WellFormed(addition.new.path)
    /\ UNCHANGED routes

\* add returns: what was added is listed, accepted or not, with its method or as
\* a route of any method, {}.
Finish ==
    /\ addition # NoAddition /\ addition.done
    /\ LET method == addition.new.method
           shown == IF Cardinality(method) = 1 THEN method ELSE {}
       IN listing' = Append(listing, [method |-> shown,
                                      path |-> addition.new.path])
    /\ addition' = NoAddition
    /\ UNCHANGED <<routes, reply, open>>

\* Of a pattern the question fits, the first route with a method that fits.
Fits(route, question) ==
    /\ MethodFits(route.method, question.method)
    /\ \A other \in routes :
        other.path = route.path /\ other.rank < route.rank =>
            ~MethodFits(other.method, question.method)

Answers(question) ==
    UNION {{[params |-> params, data |-> route.data] :
                params \in Params(route.path, question.path)} :
            route \in {r \in routes : Fits(r, question)}}

\* A question may be answered by any pattern it fits, or be missed: which, is
\* the tree's business.
Ask(question) ==
    /\ Waiting
    /\ \E answer \in {{}} \cup {{a} : a \in Answers(question)} :
        reply' = [op |-> question.op,
                  value |-> CASE question.op = "match"     -> answer
                              [] question.op = "match?"    -> answer # {}
                              [] question.op = "mismatch?" -> answer = {}]
    /\ UNCHANGED <<routes, listing, addition, open>>

Take ==
    /\ reply # NoReply
    /\ reply' = NoReply
    /\ UNCHANGED <<routes, listing, addition, open>>

Free ==
    /\ Waiting
    /\ open' = FALSE
    /\ routes' = {}
    /\ listing' = <<>>
    /\ UNCHANGED <<addition, reply>>

Next ==
    \/ \E new \in Additions : Submit(new)
    \/ Accept \/ Refuse \/ Finish
    \/ \E question \in Questions : Ask(question)
    \/ Take
    \/ Free

Spec == Init /\ [][Next]_vars
=============================================================================
