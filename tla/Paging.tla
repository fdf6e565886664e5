------------------------------- MODULE Paging -------------------------------
(***************************************************************************)
(* internal/system_g/httpx/exchange.go: one HTTP exchange and the          *)
(* continuation it drives.  "paginate", "follow" and "link" re-request     *)
(* with what the last response named next, a token or a URL; "page_number" *)
(* counts pages up to the total each response states; "poll" re-requests   *)
(* until a status is reached; "none" sends once.  The server may answer    *)
(* anything.  Retries within one request are in Retry.                     *)
(***************************************************************************)
EXTENDS Integers, Sequences

CONSTANTS
    Kinds,          \* the continuations looked at
    Tokens,         \* what a server may name next
    FirstURL,       \* the URL of the first request, which a next link may name too
    Pages,          \* the highest page number and total a server states
    MaxAttempts,    \* of a poll
    PageLimits,     \* limits on pages per read, 0 = none
    Ahead,          \* responses fetched ahead of the reader
    Ignorable       \* whether the run ignores failed reads

VARIABLES
    kind, limit,
    phase,          \* "ask", "emit", "next", "ended"
    token, seen,    \* what to ask for; what has been named before
    page,           \* responses so far
    answer,         \* the last response: what it names next, and the total
    asked,          \* every request sent, by what it asked for
    unread, reader, \* responses not yet read; whether the reader is there
    result          \* "" or how it ended: "eof", "error"

vars == <<kind, limit, phase, token, seen, page, answer, asked, unread, reader, result>>
None == ""

\* What the first request asks for: the templated URL, which for a continuation by URL
\* is a URL like the ones the server names, though not one it has named yet.
ByURL == kind \in {"follow", "link"}
Start == IF kind = "page_number" THEN 1 ELSE IF ByURL THEN FirstURL ELSE None

Init ==
    /\ kind \in Kinds /\ limit \in PageLimits
    /\ phase = "ask" /\ token = Start
    /\ seen = {} /\ page = 0 /\ answer = [next |-> token, total |-> 0]
    /\ asked = << >> /\ unread = 0 /\ reader = TRUE /\ result = ""

Named == kind \in {"paginate", "follow", "link"}

\* What the response at this point says: a token or link or nothing, a page
\* number and a total (0: not a number), or a status that is or is not the one awaited.
Answers ==
    CASE Named -> [next : Tokens \cup {None}, total : {0}]
      [] kind = "page_number" -> [next : 0 .. Pages, total : 0 .. Pages]
      [] kind = "poll" -> [next : {"pending", "done"}, total : {0}]
      [] OTHER -> [next : {None}, total : {0}]

WithinPageLimit == kind \in {"poll", "none"} \/ limit = 0 \/ page < limit

End(how) == phase' = "ended" /\ result' = how

\* do: build the request for token and send it; a request under a limit
\* already reached is not made.
Ask ==
    /\ phase = "ask"
    /\ IF ~WithinPageLimit THEN End("eof") /\ UNCHANGED <<answer, asked, page>>
       ELSE /\ asked' = Append(asked, token)
            /\ page' = page + 1
            /\ answer' \in Answers
            /\ phase' = (IF kind = "poll" /\ answer'.next # "done" THEN "next" ELSE "emit")
            /\ UNCHANGED result
    /\ UNCHANGED <<kind, limit, token, seen, unread, reader>>

\* The request fails for good, or with a status the run ignores, which ends
\* the read as if there were no more pages.
AskFails ==
    /\ phase = "ask" /\ WithinPageLimit
    /\ asked' = Append(asked, token)
    /\ End("error") \/ (Ignorable /\ End("eof"))
    /\ UNCHANGED <<kind, limit, token, seen, page, answer, unread, reader>>

\* emit: append the response, waiting for room; that nobody reads any more
\* is not an error, and the continuation goes on.
Emit ==
    /\ phase = "emit" /\ (reader => unread < Ahead)
    /\ unread' = (IF reader THEN unread + 1 ELSE unread)
    /\ phase' = "next" /\ UNCHANGED <<kind, limit, token, seen, page, answer, asked, reader, result>>

\* Append comes back with the context's error while it waits for room, or the wait
\* between two polls does.
Stopped ==
    /\ phase = "emit" \/ (phase = "next" /\ kind = "poll" /\ answer.next # "done")
    /\ End("error")
    /\ UNCHANGED <<kind, limit, token, seen, page, answer, asked, unread, reader>>

\* paginate, follow and link: no next is the end, one named before an error.
NextToken ==
    IF answer.next = None THEN End("eof") /\ UNCHANGED <<token, seen>>
    ELSE IF answer.next \in seen THEN End("error") /\ UNCHANGED <<token, seen>>
    ELSE /\ phase' = "ask" /\ token' = answer.next
         /\ seen' = seen \cup {answer.next} /\ UNCHANGED result

\* pageNumber: no number, or the total reached, is the end; a page before the
\* one asked for an error.
NextPage ==
    IF answer.next = 0 \/ answer.next >= answer.total THEN End("eof") /\ UNCHANGED token
    ELSE IF answer.next < token THEN End("error") /\ UNCHANGED token
    ELSE phase' = "ask" /\ token' = answer.next + 1 /\ UNCHANGED result

\* poll: ended by the awaited status, or given up after MaxAttempts.
NextPoll ==
    IF answer.next = "done" THEN End("eof")
    ELSE IF page >= MaxAttempts THEN End("error")
    ELSE phase' = "ask" /\ UNCHANGED result

Continue ==
    /\ phase = "next"
    /\ \/ Named /\ NextToken
       \/ kind = "page_number" /\ NextPage /\ UNCHANGED seen
       \/ kind = "poll" /\ NextPoll /\ UNCHANGED <<token, seen>>
       \/ kind = "none" /\ End("eof") /\ UNCHANGED <<token, seen>>
    /\ UNCHANGED <<kind, limit, page, answer, asked, unread, reader>>

Read == /\ reader /\ unread > 0 /\ unread' = unread - 1
        /\ UNCHANGED <<kind, limit, phase, token, seen, page, answer, asked, reader, result>>

Close == /\ reader /\ reader' = FALSE
         /\ UNCHANGED <<kind, limit, phase, token, seen, page, answer, asked, unread, result>>

Next == Ask \/ AskFails \/ Emit \/ Stopped \/ Continue \/ Read \/ Close

\* The producer runs on, and a reader that stays reads.
\* What must go on: some goroutine that can take a step does, and every call
\* returns.  Nobody is obliged to fail, to cancel or to leave early.
Progress == Ask \/ Emit \/ Continue \/ Read

Spec == Init /\ [][Next]_vars /\ WF_vars(Progress)

-----------------------------------------------------------------------------
\* Nothing is asked for twice, whatever the server answers, except by a poll: a page
\* read twice would be rows emitted twice.  The exception is the first page of a
\* continuation by URL: seen holds what responses named (exchange.go:177, 205), not the
\* URL first asked for, so a link back to it is followed, and its rows come a second
\* time, before the loop is noticed.
NoPageTwice ==
    kind # "poll" =>
        \A i, j \in 1 .. Len(asked) : i < j /\ asked[i] = asked[j] => ByURL /\ i = 1

\* The continuation has ended, as it must against any server that names finitely
\* many tokens and keeps its total below a bound.
Done == phase = "ended"

\* The responses fetched that the reader has not taken: those in the buffer, and the
\* one that waits in Append for room.
Fetched == unread + (IF phase = "emit" /\ reader THEN 1 ELSE 0)

\* At most Ahead responses wait for a slow reader in the buffer, and no request is made
\* before the response to the last one is among them: Ahead + 1 are ever fetched and not
\* taken, one more than exchange.go:61 and omnisdk.go:466 say.
NeverTooFarAhead == unread <= Ahead /\ (reader => Fetched <= Ahead + 1)

\* A read that ends without an error, and without a status the run ignores,
\* stopped where the server said: it named no next page, its total was
\* reached, the awaited status was seen, or the caller's limit was.
CleanEndIsTheServersEnd ==
    result = "eof" /\ ~Ignorable =>
        \/ limit # 0 /\ page = limit
        \/ Named /\ answer.next = None
        \/ kind = "page_number" /\ (answer.next = 0 \/ answer.next >= answer.total)
        \/ kind = "poll" /\ answer.next = "done"
        \/ kind = "none" /\ page = 1

(***************************************************************************)
(* Why a page is asked for once, whatever the server names: what was named *)
(* is kept in seen and asked for when new, and page numbers only grow. The *)
(* proof is in RuntimeProofs.                                              *)
(***************************************************************************)
Instance ==
    /\ Kinds \subseteq {"none", "paginate", "follow", "link", "page_number", "poll"}
    /\ Pages \in Nat /\ Ahead \in Nat /\ PageLimits \subseteq Nat

Askable == Tokens \cup {None, FirstURL} \cup Nat
TypeOK ==
    /\ kind \in Kinds /\ limit \in Nat /\ page \in Nat /\ unread \in Nat
    /\ phase \in {"ask", "emit", "next", "ended"}
    /\ token \in Askable /\ asked \in Seq(Askable)
    /\ kind = "page_number" => token \in Nat
    /\ phase \in {"emit", "next"} => answer \in Answers

\* What was asked for: the first request, then names seen before or pages up to the
\* current one.
Asked ==
    /\ asked = << >> => token = Start /\ phase \notin {"emit", "next"}
    /\ asked # << >> => asked[1] = Start /\ (Named /\ phase = "ask" => token \in seen)
    /\ Named => /\ token \in seen \cup {Start}
                /\ \A i \in 2 .. Len(asked) : asked[i] \in seen
    /\ kind = "page_number" => \A i \in 1 .. Len(asked) : asked[i] \in Nat /\ asked[i] <= token
    /\ kind = "none" /\ phase = "ask" => asked = << >>
    /\ None \notin seen

\* What is to be asked for next has not been, the first request apart.
Unasked ==
    phase = "ask" /\ kind # "poll" =>
        \A i \in 1 .. Len(asked) : asked[i] = token => ByURL /\ i = 1

Counted ==
    /\ kind = "none" => page = (IF phase \in {"emit", "next"} THEN 1 ELSE page)
    /\ kind = "none" /\ phase = "ask" => page = 0
    /\ limit # 0 /\ kind \notin {"poll", "none"} => page <= limit

Ends == /\ result = "eof" => phase = "ended"
        /\ CleanEndIsTheServersEnd

IInv == TypeOK /\ Asked /\ Unasked /\ NoPageTwice /\ Counted /\ Ends /\ NeverTooFarAhead
=============================================================================
