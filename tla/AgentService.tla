---------------------------- MODULE AgentService ----------------------------
(***************************************************************************)
(* What the forwarded agent promises to its clients: every request has one *)
(* answer, decided by the request and by whether the agent is locked, and  *)
(* nothing but a request whose type the agent does not know ends the       *)
(* session.  The promise is for clients that come one after the other and  *)
(* go with their requests answered (orderly).  Once they do not, any       *)
(* client may get an answer to any request, or the session may break; but  *)
(* each answer is still one that the lock calls for.                       *)
(***************************************************************************)
EXTENDS Sequences, SequencesExt

CONSTANTS Client, Request

VARIABLES
  locked,    \* the agent is locked
  secret,    \* the passphrase it is locked with
  asked,     \* by client: its last request
  given,     \* by client: the kind of the answer to it, or "none"
  session,   \* "serving", "broken" by the agent, or "ended"
  orderly    \* no client has overlapped another or gone in between
svars == <<locked, secret, asked, given, session, orderly>>

SInit == /\ locked = FALSE /\ secret = <<>> /\ orderly = TRUE
         /\ asked = [c \in Client |-> [type |-> "none"]]
         /\ given = [c \in Client |-> "none"]
         /\ session = "serving"

Ask(c) == /\ asked[c].type = "none" \/ given[c] # "none"
          /\ asked' \in [Client -> Request]
          /\ \A d \in Client \ {c} : asked'[d] = asked[d]
          /\ given' = [given EXCEPT ![c] = "none"]
          /\ UNCHANGED <<locked, secret, session, orderly>>

\* The answers to a request: a locked agent shows no key and signs nothing;
\* one that is not may fail to sign; it opens for the beginning of the passphrase it was locked with.
Answers(r) ==
    CASE r.type = "REQUEST_IDENTITIES" ->
            {IF locked THEN "no identities" ELSE "identities"}
      [] r.type = "SIGN_REQUEST" ->
            IF locked \/ ~r.mine \/ r.flags # 0 THEN {"FAILURE"}
            ELSE {"SIGN_RESPONSE", "FAILURE"}
      [] r.type = "LOCK" -> {IF locked THEN "FAILURE" ELSE "SUCCESS"}
      [] r.type = "UNLOCK" ->
            {IF locked /\ IsPrefix(r.pass, secret) THEN "SUCCESS"
             ELSE "FAILURE"}
      [] OTHER -> {"FAILURE"}

\* Client c is answered as if it had asked r.
Answered(c, r) ==
    /\ r.type \notin {"none", "unknown"}
    /\ \E a \in Answers(r) :
          LET turned == a = "SUCCESS"
          IN  /\ given' = [given EXCEPT ![c] = a]
              /\ locked' = IF turned THEN r.type = "LOCK" ELSE locked
              /\ secret' = IF ~turned THEN secret
                            ELSE IF r.type = "LOCK" THEN r.pass ELSE <<>>
    /\ UNCHANGED <<asked, session, orderly>>

Broken == /\ session' = "broken"
          /\ UNCHANGED <<locked, secret, asked, given, orderly>>

Answer(c) == given[c] = "none" /\ Answered(c, asked[c])

Break(c) == asked[c].type = "unknown" /\ given[c] = "none" /\ Broken

End == /\ session' = "ended"
       /\ UNCHANGED <<locked, secret, asked, given, orderly>>

\* A client comes while another has the channel, or leaves a request behind.
Overlap == /\ orderly' = FALSE
           /\ UNCHANGED <<locked, secret, asked, given, session>>

\* The reader takes what is left of several requests for one.
AnswerMixed(c) == ~orderly /\ \E r \in Request : Answered(c, r)
BreakMixed == ~orderly /\ Broken

SNext == \/ \E c \in Client : Ask(c) \/ Answer(c) \/ Break(c) \/ AnswerMixed(c)
         \/ End \/ Overlap \/ BreakMixed

Service == SInit /\ [][SNext]_svars
=============================================================================
