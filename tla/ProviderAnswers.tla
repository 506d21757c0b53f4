--------------------------- MODULE ProviderAnswers ---------------------------
(***************************************************************************)
(* How the clients of the REST providers (Doppler, Cloudflare, Northflank) *)
(* read an HTTP answer: DopplerClient._request and the two functions named *)
(* _handle_response.  The three look alike and differ in the order of      *)
(* their tests.                                                            *)
(*                                                                         *)
(* An answer is a status code and the kind of its body: none, text that is *)
(* not JSON, a JSON object, or Cloudflare's envelope with success true or  *)
(* false.  A client reads it as an "error" (RuntimeError), as an "empty"   *)
(* object, or as what the body carries.                                    *)
(***************************************************************************)
EXTENDS Naturals

Providers == {"doppler", "cloudflare", "northflank"}

AnswerKinds == [code : {200, 204, 400},
                body : {"none", "text", "json", "success", "failure"}]

(* What a provider may answer; only Cloudflare has the envelope, and it    *)
(* does not report success with an error code.                             *)
Answers(p) ==
    {a \in AnswerKinds : /\ a.code = 204 => a.body = "none"
                         /\ a.body \in {"success", "failure"} => p = "cloudflare"
                         /\ a.code = 400 => a.body # "success"}

(* The provider did what it was asked to do. *)
Accepted(a) == a.code < 400 /\ a.body # "failure"

NoContent(a) == a.code = 204 \/ a.body = "none"

(* No content is looked at first, whatever the status. *)
DopplerReads(a) ==
    IF NoContent(a) THEN "empty"
    ELSE IF a.code >= 400 THEN "error" ELSE a.body

NorthflankReads(a) ==
    IF a.code >= 400 THEN "error"
    ELSE IF NoContent(a) THEN "empty" ELSE a.body

(* Mutant: the status code decides before the envelope is looked at. *)
MutantCloudflareReads(a) == NorthflankReads(a)

(* The envelope decides before the status does. *)
CloudflareReads(a) ==
    IF a.body = "failure" THEN "error" ELSE NorthflankReads(a)

Reads(p, a) == CASE p = "doppler" -> DopplerReads(a)
                 [] p = "cloudflare" -> CloudflareReads(a)
                 [] p = "northflank" -> NorthflankReads(a)

(* One request, as seen by both sides: whether the provider did it, and    *)
(* what the caller makes of it.  An answer that is lost is an exception of *)
(* the HTTP library, whether or not the request arrived.                   *)
Exchanges(p) ==
    {[applied |-> Accepted(a), reading |-> Reads(p, a)] : a \in Answers(p)}
      \cup [applied : BOOLEAN, reading : {"lost"}]

Fails(x) == x.reading \in {"error", "lost"}
==============================================================================
