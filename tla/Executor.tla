------------------------------- MODULE Executor -------------------------------
(***************************************************************************)
(* What running a payload can end in: executePayload of worker/executor.go *)
(* for every kind of payload.                                              *)
(*                                                                         *)
(* An outcome is a pair: where the error comes from, and the set of those *)
(* phrases that the autopsy looks for in its text.  Some texts come from   *)
(* outside (an HTTP answer, the standard error of a command) or repeat a   *)
(* part of the payload, and may hold any phrase.  A payload is known by    *)
(* its kind; "slow" ones do not end before their run context does, and the *)
(* "misnamed" one is a rejected command that has timeout in its words.     *)
(***************************************************************************)
Commands == {"command", "slow command", "rejected command", "misnamed command",
             "blank command"}
Requests == {"request", "slow request", "bad request"}
Sleeps   == {"sleep", "slow sleep"}

Payloads == Commands \cup Requests \cup Sleeps \cup {"fail", "malformed", "unlisted"}

Phrases == {"timeout", "connection", "rejected"}

OK    == <<"ok", {}>>
Panic == <<"panic", {}>>

\* Any text: its phrases are any of these.
Text(source, phrases) == {source} \X SUBSET phrases

\* A blank command has no fields: parts[0] is out of range, and no one recovers.
\* A rejection quotes the word that it rejects; the connection errors have blanks.
validateCommand(p) ==
    CASE p = "blank command"    -> Panic
      [] p = "rejected command" -> <<"validate", {"rejected"}>>
      [] p = "misnamed command" -> <<"validate", {"rejected", "timeout"}>>
      [] OTHER                  -> OK

\* A command that the run context kills is reported like one that fails, with its
\* standard error, which may say anything: a file name, a line of a file.
executeShell(p) ==
    IF validateCommand(p) # OK THEN {validateCommand(p)}
    ELSE Text("exit", Phrases)
         \cup (IF p = "slow command" THEN {} ELSE {OK})

\* Without an answer: none in time; or no connection, a blocked address, too many
\* redirects, an answer that is not HTTP, which the text quotes.
ssrfSafeClient(p) ==
    IF p = "slow request" THEN {<<"send", {"timeout"}>>} ELSE Text("send", Phrases)

\* Bad arguments, which the text repeats; no answer; an answer of 400 or more; or
\* success.  An error while the body is read is ignored: an answer whose headers
\* are in time and whose body stalls counts by its status.
executeHTTP(p) ==
    IF p = "bad request" THEN Text("request", Phrases)
    ELSE ssrfSafeClient(p) \cup {OK} \cup Text("status", Phrases)

executeSleep(p) == IF p = "slow sleep" THEN {<<"sleep", {"timeout"}>>} ELSE {OK}

executePayload(p) ==
    CASE p \in Commands  -> executeShell(p)
      [] p \in Requests  -> executeHTTP(p)
      [] p \in Sleeps    -> executeSleep(p)
      [] p = "fail"      -> Text("deliberate", Phrases)
      [] p = "malformed" -> {<<"json", {}>>}
      [] p = "unlisted"  -> Text("type", Phrases)

Errors == (UNION {executePayload(p) : p \in Payloads}) \ {OK, Panic}
===============================================================================
