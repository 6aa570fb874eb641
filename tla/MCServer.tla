------------------------------- MODULE MCServer -------------------------------
(* Server for TLC.  The environments are those the loader tells apart.     *)
EXTENDS Server, TLC

MCUnsigned == "25" :> 25 @@ "65536" :> 65536 @@ "65561" :> 65561
MCLeading == "4" :> 4 @@ "4x" :> 4
MCDurations == "5s" :> 5
MCHttpUrls == {"http://127.0.0.1:5173", "https://dinchy.test"}
MCUrls == MCHttpUrls \cup {"dinchy:signed-on"}
MCTrimSpace == " " :> "" @@ " id " :> "id" @@ " INFO " :> "INFO" @@ " smtp.test " :> "smtp.test"
MCToLower == "TRUE" :> "true" @@ "On" :> "on" @@ "INFO" :> "info" @@ " INFO " :> " info "

NoFile == [found |-> FALSE, readable |-> FALSE, entries |-> <<>>]
File(entries) == [found |-> TRUE, readable |-> TRUE, entries |-> entries]

Environment(given) ==
    [process |-> given, home |-> TRUE, named |-> FALSE,
     explicit |-> NoFile, xdg |-> NoFile, system |-> NoFile]

Base == "baseURL" :> "https://dinchy.test"
SMTP == "host" :> "smtp.test" @@ "from" :> "app@test"

Plainly == Environment(<<>>)
Good == {
    Plainly,
    Environment(SMTP @@ Base @@ "https" :> "TRUE" @@ "concurrency" :> "4x" @@ "otel" :> "On"
        @@ "clientID" :> " id " @@ "secret" :> "s" @@ "callback" :> "dinchy:signed-on"),
    [Environment(Base @@ "expose" :> "yes" @@ "dev" :> "true" @@ "port" :> "65561" @@ "level" :> " INFO ") EXCEPT
        !.named = TRUE, !.explicit = File(SMTP @@ "port" :> "25" @@ "expose" :> "0" @@ "dev" :> "no")],
    [Environment("host" :> "") EXCEPT !.xdg = File(SMTP @@ Base), !.system = File("expose" :> "1")],
    [Environment("host" :> " ") EXCEPT !.system = File(SMTP @@ Base @@ "stopTimeout" :> "5s")],
    Environment(Base @@ "host" :> " smtp.test ")}
Bad == {
    Environment(SMTP),
    Environment("port" :> "65536"),
    Environment("port" :> "4x"),
    [Plainly EXCEPT !.home = FALSE],
    [Plainly EXCEPT !.named = TRUE, !.system = File(<<>>)]}

MCEnvironments == Good \cup Bad
=============================================================================
