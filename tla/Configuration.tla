----------------------------- MODULE Configuration -----------------------------
(***************************************************************************)
(* Startup configuration (internal/config): the env file that is found, the*)
(* process environment it completes, the settings read from both, and what *)
(* is validated.  A raw value is a text; what Go's parsers and conversions *)
(* make of a text is given by constants.  The settings kept are those other*)
(* parts of the system branch on, with at least one of each kind.          *)
(***************************************************************************)
EXTENDS Integers

CONSTANTS
    Unsigned,   \* strconv.ParseUint: a function on the texts it accepts
    Leading,    \* fmt.Sscanf "%d": a function on the texts that start with a number
    Durations,  \* time.ParseDuration: a function on the texts it accepts
    TrimSpace,  \* strings.TrimSpace: a function on the texts it changes
    ToLower,    \* strings.ToLower: a function on the texts it changes
    Urls,       \* the texts the rule url accepts
    HttpUrls    \* the texts the rule http_url accepts

ASSUME ConfigurationAssumption ==
    /\ \A raw \in DOMAIN Unsigned : Unsigned[raw] \in Nat
    /\ \A text \in DOMAIN TrimSpace : TrimSpace[text] \notin DOMAIN TrimSpace
    /\ \A text \in DOMAIN ToLower : ToLower[text] \notin DOMAIN ToLower
    /\ HttpUrls \subseteq Urls

Strings == {"host", "from", "baseURL", "proxyURL", "clientID", "secret", "callback", "level"}
Trimmed == {"host", "from", "clientID", "secret", "callback", "level"}
Lowered == {"level"}
Bools == {"dev", "https", "expose", "otel"}
Ints == {"concurrency"}
Uint16s == {"port"}
Intervals == {"stopTimeout"}
Keys == Strings \cup Bools \cup Ints \cup Uint16s \cup Intervals

Defaults ==
    [host |-> "", from |-> "", baseURL |-> "", proxyURL |-> "http://127.0.0.1:5173",
     clientID |-> "", secret |-> "", callback |-> "", level |-> "info",
     dev |-> FALSE, https |-> FALSE, expose |-> FALSE, otel |-> FALSE,
     concurrency |-> 10, port |-> 587, stopTimeout |-> 30]

(* An environment: the variables of the process (a function on those that  *)
(* are set, perhaps to the empty text), whether a home directory is known, *)
(* whether DINCHY_ENV_FILE names a file, and the three files.              *)
EnvFile(e) == IF e.named THEN e.explicit ELSE IF e.xdg.found THEN e.xdg ELSE e.system

loadEnvPath(file) == file.found /\ file.readable

loadEnvFile(e) ==
    \/ e.named /\ loadEnvPath(e.explicit)
    \/ /\ ~e.named /\ e.home
       /\ EnvFile(e).found => loadEnvPath(EnvFile(e))

\* Mutant: the file overrides the process environment (godotenv.Overload).
EnvironFileFirst(e) ==
    [k \in Keys |-> IF EnvFile(e).found /\ k \in DOMAIN EnvFile(e).entries THEN EnvFile(e).entries[k]
                    ELSE IF k \in DOMAIN e.process THEN e.process[k] ELSE ""]

Environ(e) ==
    [k \in Keys |-> IF k \in DOMAIN e.process THEN e.process[k]
                    ELSE IF EnvFile(e).found /\ k \in DOMAIN EnvFile(e).entries THEN EnvFile(e).entries[k]
                    ELSE ""]

(* The width of the port, and the bound its validation rule states.        *)
Uint16Span == 65536
MaxPort == 65535

(* The two conversions of a text.                                          *)
Trim(text) == IF text \in DOMAIN TrimSpace THEN TrimSpace[text] ELSE text
Lower(text) == IF text \in DOMAIN ToLower THEN ToLower[text] ELSE text

Truthy(raw) == Lower(raw) \in {"1", "true", "t", "yes", "on"}

Parses(k, raw) ==
    \/ raw = "" \/ k \in Strings \cup Bools
    \/ k \in Ints /\ raw \in DOMAIN Leading
    \/ k \in Intervals /\ raw \in DOMAIN Durations
    \/ k \in Uint16s /\ raw \in DOMAIN Unsigned

(* SetUint stores the low 16 bits of the number that was parsed.           *)
Parsed(k, raw) ==
    CASE raw = ""      -> Defaults[k]
      [] raw # "" /\ k \in Strings   -> raw
      [] raw # "" /\ k \in Bools     -> Truthy(raw)
      [] raw # "" /\ k \in Ints      -> Leading[raw]
      [] raw # "" /\ k \in Intervals -> Durations[raw]
      [] raw # "" /\ k \in Uint16s   -> Unsigned[raw] % Uint16Span

(* The modifiers of a setting, from left to right: "trim" or "trim,lower". *)
Apply(k, value) ==
    IF k \in Lowered THEN Lower(Trim(value)) ELSE IF k \in Trimmed THEN Trim(value) ELSE value

Levels == {"trace", "debug", "info", "warn", "error"}

loadFromEnv(raws) == [k \in Keys |-> Apply(k, Parsed(k, raws[k]))]

SMTPEnabled(c) == c.host # "" \/ c.from # ""

(* A sign-on provider is offered when all its credentials are set.         *)
SSOEnabled(c) == \A k \in {"clientID", "secret", "callback"} : c[k] # ""

validateStruct(c) ==
    /\ c.port > 0 /\ c.port <= MaxPort
    /\ c.concurrency > 0 /\ c.stopTimeout > 0
    /\ c.baseURL = "" \/ c.baseURL \in HttpUrls
    /\ c.proxyURL \in HttpUrls
    /\ c.callback = "" \/ c.callback \in Urls
    /\ c.level \in Levels

\* Mutant: the base URL of links is not required with SMTP.
LoadWithoutBaseURL(e) ==
    /\ loadEnvFile(e)
    /\ \A k \in Keys : Parses(k, Environ(e)[k])
    /\ validateStruct(loadFromEnv(Environ(e)))

(* Whether Load succeeds; the configuration it returns is Loaded(e).       *)
Load(e) ==
    /\ loadEnvFile(e)
    /\ \A k \in Keys : Parses(k, Environ(e)[k])
    /\ LET c == loadFromEnv(Environ(e)) IN
       /\ validateStruct(c)
       /\ SMTPEnabled(c) => c.baseURL # ""

Loaded(e) == loadFromEnv(Environ(e))

=============================================================================
