--------------------------- MODULE HoneypotProtos ---------------------------
(***************************************************************************)
(* The ten protocol handlers of internal/honeypot.  A handler is a set of   *)
(* rules: in a step, on a class of message that the handler tells apart,    *)
(* it may record a credential and goes to another step.  What is not in a   *)
(* rule ends the handler, as a read error or a failed write does.           *)
(***************************************************************************)
EXTENDS Naturals

CONSTANTS
    CredsLimit,  \* credsPerConnLimit (10)
    LoginRounds  \* loginRoundsMax (5)

ASSUME ProtosAssumption == CredsLimit \in Nat \ {0} /\ LoginRounds \in Nat \ {0}

Rule(step, msg, rec, to) == [step |-> step, msg |-> msg, rec |-> rec, to |-> to]

\* A user name, then a password; the rounds are counted by For.
Telnet == {Rule("login", "line", FALSE, "password"),
           Rule("password", "line", TRUE, "login")}

\* The empty line is the empty command.
splitCommand == {"USER", "PASS", "QUIT", "", "other"}

FTP == {Rule("command", m, m = "PASS", IF m = "QUIT" THEN "end" ELSE "command") :
            m \in splitCommand}

\* Arrays and inline commands.  An empty line and an array without elements or with
\* more than 64 are no command, so an unknown one; a read error ends the handler.
readRESPCommand == {"AUTH pass", "AUTH user pass", "AUTH ?", "HELLO 3 AUTH user pass",
                    "HELLO 3", "QUIT", ""}

Redis == {Rule("command", m, m \in {"AUTH pass", "AUTH user pass", "HELLO 3 AUTH user pass"},
               IF m = "QUIT" THEN "end" ELSE "command") : m \in readRESPCommand}

\* No authentication: the first command is the record.
Memcached == {Rule("command", "line", TRUE, "discard"),
              Rule("command", "blank", FALSE, "end"),
              Rule("discard", "line", FALSE, "discard")}

\* The length of PasswordMessage is taken for the length of what follows it.
\* The protocol counts the four bytes of the length too (p+4): then the
\* handler still waits for four bytes when the message is complete.
Postgres == {Rule("startup", "v3", FALSE, "password"),
             Rule("password", "p", TRUE, "end"),
             Rule("password", "p+4", FALSE, "short")}

MySQL == {Rule("response", "login", TRUE, "end"),
          Rule("response", "anonymous", FALSE, "end")}

RDP == {Rule("request", "X.224 CR", TRUE, "end")}

\* A length below the header ends the handler.
readTDSPacket == {"prelogin", "LOGIN7", "attention", "other"}

\* The fields with a length and an offset inside the message; one of them is enough.
\* The password is recorded in clear or, when it does not look like one, in hex.
parseLogin7(fields) == fields \cap {"UserName", "Password"} # {}

MSSQL == {Rule("packet", <<m, {}>>, FALSE, IF m = "attention" THEN "end" ELSE "packet") :
              m \in readTDSPacket \ {"LOGIN7"}}
         \cup {Rule("packet", <<"LOGIN7", fields>>, parseLogin7(fields),
                    IF parseLogin7(fields) THEN "end" ELSE "packet") :
                        fields \in SUBSET {"HostName", "UserName", "Password"}}

\* Too many dialects end the handler; other commands do so before their body is read.
readSMB2Body == {"NEGOTIATE", "SESSION_SETUP"}

\* An AUTH message with a user or a response; types 1 and 2 are waited over.
parseNTLMSSPAuth(type, fields) == type = 3 /\ fields # {}

SMB == {Rule("packet", <<"NEGOTIATE", 0, {}>>, FALSE, "packet")}
       \cup {Rule("packet", <<"SESSION_SETUP", type, fields>>, parseNTLMSSPAuth(type, fields),
                  IF parseNTLMSSPAuth(type, fields) THEN "end" ELSE "packet") :
                      type \in {1, 3}, fields \in SUBSET {"user", "ntResp"}}

\* Elements are read until one is of an unknown type or too short: a sasl command is
\* one when its element comes before that.
parseMongoCommand(doc) ==
    \E i \in DOMAIN doc : doc[i] = "sasl" /\ \A j \in 1 .. i : doc[j] # "bad"

MongoDB == {Rule("message", doc, parseMongoCommand(doc), "message") :
                doc \in [1 .. 2 -> {"sasl", "payload", "bad"}]}

protoHandlers == [
    telnet |-> Telnet, ftp |-> FTP, redis |-> Redis, memcached |-> Memcached,
    postgres |-> Postgres, mysql |-> MySQL, rdp |-> RDP, mssql |-> MSSQL,
    smb |-> SMB, mongodb |-> MongoDB]

Protos == DOMAIN protoHandlers

FirstStep == [
    telnet |-> "login", ftp |-> "command", redis |-> "command", memcached |-> "command",
    postgres |-> "startup", mysql |-> "response", rdp |-> "request", mssql |-> "packet",
    smb |-> "packet", mongodb |-> "message"]

Steps == {"end", "short"} \cup UNION {{r.step : r \in protoHandlers[p]} : p \in Protos}

\* Handlers that go on after a record and count the attempts themselves.
Counting == {"ftp", "redis", "mongodb"}

Session == [proto : Protos, step : Steps, tries : Nat]

Begin(p) == [proto |-> p, step |-> FirstStep[p], tries |-> 0]

Rules(s) == {r \in protoHandlers[s.proto] : r.step = s.step}

Records(s, r) == r.rec /\ (s.proto \in Counting => s.tries < CredsLimit)

\* tries are the records of a handler that goes on after one; above the limit only
\* the comparison matters.
AfterRule(s, r) ==
    LET n == IF r.rec /\ r.to # "end" THEN s.tries + 1 ELSE s.tries
    IN  [s EXCEPT !.tries = IF s.proto \in Counting /\ n > CredsLimit THEN CredsLimit ELSE n,
                  !.step = IF s.proto = "telnet" /\ n >= LoginRounds THEN "end" ELSE r.to]
=============================================================================
