--------------------------- MODULE ContainerEntry ---------------------------
(***************************************************************************)
(* The start of the container.  The entrypoint runs as root: it looks      *)
(* through the arguments for the photo directory and the work directory    *)
(* the command is going to use, refuses places that overlap, makes the     *)
(* application's account the owner of the state files of earlier starts,   *)
(* and only then executes the application under that account.  The         *)
(* application parses the same arguments a second time, by argparse; what  *)
(* the entrypoint has protected is worth nothing unless both parsers come  *)
(* to the same directories, which they do unless the list begins with      *)
(* "--".  A container may be stopped anywhere and be    *)
(* started again, with other arguments, directories and identities.        *)
(*                                                                         *)
(* Source: docker/entrypoint.sh, shells/cli/main.py.  An argument is a     *)
(* word, an option, an option with its value (--x=y), --help or "--".      *)
(***************************************************************************)
EXTENDS Integers, Sequences

CONSTANTS
    BootsWith,         \* what a start is given: arguments, environment, identity
    RealPath,       \* RealPath[d]: where the directory name d really leads
    LinkNames,      \* the directory names that are symbolic links
    Account0,       \* the account of the image: its uid, gid and groups
    DeviceGids,     \* the groups of the render devices
    Places,         \* the sequence of state files and managed directories
    MaxBoots        \* bound: how often the container is started

(* A word, an option, --x=y, a request for help, or "--".                  *)
Tokens == [t: {"word"}, value: STRING] \union [t: {"opt"}, name: STRING]
          \union [t: {"eq"}, name: STRING, value: STRING] \union [t: {"help", "end"}]
Accounts == [uid: Nat \ {0}, gid: Nat, groups: SUBSET (Nat \ {0})]

(* A PUID or PGID of 0 stands for a value that is no valid id.             *)
ASSUME EntryAssumption ==
    /\ LinkNames \subseteq DOMAIN RealPath /\ DeviceGids \subseteq Nat
    /\ Account0 \in Accounts /\ MaxBoots \in Nat /\ Places \in Seq([kind: {"file", "cache", "managed"}])
    /\ \A env \in BootsWith:
         /\ env.args \in Seq(Tokens)
         /\ {env.input, env.work} \subseteq DOMAIN RealPath
         /\ env.puid \in Nat /\ env.pgid \in Nat /\ env.root \in BOOLEAN
         /\ env.dry \in {"on", "off", "odd"}

VARIABLES
    boot,       \* this start of the container
    account,    \* the application's account
    owned       \* owned[i]: what lies at the i-th place, and whose it is

entryVars == <<boot, account, owned>>

-----------------------------------------------------------------------------
(* The options, and how the entrypoint looks for the directories.          *)

Unset == ""
Is(token, what) == token.t = what
TextOf(token) == IF Is(token, "word") THEN token.value ELSE "odd"

RunValued == {"--config", "--scorers"}
RunFlags == {"--reprocess", "--dry-run", "--allow-empty", "--no-visual-merge"}
WebOptions ==
    {"--host", "--port", "--input-dir", "--config", "--work-dir", "--registry-dir", "--catalog"}
DirCommands ==
    {"scan-scenes", "suggest-scenes", "remap-scenes", "rescore", "rewrite-xmp",
     "rewrite-commentary", "reset-ai", "fix-db"}

Looking == [at |-> "look", help |-> FALSE, name |-> Unset, dir |-> Unset]
Badly(s) == [s EXCEPT !.at = "bad"]
FoundDir(s, text) == [s EXCEPT !.at = "found", !.dir = text]

(* run: the first word that is not the value of an option.                 *)
RunStep(s, token) ==
    IF s.at \in {"bad", "found"} THEN s
    ELSE IF s.at = "last" THEN FoundDir(s, TextOf(token))
    ELSE IF s.at = "value" THEN IF Is(token, "word") THEN [s EXCEPT !.at = "look"] ELSE Badly(s)
    ELSE
    CASE Is(token, "word") -> FoundDir(s, token.value)
      [] Is(token, "help") -> [s EXCEPT !.help = TRUE]
      [] Is(token, "end") -> [s EXCEPT !.at = "last"]
      [] Is(token, "opt") /\ token.name \in RunValued -> [s EXCEPT !.at = "value"]
      [] Is(token, "opt") /\ token.name \in RunFlags -> s
      [] Is(token, "eq") /\ token.name \in RunValued /\ token.value # Unset -> s
      [] OTHER -> Badly(s)

(* Fault: of two values the first one counts.                              *)
Named_First(s, name, text, wanted) ==
    IF name = wanted /\ s.dir = Unset THEN [s EXCEPT !.at = "look", !.dir = text]
    ELSE [s EXCEPT !.at = "look"]

(* A value; a second one for the wanted option is refused.                 *)
Named(s, name, text, wanted) ==
    IF name # wanted THEN [s EXCEPT !.at = "look"]
    ELSE IF s.dir # Unset THEN Badly(s) ELSE [s EXCEPT !.at = "look", !.dir = text]

(* web and the maintenance commands: the value of one option.  The web     *)
(* command takes nothing but its options; the others pass over anything.   *)
OptionStep(s, token, known, wanted, lenient) ==
    IF s.at = "bad" THEN s
    ELSE IF s.at = "value"
    THEN IF Is(token, "word") THEN Named(s, s.name, token.value, wanted) ELSE Badly(s)
    ELSE
    CASE Is(token, "help") -> [s EXCEPT !.help = TRUE]
      [] Is(token, "opt") /\ token.name \in known -> [s EXCEPT !.at = "value", !.name = token.name]
      [] Is(token, "eq") /\ token.name \in known ->
            IF token.value = Unset THEN Badly(s) ELSE Named(s, token.name, token.value, wanted)
      [] OTHER -> IF lenient THEN s ELSE Badly(s)

(* Nothing to look for, or a request for help: the environment's.          *)
Elsewhere == [status |-> "none", dir |-> Unset]
Settled(s) ==
    IF s.at = "found" \/ (s.at = "look" /\ s.dir # Unset) THEN [status |-> "found", dir |-> s.dir]
    ELSE IF s.at = "look" /\ s.help THEN Elsewhere
    ELSE [status |-> "bad", dir |-> Unset]

(* Where either search is after the last argument.                         *)
RunLooked(rest) ==
    LET at[i \in 0..Len(rest)] == IF i = 0 THEN Looking ELSE RunStep(at[i - 1], rest[i])
    IN at[Len(rest)]
OptionLooked(rest, known, wanted, lenient) ==
    LET at[i \in 0..Len(rest)] ==
            IF i = 0 THEN Looking ELSE OptionStep(at[i - 1], rest[i], known, wanted, lenient)
    IN at[Len(rest)]

ByOption(rest, known, wanted, lenient) == Settled(OptionLooked(rest, known, wanted, lenient))

WithoutName(args) ==
    IF args # <<>> /\ TextOf(args[1]) = "material-agent" THEN Tail(args) ELSE args
CommandOf(args) == IF args = <<>> THEN Unset ELSE TextOf(args[1])

SourceInput(args) ==
    LET command == CommandOf(args)
        rest == Tail(args)
    IN CASE command = "run" -> Settled(RunLooked(rest))
         [] command = "web" -> ByOption(rest, WebOptions, "--input-dir", FALSE)
         [] command \in DirCommands -> ByOption(rest, {"--dir"}, "--dir", TRUE)
         [] OTHER -> Elsewhere
WorkInput(args) ==
    IF CommandOf(args) = "web" THEN ByOption(Tail(args), WebOptions, "--work-dir", FALSE)
    ELSE Elsewhere

-----------------------------------------------------------------------------
(* The application's parsers.                                              *)

ParserOf(command) ==
    LET named(valued, flags, needed) ==
            [valued |-> valued, flags |-> flags, many |-> {}, words |-> 0, needed |-> needed]
    IN CASE command = "run" ->
              [named(RunValued, RunFlags, {"word"}) EXCEPT !.words = 1]
         [] command = "web" -> named(WebOptions, {}, {"--input-dir", "--work-dir"})
         [] command \in {"scan-scenes", "fix-db"} -> named({"--dir"}, {}, {"--dir"})
         [] command = "suggest-scenes" -> named({"--dir", "--limit", "--min-count"}, {}, {"--dir"})
         [] command = "remap-scenes" ->
              named({"--dir", "--from", "--to"}, {}, {"--dir", "--from", "--to"})
         [] command = "rescore" ->
              [named({"--dir", "--config"}, {}, {"--dir"}) EXCEPT !.many = {"--scene"}]
         [] command = "rewrite-xmp" -> named({"--dir", "--config"}, {"--dry-run"}, {"--dir"})
         [] command = "rewrite-commentary" ->
              named({"--dir", "--config"}, {"--dry-run", "--rewrite-xmp"}, {"--dir"})
         [] command = "reset-ai" -> named({"--dir"}, {"--dry-run", "--clear-xmp", "--keep-xmp"}, {"--dir"})

(* argparse: a word belongs to the option that waits for it, or is the     *)
(* command's own; after "--" everything is a word; of an option given      *)
(* twice the last value counts; help and errors end the program.  Some     *)
(* versions refuse a last "--" that nothing follows.                       *)
Parsing == [want |-> 0, rest |-> FALSE, ended |-> FALSE, name |-> Unset, got |-> [n \in {} |-> Unset]]
Keeps(s, name, text) == [s EXCEPT !.want = 0, !.got = [n \in DOMAIN s.got \union {name} |->
                                                        IF n = name THEN text ELSE s.got[n]]]
ParseStep(spec, s, token) ==
    IF s.ended THEN s
    ELSE IF s.rest \/ Is(token, "word")
    THEN IF s.want = 1 THEN Keeps(s, s.name, TextOf(token))
         ELSE IF s.want >= 2 THEN [s EXCEPT !.want = 3]
         ELSE IF spec.words = 0 \/ "word" \in DOMAIN s.got THEN [s EXCEPT !.ended = TRUE]
         ELSE Keeps(s, "word", TextOf(token))
    ELSE IF s.want \in {1, 2} THEN [s EXCEPT !.ended = TRUE]
    ELSE
    CASE Is(token, "end") -> [s EXCEPT !.want = 0, !.rest = TRUE]
      [] Is(token, "opt") /\ token.name \in spec.valued -> [s EXCEPT !.want = 1, !.name = token.name]
      [] Is(token, "opt") /\ token.name \in spec.many -> [s EXCEPT !.want = 2]
      [] Is(token, "opt") /\ token.name \in spec.flags -> [s EXCEPT !.want = 0]
      [] Is(token, "eq") /\ token.name \in spec.valued -> Keeps(s, token.name, token.value)
      [] Is(token, "eq") /\ token.name \in spec.many -> [s EXCEPT !.want = 0]
      [] OTHER -> [s EXCEPT !.ended = TRUE]

Parse(spec, rest) ==
    LET at[i \in 0..Len(rest)] == IF i = 0 THEN Parsing ELSE ParseStep(spec, at[i - 1], rest[i])
    IN at[Len(rest)]

(* The argparse of Python 3.14, which pyproject.toml requires, drops one   *)
(* "--" in front of the command.                                           *)
HasLead(args) == args # <<>> /\ Is(args[1], "end")
WithoutLead(args) == IF HasLead(args) THEN Tail(args) ELSE args

(* What the application works on, if it accepts the arguments at all and   *)
(* they are those of a command that the entrypoint knows.  The other       *)
(* commands (score reviews, benchmarks, models, labels) name directories   *)
(* that no search is meant to find.                                        *)
Refused == [runs |-> FALSE, input |-> Unset, work |-> Unset]
AppUses(args, env) ==
    LET list == WithoutLead(args)
        command == CommandOf(list)
        spec == ParserOf(command)
        s == Parse(spec, Tail(list))
    IN IF \/ command \notin DirCommands \union {"run", "web"}
          \/ s.ended \/ s.want \in {1, 2} \/ ~(spec.needed \subseteq DOMAIN s.got)
       THEN Refused
       ELSE [runs |-> TRUE,
             input |-> CASE command = "run" -> s.got["word"]
                         [] command = "web" -> s.got["--input-dir"]
                         [] OTHER -> s.got["--dir"],
             work |-> IF command = "web" THEN s.got["--work-dir"] ELSE env]

-----------------------------------------------------------------------------
(* The start.                                                              *)

PlaceKinds == {"none", "plain", "link", "linked"}
BootOff == [pc |-> "off"]
EntryInit ==
    /\ boot = [at |-> BootOff, boots |-> 0]
    /\ account = Account0
    /\ owned \in [DOMAIN Places -> [kind: PlaceKinds, by: {0}]]
    /\ \A i \in DOMAIN Places: owned[i].kind = "linked" => Places[i].kind # "file"

BootGoes(state) == boot' = [boot EXCEPT !.at = state]
Refuses(b) == BootGoes([b EXCEPT !.pc = "refused"])

(* The container is created or started again: the arguments are looked     *)
(* through before anything else.                                           *)
StartContainer(env) ==
    /\ boot.boots < MaxBoots
    /\ LET args == WithoutName(env.args)
           input == SourceInput(args)
           work == WorkInput(args)
           b == [pc |-> IF input.status = "bad" \/ work.status = "bad" THEN "refused"
                        ELSE IF env.root THEN "identify" ELSE "execute",
                 env |-> env, next |-> 1,
                 input |-> IF input.status = "found" THEN input.dir ELSE env.input,
                 work |-> IF work.status = "found" THEN work.dir ELSE env.work]
       IN boot' = [at |-> b, boots |-> boot.boots + 1]
    /\ UNCHANGED <<account, owned>>

(* PUID and PGID become the account's, and it joins the devices' groups,   *)
(* never root's.                                                           *)
Identify ==
    LET b == boot.at
    IN /\ b.pc = "identify"
       /\ IF b.env.puid = 0 \/ b.env.pgid = 0
          THEN Refuses(b) /\ UNCHANGED account
          ELSE /\ account' = [uid |-> b.env.puid, gid |-> b.env.pgid,
                              groups |-> account.groups \union (DeviceGids \ {0, b.env.pgid})]
               /\ BootGoes([b EXCEPT !.pc = "check"])
       /\ UNCHANGED owned

(* A path is the sequence of its names.                                    *)
LiesIn(path, dir) == Len(dir) <= Len(path) /\ SubSeq(path, 1, Len(dir)) = dir

(* Fault: only equal directories are refused.                              *)
Overlap_Equal(input, work) == input = <<>> \/ work = <<>> \/ work = input

(* The work directory must be no link, nor lie in the photo directory,     *)
(* and an empty name leads nowhere.                                        *)
Overlap(input, work) == input = <<>> \/ work = <<>> \/ LiesIn(work, input)

CheckPlaces ==
    LET b == boot.at
    IN /\ b.pc = "check"
       /\ IF b.input = Unset \/ b.work \in LinkNames \/ Overlap(RealPath[b.input], RealPath[b.work])
          THEN Refuses(b)
          ELSE BootGoes([b EXCEPT !.pc = "own"])
       /\ UNCHANGED <<account, owned>>

(* One place after another changes its owner.  A link at a place, or one   *)
(* below the compiled cache, ends the start; a managed directory that is   *)
(* missing is made.                                                        *)
OwnPlace ==
    LET b == boot.at
        i == b.next
        bad == owned[i].kind = "link" \/ (Places[i].kind = "cache" /\ owned[i].kind = "linked")
    IN /\ b.pc = "own" /\ i \in DOMAIN Places
       /\ IF bad
          THEN Refuses(b) /\ UNCHANGED owned
          ELSE /\ owned' = [owned EXCEPT ![i] =
                    IF @.kind # "none" THEN [kind |-> @.kind, by |-> account.uid]
                    ELSE IF Places[i].kind = "managed" THEN [kind |-> "plain", by |-> account.uid]
                    ELSE @]
               /\ BootGoes([b EXCEPT !.next = i + 1])
       /\ UNCHANGED account

(* Without arguments the environment says what to run; a value of          *)
(* MATERIAL_AGENT_DRY_RUN that is neither true nor false ends the start.   *)
ExecuteApp ==
    LET b == boot.at
    IN /\ \/ b.pc = "own" /\ b.next \notin DOMAIN Places
          \/ b.pc = "execute"
       /\ IF CommandOf(b.env.args) = Unset /\ b.env.dry = "odd" THEN Refuses(b)
          ELSE BootGoes([b EXCEPT !.pc = "started"])
       /\ UNCHANGED <<account, owned>>

(* The application makes state files while it runs.                        *)
StateAppears(i) ==
    /\ boot.at.pc = "started" /\ owned[i].kind = "none"
    /\ owned' = [owned EXCEPT ![i] = [kind |-> "plain", by |-> account.uid]]
    /\ UNCHANGED <<boot, account>>

(* It ends, or is stopped wherever it is.                                  *)
StopContainer ==
    /\ boot.at.pc # "off"
    /\ BootGoes(BootOff)
    /\ UNCHANGED <<account, owned>>

EntryNext ==
    \/ (boot.at.pc = "off" /\ \E env \in BootsWith: StartContainer(env))
    \/ Identify \/ CheckPlaces \/ OwnPlace \/ ExecuteApp \/ StopContainer
    \/ \E i \in DOMAIN Places: StateAppears(i)

EntrySpec == EntryInit /\ [][EntryNext]_entryVars

-----------------------------------------------------------------------------
EntryTypeOK ==
    /\ boot.boots \in 0..MaxBoots
    /\ boot.at.pc \in {"off", "refused", "identify", "check", "own", "execute", "started"}
    /\ account \in Accounts
    /\ owned \in [DOMAIN Places -> [kind: PlaceKinds, by: Nat]]

(* Both parsers agree on every list that does not begin with "--": when    *)
(* the application accepts it for a command that the entrypoint knows, the *)
(* directories it uses are those the entrypoint looked at.  Under root,    *)
(* the work directory looked at never lies in the photo directory looked   *)
(* at.  A list with a leading "--" is exempt, as the code does otherwise:  *)
(* the entrypoint takes "--" for a command it does not know and looks at   *)
(* the environment's directories, the application runs the command behind  *)
(* it.  docs/ai/modules/web-operations.md:97-98 asks to keep the two       *)
(* aligned for the Web service.                                            *)
EntryLooksRight ==
    boot.at.pc = "started" =>
        LET b == boot.at
            args == WithoutName(b.env.args)
            app == AppUses(args, b.work)
        IN /\ args # <<>> /\ ~HasLead(args) /\ app.runs => app.input = b.input /\ app.work = b.work
           /\ b.env.root => ~LiesIn(RealPath[b.work], RealPath[b.input])

(* An application started by root owns all state in the work directory     *)
(* that the entrypoint looked at, whoever the container was started for    *)
(* before and wherever it was stopped, and none of it is a link.           *)
StateIsOwned ==
    boot.at.pc = "started" /\ boot.at.env.root =>
        \A i \in DOMAIN Places:
            owned[i].kind # "none" => owned[i].kind # "link" /\ owned[i].by = account.uid

(* What the start promises: unless the list begins with "--", the          *)
(* application works where the entrypoint looked; what is kept there is    *)
(* its own.                                                                *)
EntryHolds == EntryLooksRight /\ StateIsOwned
=============================================================================
