----------------------------- MODULE LogDefine ------------------------------
(***************************************************************************)
(* LogDefine and its conversions from and to YAML (src/sylar/log.cc).  A   *)
(* document is the sequence under the key logs; a node is a function, and  *)
(* n["key"].IsDefined() is "key" \in DOMAIN n.  Names of loggers are       *)
(* integers, for their order in the std::set.                              *)
(***************************************************************************)
EXTENDS Naturals, Sequences, SequencesExt

CONSTANT YamlDocs    \* documents to be written and read back

\* LogLevel::Level, and the level a removed logger is given.
Level == [UNKNOWN |-> 0, DEBUG |-> 1, INFO |-> 2, WARN |-> 3, ERROR |-> 4,
          FATAL |-> 5]
Off == 100

\* LogLevel::fromString knows every level but UNKNOWN, in both cases.
Lower == [debug |-> "DEBUG", info |-> "INFO", warn |-> "WARN",
          error |-> "ERROR", fatal |-> "FATAL"]
LevelFromString(s) ==
    CASE s \in DOMAIN Lower -> Level[Lower[s]]
      [] s \in DOMAIN Level -> Level[s]
      [] OTHER -> Level.UNKNOWN

\* LogLevel::toString.
LevelToString(l) == IF \E s \in DOMAIN Level : Level[s] = l
                    THEN CHOOSE s \in DOMAIN Level : Level[s] = l
                    ELSE "UNKNOWN"

\* n[key] when it is there, else the field's default.
Get(n, key, default) == IF key \in DOMAIN n THEN n[key] ELSE default

-----------------------------------------------------------------------------
(* LexicalCast<std::string, std::set<LogDefine>> *)

\* An appender without a usable type, or a file appender without file, is
\* reported and skipped.
Usable(a) ==
    /\ "type" \in DOMAIN a
    /\ \/ a.type = "StdoutLogAppender"
       \/ a.type = "FileLogAppender" /\ "file" \in DOMAIN a

\* m_file of an appender that has none.
NoFile == ""

\* The level is never read, the formatter only for a file.
AppenderDefine(a) ==
    IF a.type = "FileLogAppender"
    THEN [type |-> 1, level |-> Level.UNKNOWN, file |-> a.file,
          formatter |-> Get(a, "formatter", <<>>)]
    ELSE [type |-> 2, level |-> Level.UNKNOWN, file |-> NoFile, formatter |-> <<>>]

Define(n) ==
    LET apps == SelectSeq(Get(n, "appenders", <<>>), Usable)
    IN  [level     |-> LevelFromString(Get(n, "level", "")),
         formatter |-> Get(n, "formatter", <<>>),
         appenders |-> [x \in DOMAIN apps |-> AppenderDefine(apps[x])]]

\* Nodes without a name are skipped; of two with the same name, which are equal
\* for the std::set, the first is kept.
FromYaml(doc) ==
    LET named == {x \in DOMAIN doc : "name" \in DOMAIN doc[x]}
        at(n) == Min({x \in named : doc[x].name = n})
    IN  [n \in {doc[x].name : x \in named} |-> Define(doc[at(n)])]

-----------------------------------------------------------------------------
(* LexicalCast<std::set<LogDefine>, std::string> *)

\* The node with the key only when the value is not the empty one.
Optional(key, value) == IF value = <<>> THEN <<>> ELSE key :> value

\* Mutant: the type FileLogAppender::toYamlString writes.
AppenderToYamlStdout(a) ==
    [type |-> "StdoutLogAppender", file |-> a.file,
     level |-> LevelToString(a.level)] @@ Optional("formatter", a.formatter)

AppenderToYaml(a) ==
    (IF a.type = 1 THEN [type |-> "FileLogAppender", file |-> a.file]
                   ELSE [type |-> "StdoutLogAppender"])
    @@ [level |-> LevelToString(a.level)]
    @@ Optional("formatter", a.formatter)

ToYaml(v) ==
    LET names == SetToSortSeq(DOMAIN v, <)
        Node(n) == [name |-> n, level |-> LevelToString(v[n].level)]
                   @@ Optional("formatter", v[n].formatter)
                   @@ Optional("appenders",
                        [x \in DOMAIN v[n].appenders
                             |-> AppenderToYaml(v[n].appenders[x])])
    IN  [x \in DOMAIN names |-> Node(names[x])]

-----------------------------------------------------------------------------
\* toString and fromString give the defines back.
Survives(v) == FromYaml(ToYaml(v)) = v

\* The documents whose defines do not come back.
Unstable == {doc \in YamlDocs : ~Survives(FromYaml(doc))}
=============================================================================
