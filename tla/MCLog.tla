------------------------------- MODULE MCLog --------------------------------
(* Instances of Log for TLC: the documents; the other constants are given in the .cfg files. *)
EXTENDS Log

Out == [type |-> "StdoutLogAppender", level |-> "error"]
File == [type |-> "FileLogAppender", file |-> "a.txt"]
Pattern == <<"%", "d", "{", "q", "}", "%", "m">>
BadPattern == <<"%", "q">>
OddPattern == <<"%", "%", "m">>
\* In place of the long default pattern.
MCDefaultPattern == <<"%", "m", "%", "n">>

\* Documents for the loaders: a define, a change of it, a define without
\* appenders, one of the root logger beside the changed one, none, and a text
\* the conversion throws on.
Sys == [name |-> 1, level |-> "info", formatter |-> Pattern, appenders |-> <<Out>>]
SysChanged == [name |-> 1, level |-> "error", formatter |-> BadPattern,
               appenders |-> <<File, Out>>]
SysBare == [name |-> 1]
RootDoc == [name |-> 0, level |-> "warn", formatter |-> OddPattern, appenders |-> <<Out>>]
Malformed == <<[error |-> TRUE]>>
MCTexts == {<<>>, <<Sys>>, <<SysChanged>>, <<SysBare>>, <<RootDoc, SysChanged>>,
            Malformed}
MCFromStr == [t \in MCTexts \ {Malformed} |-> FromYaml(t)]
MCDefault == FromYaml(<<>>)

\* Documents for RoundTrip: every combination of present, absent and unusable
\* keys in one node, and pairs of simple nodes.
Appenders == {Out, File, [type |-> "FileLogAppender"], [type |-> "Console"],
              [file |-> "b.txt"], File @@ [formatter |-> Pattern]}
Nodes(apps) ==
    {[name |-> 1], [name |-> 1, level |-> "loud"], [name |-> 2, level |-> "FATAL"],
     [level |-> "warn"]}
    \cup {n @@ [formatter |-> Pattern] : n \in {[name |-> 1], [name |-> 2]}}
    \cup {n @@ [appenders |-> a] : n \in {[name |-> 1, level |-> "debug"], [name |-> 2]},
                                   a \in apps}
MCYamlDocs ==
    {<<n>> : n \in Nodes(BoundedSeq(Appenders, 3))}
    \cup {<<n, m>> : n, m \in Nodes(BoundedSeq(Appenders, 1))}
=============================================================================
