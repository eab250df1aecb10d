---------------------------- MODULE MCHarborYaml ----------------------------
EXTENDS HarborYaml

\* /data/set with tasks a and b (b without task.toml) and a file; /other/a;
\* tools, one of them below task a and two with the same last name.
Names   == <<"a", "b", "set", "tool", "tool-2">>
SomeDirs == {<<"data">>, <<"data", "set">>, <<"data", "set", "a">>, <<"data", "set", "b">>,
             <<"data", "set", "a", "tool">>, <<"other">>, <<"other", "a">>, <<"opt">>,
             <<"opt", "tool">>, <<"home">>, <<"home", "me">>, <<"home", "me", "bin">>,
             <<"cfg">>, <<"cfg", "config">>, <<"home", "me", "shared", "runs">>}
SomeFiles == {<<"data", "set", "tool">>, <<"data", "set", "a", "x">>, <<"data", "set", "a", "tool", "x">>,
              <<"other", "a", "x">>, <<"opt", "tool", "x">>, <<"opt", "tool-2">>,
              <<"home", "me", "bin", "cli">>, <<"cfg", "config", "c">>}
Toml  == {<<"data", "set", "a">>}
Link  == <<"ln">> :> <<"opt", "tool">>
HomeDir == <<"home", "me">>
CwdDir  == <<"data">>
Sync    == <<"home", "me", "shared", "sync", "r1">>
Batch   == <<"home", "me", "shared", "runs", "b1">>
Uv      == <<"uv">>
OwnFiles == {Uv}

Text(p)  == [root |-> "abs", path |-> p]
HomeText(p) == [root |-> "home", path |-> p]
Bind(s)  == [type |-> "bind", source |-> s, target |-> Text(<<"mnt">>)]

Base == [kind |-> "datasets", rerun |-> FALSE, path |-> Text(<<"data", "set">>), paths |-> <<>>,
         names |-> <<>>, limit |-> <<>>, selected |-> <<>>, mounts |-> <<>>, refs |-> <<>>,
         bitfun |-> <<<<"opt", "tool-2">>, <<"cfg">>>>]

\* Sources that nest, share a last name, are the dataset itself, or repeat.
Sources == {<<"data", "set">>, <<"data", "set", "a">>, <<"data", "set", "a", "tool">>,
            <<"data", "set", "tool">>, <<"opt", "tool">>, <<"opt", "tool-2">>}
Mounts == {<<>>} \cup {<<Bind(Text(s))>> : s \in Sources}
          \cup {<<Bind(Text(s)), Bind(Text(t))>> : s, t \in Sources}
          \cup {<<Bind(Text(<<"opt", "tool">>)), Bind(Text(s)), Bind(Text(<<"opt", "tool-2">>))>> : s \in Sources}
Refs == {<<>>, <<Text(<<"data", "set", "a", "tool", "x">>), Text(<<"data", "set", "a", "x">>)>>,
         <<Text(<<"opt", "tool", "x">>), Text(<<"elsewhere">>)>>}
BadMounts == {<<Bind([root |-> "rel", path |-> <<"set">>])>>, <<Bind(Text(<<"none">>))>>}

Datasets ==
  {[Base EXCEPT !.mounts = ms, !.refs = rs] : ms \in Mounts \cup BadMounts, rs \in Refs}
  \cup {[Base EXCEPT !.names = n, !.limit = l] :
          n \in {<<>>, <<<<"b", "a">>>>, <<<<>>>>, <<<<"none">>>>, <<<<"tool">>>>}, l \in {<<>>, <<0>>, <<1>>}}
  \cup {[Base EXCEPT !.path = p] : p \in {HomeText(<<"bin">>), Text(<<"none">>), [root |-> "rel", path |-> <<"set">>]}}
  \cup {[Base EXCEPT !.rerun = TRUE, !.selected = s, !.mounts = ms] :
          s \in {<<"b">>, <<"none">>}, ms \in {<<>>, <<Bind(Text(<<"opt", "tool">>))>>}}

Two(p, q) == <<Text(p), Text(q)>>
TaskLists ==
  {[Base EXCEPT !.kind = "tasks", !.rerun = r, !.paths = ps, !.selected = s, !.mounts = ms] :
     r \in BOOLEAN, s \in {<<"a">>, <<"b", "a">>, <<"none">>},
     ps \in {<<>>, Two(<<"data", "set", "b">>, <<"other", "a">>), Two(<<"data", "set", "a">>, <<"other", "a">>),
             <<Text(<<"data", "set", "a">>)>>, <<Text(<<"none">>)>>, <<Text(<<"data", "set", "tool">>)>>},
     ms \in {<<>>, <<Bind(Text(<<"opt", "tool">>))>>}}

YamlRequests == Datasets \cup TaskLists

\* A bind source above the directory of the batch.
AboveBatch == {[Base EXCEPT !.mounts = <<Bind(Text(<<"home", "me", "shared", "runs">>))>>]}

PlainRequests ==
  {[Base EXCEPT !.kind = "plain", !.rerun = r, !.selected = s, !.names = n] :
     r \in BOOLEAN, s \in {<<"a">>, <<"a", "b">>}, n \in {<<>>, <<<<"a">>>>, <<<<"b", "a">>>>, <<<<"none">>>>}}
AllRequests == YamlRequests \cup AboveBatch \cup PlainRequests

Spelled  == {[Base EXCEPT !.mounts = <<Bind(t)>>] : t \in {HomeText(<<"bin", "cli">>), Text(<<"ln">>)}}
=============================================================================
