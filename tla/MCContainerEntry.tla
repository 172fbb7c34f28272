------------------------- MODULE MCContainerEntry -------------------------
(***************************************************************************)
(* Starts of the container for the model checker: every list of up to four *)
(* arguments for a command of each kind, some lists with a "--" in front,  *)
(* and directories of which one lies in another or is a link.              *)
(***************************************************************************)
EXTENDS ContainerEntry

MCWord(d) == [t |-> "word", value |-> d]
MCOpt(n) == [t |-> "opt", name |-> n]
MCEq(n, v) == [t |-> "eq", name |-> n, value |-> v]
MCEnd == [t |-> "end"]
MCLists(command, tokens) == {<<MCWord(command)>> \o rest: rest \in UNION {[1..n -> tokens]: n \in 0..3}}
MCArgLists ==
    LET plain == {MCWord("photos"), [t |-> "help"], MCEnd}
    IN MCLists("run", plain \union {MCWord("album"), MCOpt("--config"), MCEq("--config", "x"),
                                    MCEq("--config", ""), MCOpt("--dry-run")})
       \union MCLists("web", plain \union {MCEq("--input-dir", "photos"), MCEq("--input-dir", "album"),
                                          MCEq("--work-dir", "state"), MCOpt("--work-dir")})
       \union MCLists("rescore", plain \union {MCOpt("--dir"), MCEq("--dir", "album"), MCOpt("--scene"),
                                              MCOpt("--config")})
       \union {<<MCWord("material-agent"), MCWord("fix-db"), MCEq("--dir", "album")>>,
               <<MCWord("models"), MCWord("list")>>, <<>>}
MCLedWeb == <<MCEnd, MCWord("web"), MCEq("--input-dir", "photos"), MCEq("--work-dir", "inner")>>
MCLedLists ==
    {<<MCEnd>>, <<MCEnd, MCWord("run"), MCWord("album")>>, <<MCEnd, MCEnd, MCWord("run"), MCWord("album")>>,
     <<MCWord("material-agent"), MCEnd, MCWord("fix-db"), MCEq("--dir", "album")>>, MCLedWeb}
MCRealPath ==
    [photos |-> <<"photos">>, album |-> <<"media", "album">>, state |-> <<"state">>,
     inner |-> <<"photos", "state">>, alias |-> <<"state">>, top |-> <<>>]
MCLinkNames == {"alias"}
MCStarts ==
    [args: MCArgLists \union MCLedLists, input: {"photos"}, work: {"state"}, root: {FALSE},
     puid: {1}, pgid: {1}, dry: {"off"}]
    \union [args: {<<>>, <<MCWord("run"), MCWord("album")>>, MCLedWeb}, input: {"photos"},
            work: {"state", "inner", "alias", "top"}, root: {TRUE}, puid: {0, 1, 2}, pgid: {1},
            dry: {"off", "odd"}]
MCPlaces == <<[kind |-> "file"], [kind |-> "cache"], [kind |-> "managed"]>>
MCAccount0 == [uid |-> 3, gid |-> 3, groups |-> {}]
=============================================================================
