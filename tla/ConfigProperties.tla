-------------------------- MODULE ConfigProperties --------------------------
(***************************************************************************)
(* What the servers are once the configuration has been read, against what *)
(* the file says to a reader who counts braces.                            *)
(***************************************************************************)
EXTENDS Config

CONSTANTS Uris   \* bound: what requests ask for

ASSUME UrisAssumption == Uris \subseteq Seq(STRING)

(* What a line, a path or a text is made of; the words the program writes  *)
(* itself are strings too, and named for the provers.                      *)
Word == STRING \cup Sign \cup Key \cup {"www"}

Location == [path : Seq(Word), root : Seq(Word), autoIndex : BOOLEAN, cgiEnabled : BOOLEAN,
             cgi : SUBSET {".py", ".rb"}, uploadEnabled : BOOLEAN \cup {Indeterminate},
             uploadPath : Seq(Word)]
Value(key) == IF key \in Text THEN Seq(Word)
              ELSE IF key \in Size THEN 0..(SIZES - 1) ELSE Int \cup {Indeterminate}
Typed(server) ==
  /\ DOMAIN server = {"data", "config", "methods", "reach", "locations"}
  /\ DOMAIN server.data = Key /\ \A key \in Key : server.data[key] \in Value(key)
  /\ \A key \in Filled : server.config[key] \in Value(key) \cup {Indeterminate}
  /\ server.methods \subseteq Methods /\ server.reach \in Reach
  /\ \A path \in DOMAIN server.locations : server.locations[path] \in Location

(* Every variable has values of its kind.                                  *)
TypeOK ==
  /\ level \in {"outer", "server", "location", "methods", "serving", "ended", "failed"}
  /\ loc \in Location /\ epoll \in BOOLEAN /\ left \in 0..MAX_LINES
  /\ level \in {"server", "location", "methods"} => servers # <<>>
  /\ Len(servers) <= MAX_SERVERS
  /\ \A i \in DOMAIN servers : Typed(servers[i])

(* The loop runs with an epoll instance only, and with every server of the *)
(* file bound: each has the settings that were read for it, and no two     *)
(* listen on one port, although the port of a server whose listen failed   *)
(* can be bound again.  A server that listens and is not watched, or does  *)
(* not listen, is in the list all the same, and nobody reaches it while    *)
(* the others serve; without an instance nobody reaches any, and the       *)
(* program ends (parse_config.cpp 33-38, 55-60, 71-123, Server.cpp 48-80). *)
AllBound ==
  /\ level = "serving" => epoll
  /\ level = "ended" => \A i \in DOMAIN servers : servers[i].reach # "heard"
  /\ level \in {"serving", "ended"} => \A i \in DOMAIN servers :
       /\ servers[i].reach # "unbound"
       /\ \A key \in Filled : servers[i].config[key] = servers[i].data[key]
       /\ \A j \in DOMAIN servers :
            i # j /\ Listens(servers[i]) /\ Listens(servers[j]) =>
              port(servers[i]) = 0 \/ port(servers[i]) # port(servers[j])

(* Whether uploads are enabled is indeterminate where no line says so, but *)
(* not where there is a folder to put them: without a folder uploadFile    *)
(* refuses (LocationConfig.cpp 5-12, 84-87, Handler.cpp 232, 243).         *)
UploadFlagKnown ==
  \A lc \in {loc} \cup UNION {{servers[i].locations[path] : path \in DOMAIN servers[i].locations} :
                                 i \in DOMAIN servers} :
    lc.uploadPath # <<>> => lc.uploadEnabled \in BOOLEAN

(* Any uri with a slash in it has a location, so that find(longestPath)    *)
(* is not end(), and the path of that location is not longer than the uri, *)
(* so that substr does not throw (ServerConfig.cpp 107-122, Router.cpp     *)
(* 73-76).                                                                 *)
LocationFound ==
  \A i \in DOMAIN servers : \A uri \in Uris : Mentions(uri, "/") =>
    LET best == BestLocations(servers[i].locations, uri) IN
    /\ best # {}
    /\ \A path \in best : servers[i].locations[path].path = path /\ Len(path) <= Len(uri)

Prefix(path, uri) == Len(path) <= Len(uri) /\ SubSeq(uri, 1, Len(path)) = path

(* No location that begins the uri is longer than the one chosen; where    *)
(* the chosen one begins the uri too, the url is its root and the rest of  *)
(* the uri (ServerConfig.cpp 112-119, Router.cpp 75-76).                   *)
LongestPrefix ==
  \A i \in DOMAIN servers : \A uri \in Uris :
    LET locations == servers[i].locations IN
    \A path \in BestLocations(locations, uri), other \in DOMAIN locations :
      /\ Prefix(other, uri) => Len(other) <= Len(path)
      /\ Prefix(path, uri) => \E rest \in {SubSeq(uri, k, Len(uri)) : k \in 1..(Len(uri) + 1)} :
           uri = path \o rest /\ Url(locations[path], uri) = locations[path].root \o rest

-----------------------------------------------------------------------------
(* A history: the file as one reads it who counts braces.                  *)

VARIABLE written

Stripped(line) == SubSeq(line, Min({i \in DOMAIN line : line[i] # " "} \cup {Len(line) + 1}), Len(line))
Untidy == [tidy |-> FALSE, depth |-> 0, block |-> "", said |-> <<>>]

(* A setting is a key, " = " and a value in which no key occurs.           *)
Sets(text, key) ==
  /\ Len(text) > 3 /\ SubSeq(text, 1, 4) = <<key, " ", "=", " ">>
  /\ \A i \in 5..Len(text) : text[i] \notin Key \cup {" ", "=", "{", "}"}
Opens(text, block) ==
  /\ text # <<>> /\ text[1] = block /\ Places(text, {"{", "}"}) = {Len(text)}
  /\ Places(text, Key) = {} /\ (block = "allowed_methods" => ~Mentions(text, "location"))

Outside(line) ==
  IF Places(line, {"{", "}"}) = {} THEN written
  ELSE IF line = <<"{">> THEN [written EXCEPT !.depth = 1, !.said = Append(@, NewServer)]
  ELSE Untidy

InServer(line, text) ==
  LET last == Len(written.said) IN
  IF line = <<>> THEN written
  ELSE IF line = <<"}">> THEN [written EXCEPT !.depth = 0]
  ELSE IF \E key \in Key : Sets(text, key)
       THEN [written EXCEPT !.said[last].data[text[1]] = Fill_data(text[1], SubSeq(text, 5, Len(text)))]
  ELSE IF \E block \in {"location", "allowed_methods"} : Opens(text, block)
       THEN [written EXCEPT !.depth = 2, !.block = text[1]]
  ELSE Untidy

InBlock(line, text) ==
  LET last == Len(written.said) IN
  IF text = <<"}">> THEN [written EXCEPT !.depth = 1]
  ELSE IF Places(line, {"{", "}"}) # {} THEN Untidy
  ELSE IF written.block = "location" THEN written
  ELSE [written EXCEPT !.said[last].methods = @ \cup {line[i] : i \in Places(line, Methods)}]

Record(line) ==
  written' = IF ~written.tidy THEN written
             ELSE IF written.depth = 0 THEN Outside(line)
             ELSE IF written.depth = 1 THEN InServer(line, Stripped(line))
             ELSE InBlock(line, Stripped(line))

WrittenInit == Init /\ written = [tidy |-> TRUE, depth |-> 0, block |-> "", said |-> <<>>]
WrittenNext == \/ EndOfFile /\ UNCHANGED written
               \/ \E line \in Lines : Read(line) /\ Record(line)
WrittenSpec == WrittenInit /\ [][WrittenNext]_<<vars, written>>

(* A tidy file is taken as it is written: the program is in the block the  *)
(* braces say, and every server has the settings and the methods of its    *)
(* own block, the last line of each counting (parse_config.cpp 78-101,     *)
(* Server_functions.cpp 150-193).                                          *)
AsWritten ==
  written.tidy /\ level # "failed" =>
    /\ level = "outer" <=> (written.depth = 0 /\ level \notin {"serving", "ended"})
    /\ level = "server" => written.depth = 1
    /\ level \in {"location", "methods"} => written.depth = 2
    /\ DOMAIN servers = DOMAIN written.said
    /\ \A i \in DOMAIN servers : /\ servers[i].data = written.said[i].data
                                 /\ servers[i].methods = written.said[i].methods
=============================================================================
