------------------------------- MODULE Config -------------------------------
(***************************************************************************)
(* Start_all_servers: the configuration file is read line by line into the *)
(* servers it describes, each of which is bound to its port, made to       *)
(* listen and added to the epoll instance at the end of its block; any     *)
(* exception ends the program, but a call whose failure is only printed    *)
(* does not.  A line is a sequence of blanks, signs and words, a path one  *)
(* of slashes and words.  The text of the file is the environment's        *)
(* choice, one line at a time, and so is which of the calls fail.          *)
(***************************************************************************)
EXTENDS Integers, Sequences, FiniteSetsExt

CONSTANTS
  Lines,          \* bound: the lines a file may have
  Number,         \* the words that atoi reads as a number, and the number
  PORTS,          \* one more than the largest port: 2^16
  SIZES,          \* one more than the largest size_t
  Indeterminate,  \* what a member holds that no constructor sets
  MAX_SERVERS,    \* bound: blocks in a file
  MAX_LINES       \* bound: lines in a file

Sign == {" ", "=", "{", "}", "/"}

(* Signs are one character long, and two words are never side by side; the *)
(* sizes the program starts with are sizes.                                *)
ASSUME ConfigAssumption ==
  /\ \A line \in Lines : /\ line \in Seq(STRING)
                         /\ \A i \in 2..Len(line) : {line[i - 1], line[i]} \cap Sign # {}
  /\ PORTS \in Nat \ {0} /\ SIZES \in Nat /\ SIZES > 500
  /\ MAX_SERVERS \in Nat /\ MAX_LINES \in Nat
  /\ \A word \in DOMAIN Number : Number[word] \in Int
  /\ Indeterminate \notin BOOLEAN

VARIABLES
  level,    \* which loop reads: of the file, a server, a location, the methods
  servers,  \* Server_List
  loc,      \* NewConfig of Manage_Location
  epoll,    \* whether setup_epoll made an instance
  left      \* bound: how many more lines there may be

vars == <<level, servers, loc, epoll, left>>

-----------------------------------------------------------------------------
(* Lines.                                                                  *)

(* Where a word, or what is in a set, occurs; the end is a place too.      *)
Places(line, words) == {i \in DOMAIN line : line[i] \in words}
Mentions(line, word) == Places(line, {word}) # {}
find(line, word) == Min(Places(line, {word}))

(* The first of the names, in their order, that the line mentions anywhere.*)
Named(names, line) == {i \in DOMAIN names : Mentions(line, names[i])}
FirstKey(names, line) == names[Min(Named(names, line))]

(* The slip is the guess that a block is closed at the start of a line.    *)
faulty_Closes(line) == line # <<>> /\ line[1] = "}"
Closes(line)        == Mentions(line, "}")
EndsServer(line)    == Mentions(line, "}") /\ find(line, "}") = 1

Skip_white_spaces(line, from) ==
  Min({i \in from..Len(line) : line[i] \notin {" ", "="}} \cup {Len(line) + 1})
substr(line, from) == SubSeq(line, Skip_white_spaces(line, from), Len(line))

(* Fill_data starts behind the character that follows the key, whatever it *)
(* is, and wants one "=" before the value.                                 *)
WellAssigned(line, key) ==
  LET from == find(line, key) + 2 IN
  Cardinality({i \in from..(Skip_white_spaces(line, from) - 1) : line[i] = "="}) = 1

atoi(text) ==
  IF text # <<>> /\ text[1] \in DOMAIN Number THEN Number[text[1]] ELSE 0

(* The first word of a text.                                               *)
token(text) ==
  LET first == Min({i \in DOMAIN text : text[i] # " "})
      last  == Min({i \in first..Len(text) : text[i] = " "} \cup {Len(text) + 1})
  IN  SubSeq(text, first, last - 1)

-----------------------------------------------------------------------------
(* What is read.                                                           *)

(* The names LoadConfig looks for, in the order of a std::map.             *)
func_ptr == <<"404_page", "Max_client_body_size", "Max_request", "Port",
              "client_header_buffer_size", "client_timeout_inactivity", "default_page",
              "redirection_page", "redirection_url", "request_timeout", "server_name">>
Key     == {func_ptr[i] : i \in DOMAIN func_ptr}
Text    == {"404_page", "default_page", "redirection_page", "redirection_url", "server_name"}
Size    == {"Max_client_body_size", "client_header_buffer_size"}
Filled  == {"404_page", "redirection_page", "redirection_url"} \cup Size
Methods == {"GET", "POST", "DELETE"}

(* The slip takes what atoi gives for a size.                              *)
faulty_Fill_data(key, text) == IF key \in Text THEN text ELSE atoi(text)
Fill_data(key, text) ==
  CASE key \in Text -> text
    [] key \in Size -> atoi(text) % SIZES
    [] key \notin Text \cup Size -> atoi(text)

NewLocation ==
  [path |-> <<"/">>, root |-> <<"www", "/">>, autoIndex |-> FALSE, cgiEnabled |-> FALSE,
   cgi |-> {}, uploadEnabled |-> Indeterminate, uploadPath |-> <<>>]

NewServer ==
  [data |-> [key \in Key |->
               CASE key = "Port" -> 8080
                 [] key = "Max_client_body_size" -> 10
                 [] key = "client_header_buffer_size" -> 500
                 [] key = "Max_request" -> 5
                 [] key = "request_timeout" -> 10
                 [] key = "client_timeout_inactivity" -> Indeterminate
                 [] key = "server_name" -> <<>>
                 [] OTHER -> <<"www", "/", key>>],
   config |-> [key \in Filled |-> Indeterminate],
   methods |-> {},
   reach |-> "unbound",
   locations |-> [path \in {<<"/">>} |-> NewLocation]]

Back == Len(servers)   \* Server_List.back()

Throw == level' = "failed" /\ UNCHANGED <<servers, loc>>
Skip  == UNCHANGED <<level, servers, loc>>

-----------------------------------------------------------------------------
(* A location.                                                             *)

Directives == <<"cgi_enabled", "cgi_folder", "cgi_allowed_ext", "auto_index",
                "upload_enabled", "upload_folder">>

(* The first word after "location", with a slash at its end.               *)
setPath(line) ==
  LET name == token(SubSeq(line, find(line, "location") + 1, Len(line)))
  IN  IF name[Len(name)] = "/" THEN name ELSE Append(name, "/")
HasPath(line) == \E i \in DOMAIN line : i > find(line, "location") /\ line[i] # " "

(* setUploadPath enables uploads as well; the slip leaves that to a line.  *)
faulty_setUploadPath(lc, path) == [lc EXCEPT !.uploadPath = path]
setUploadPath(lc, path)        == [lc EXCEPT !.uploadEnabled = TRUE, !.uploadPath = path]

(* The value starts two places after the directive, but for cgi_folder,    *)
(* and there must be something up to there (or substr throws).             *)
ValueAt(directive, line) == find(line, directive) + (IF directive = "cgi_folder" THEN 1 ELSE 2)
Readable(directive, line) ==
  CASE directive = "cgi_folder" -> substr(line, ValueAt(directive, line)) # <<>>
    [] directive = "cgi_allowed_ext" -> TRUE
    [] OTHER -> ValueAt(directive, line) <= Len(line) + 1

SetDirective(lc, directive, line) ==
  LET value  == substr(line, ValueAt(directive, line))
      isTrue == value # <<>> /\ value[1] = "true"
  IN  CASE directive = "cgi_enabled" -> [lc EXCEPT !.cgiEnabled = isTrue]
        [] directive = "cgi_folder" ->
             [lc EXCEPT !.root = IF value[Len(value)] = "/" THEN value ELSE Append(value, "/")]
        [] directive = "cgi_allowed_ext" ->
             [lc EXCEPT !.cgi = @ \cup {line[i] : i \in {j \in Places(line, {".py", ".rb"}) :
                                          Mentions(SubSeq(line, 1, j), "=")}}]
        [] directive = "auto_index" -> [lc EXCEPT !.autoIndex = isTrue]
        [] directive = "upload_enabled" -> [lc EXCEPT !.uploadEnabled = isTrue]
        [] directive = "upload_folder" -> setUploadPath(lc, value)

(* The slip keeps the last location alone.                                 *)
faulty_insertLocationConfig(locations, lc) == [path \in {lc.path} |-> lc]
insertLocationConfig(locations, lc) ==
  [path \in DOMAIN locations \cup {lc.path} |-> IF path = lc.path THEN lc ELSE locations[path]]

EndLocation(list) ==
  [list EXCEPT ![Len(list)].locations = insertLocationConfig(@, loc)]

-----------------------------------------------------------------------------
(* The end of a server's block.                                            *)

fill_config_datas(server) ==
  [server EXCEPT !.config = [key \in Filled |-> server.data[key]]]

(* How far a server has come: its socket is bound, it listens, and it is   *)
(* heard when epoll watches it too.                                        *)
Reach == {"unbound", "bound", "listening", "heard"}
Listens(server) == server.reach \in {"listening", "heard"}

(* bind fails on a port on which another server of the program listens,    *)
(* unless it is 0, for which the kernel finds one; with SO_REUSEADDR a     *)
(* port that is bound and on which nobody listens is free.  The slip takes *)
(* the failure of bind as the code takes that of listen: it goes on.       *)
port(server) == server.data["Port"] % PORTS
faulty_PortFree(list) == TRUE
PortFree(list) ==
  LET mine == port(list[Len(list)]) IN
  mine = 0 \/ \A i \in 1..(Len(list) - 1) : Listens(list[i]) => port(list[i]) # mine

(* The failures of listen and of epoll_ctl are printed and no more; without*)
(* an instance the latter always fails.                                    *)
Reached == {"bound", "listening"} \cup (IF epoll THEN {"heard"} ELSE {})

(* Start_server and add_server_to_epoll.  A port may also be taken by      *)
(* another program.                                                        *)
Start_server(list, next) ==
  \/ /\ PortFree(list)
     /\ \E reach \in Reached :
          servers' = [list EXCEPT ![Len(list)] = [fill_config_datas(@) EXCEPT !.reach = reach]]
     /\ level' = next /\ UNCHANGED loc
  \/ Throw

-----------------------------------------------------------------------------
(* One line for each of the loops.                                         *)

ReadOuter(line) ==
  /\ level = "outer"
  /\ \/ /\ ~Mentions(line, "{") /\ Skip
     \/ /\ Mentions(line, "{") /\ find(line, "{") # 1 /\ Throw
     \/ /\ Mentions(line, "{") /\ find(line, "{") = 1
        /\ Len(servers) < MAX_SERVERS
        /\ servers' = Append(servers, NewServer) /\ level' = "server" /\ UNCHANGED loc

EndServer(line) ==
  /\ level = "server"
  /\ EndsServer(line)
  /\ Start_server(servers, "outer")

LoadConfig(line) ==
  /\ level = "server"
  /\ ~EndsServer(line)
  /\ \/ /\ line = <<>> /\ Skip
     \/ /\ Named(func_ptr, line) # {}
        /\ LET key == FirstKey(func_ptr, line) IN
             \/ /\ WellAssigned(line, key)
                /\ servers' = [servers EXCEPT ![Back].data[key] =
                                 Fill_data(key, substr(line, find(line, key) + 2))]
                /\ UNCHANGED <<level, loc>>
             \/ ~WellAssigned(line, key) /\ Throw
     \/ /\ Named(func_ptr, line) = {} /\ Mentions(line, "location")
        /\ \/ /\ HasPath(line) /\ level' = "location"
              /\ loc' = [NewLocation EXCEPT !.path = setPath(line)] /\ UNCHANGED servers
           \/ ~HasPath(line) /\ Throw
     \/ /\ Named(func_ptr, line) = {} /\ ~Mentions(line, "location")
        /\ \/ /\ Mentions(line, "allowed_methods")
              /\ level' = "methods" /\ UNCHANGED <<servers, loc>>
           \/ line # <<>> /\ ~Mentions(line, "allowed_methods") /\ Throw

Manage_Location(line) ==
  /\ level = "location"
  /\ \/ /\ Closes(line)
        /\ servers' = EndLocation(servers) /\ level' = "server" /\ UNCHANGED loc
     \/ /\ ~Closes(line) /\ Named(Directives, line) = {} /\ Skip
     \/ /\ ~Closes(line) /\ Named(Directives, line) # {}
        /\ LET directive == FirstKey(Directives, line) IN
             \/ /\ Readable(directive, line)
                /\ loc' = SetDirective(loc, directive, line) /\ UNCHANGED <<level, servers>>
             \/ ~Readable(directive, line) /\ Throw

Manage_Methods(line) ==
  /\ level = "methods"
  /\ \/ Closes(line) /\ level' = "server" /\ UNCHANGED <<servers, loc>>
     \/ /\ ~Closes(line)
        /\ servers' = [servers EXCEPT ![Back].methods =
                         @ \cup {line[i] : i \in Places(line, Methods)}]
        /\ UNCHANGED <<level, loc>>

(* respond_to_client: without an instance the first epoll_wait fails and   *)
(* the program ends.                                                       *)
Respond == IF epoll THEN "serving" ELSE "ended"

(* Every loop ends with the file, and what it read counts.                 *)
EndOfFile ==
  /\ \/ level = "outer" /\ level' = Respond /\ UNCHANGED <<servers, loc>>
     \/ level \in {"server", "methods"} /\ Start_server(servers, Respond)
     \/ level = "location" /\ Start_server(EndLocation(servers), Respond)
  /\ UNCHANGED <<epoll, left>>

Read(line) ==
  /\ left > 0 /\ left' = left - 1 /\ UNCHANGED epoll
  /\ \/ ReadOuter(line) \/ EndServer(line) \/ LoadConfig(line)
     \/ Manage_Location(line) \/ Manage_Methods(line)

(* A file that cannot be opened ends the program too.                      *)
Init ==
  /\ level \in {"outer", "failed"}
  /\ servers = <<>> /\ loc = NewLocation /\ epoll \in BOOLEAN /\ left = MAX_LINES

Next == EndOfFile \/ \E line \in Lines : Read(line)

Spec == Init /\ [][Next]_vars

-----------------------------------------------------------------------------
(* What the Router makes of the locations that were read.                  *)

Occurs(path, uri) ==
  \E i \in DOMAIN uri : i + Len(path) - 1 <= Len(uri)
                         /\ SubSeq(uri, i, i + Len(path) - 1) = path

(* defineBestLocation: the longest of the paths that occur in the uri, any *)
(* of them if there are several; the slip takes one that occurs.           *)
Matching(locations, uri) == {path \in DOMAIN locations : Occurs(path, uri)}
faulty_BestLocations(locations, uri) == Matching(locations, uri)
BestLocations(locations, uri) ==
  {path \in Matching(locations, uri) :
     \A other \in Matching(locations, uri) : Len(other) <= Len(path)}

(* The url of defineRequestType: the root, then the uri without as many    *)
(* characters as the path has.                                             *)
Url(lc, uri) == lc.root \o SubSeq(uri, Len(lc.path) + 1, Len(uri))
=============================================================================
