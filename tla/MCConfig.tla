------------------------------ MODULE MCConfig ------------------------------
(* Lines of every kind the loops tell apart, and uris with the paths of the *)
(* locations at their start, further on, and not at all.                    *)
EXTENDS ConfigProperties

MCNumber == [word \in {"80", "65616", "-1", "5"} |->
               CASE word = "80" -> 80 [] word = "65616" -> 65616
                 [] word = "-1" -> -1 [] word = "5" -> 5]

Setting(key, value) == <<" ", key, " ", "=", " ", value>>

OuterLines == {<<>>, <<"#">>, <<"{">>, <<" ", "{">>}
ServerLines ==
  {<<"}">>, <<"nonsense">>, <<"Port", "=", "80">>, Setting("Port", "80"), Setting("Port", "65616"),
   Setting("Port", "junk"), Setting("Max_client_body_size", "-1"),
   Setting("redirection_url", "away"),
   <<"redirection_url", " ", "=", " ", "Port", " ", "=", " ", "80">>,
   Setting("client_timeout_inactivity", "5"),
   <<" ", "allowed_methods", " ", "=", " ", "{">>, <<"location", " ">>}
  \cup {<<" ", "location", " ", "/">> \o path \o <<" ", "=", " ", "{">> :
          path \in {<<>>, <<"aa">>, <<"aa", "/", "bb", "/">>}}
BlockLines ==
  {<<" ", "}">>, <<" ", "POST", " ", "GET">>, <<"upload_folder">>,
   <<" ", "cgi_folder", " ", "=", " ", "cc">>, Setting("cgi_allowed_ext", ".py"),
   Setting("auto_index", "true"), Setting("cgi_enabled", "true"), Setting("upload_enabled", "true"),
   Setting("upload_enabled", "false"), Setting("upload_folder", "cc")}

MCLines == OuterLines \cup ServerLines \cup BlockLines

MCUris == {<<"/">>, <<"/", "aa">>, <<"/", "aa", "/">>, <<"/", "aa", "/", "bb", "/", "cc">>,
           <<"/", "dd", "/", "aa", "/">>, <<"/", "bb", "/", "aa", "/", "bb", "/">>, <<"cc", "/">>}
=============================================================================
