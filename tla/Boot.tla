-------------------------------- MODULE Boot --------------------------------
(***************************************************************************)
(* The start of the program (src/bin/main.rs): the configuration file is   *)
(* read into an AppConfig, and the server starts from its blocks.          *)
(***************************************************************************)
EXTENDS Startup, Yaml

CONSTANTS
    Sources,   \* the files to play: what was meant, how it is laid out, what slipped
    TextOf(_)  \* the text of a source

VARIABLE source

bootVars == <<source, vars>>

(* What the derive macro makes of the structures of config.rs: the fields  *)
(* by their names in the file, and Default for those that are left out.    *)
RouteConfig ==
    Struct([path |-> String, methods |-> Vec(String), redirection |-> Option(String),
            redirect_code |-> Option(Number(65535)), root |-> String, default_file |-> String,
            cgi_ext |-> Option(String), cgi_path |-> Option(String), autoindex |-> Bool,
            upload_dir |-> String, allowe_upload |-> Bool],
           [path |-> <<"/">>, methods |-> <<<<"GET">>>>, redirection |-> <<>>,
            redirect_code |-> <<>>, root |-> <<>>, default_file |-> <<"index.html">>,
            cgi_ext |-> <<>>, cgi_path |-> <<>>, autoindex |-> FALSE,
            upload_dir |-> <<>>, allowe_upload |-> FALSE])
NoPages == [code \in {} |-> <<>>]
ServerConfig ==
    Struct([host |-> String, ports |-> Vec(Number(65535)), server_name |-> String,
            error_pages |-> HashMap(String), client_max_body_size |-> Number(2147483647),
            routes |-> Vec(RouteConfig), default_server |-> Bool, root |-> String],
           [host |-> <<"127.0.0.1">>, ports |-> <<8080>>, server_name |-> <<"_">>,
            error_pages |-> NoPages, client_max_body_size |-> 1048576,
            routes |-> <<>>, default_server |-> FALSE, root |-> <<".", "/", "www">>])
AppConfig == Struct([servers |-> Vec(ServerConfig)], [servers |-> <<>>])

BootInit == source \in Sources /\ Init

(* ReadFile, of the text of the source.                                    *)
Loaded(config) ==
    /\ file' = IF config.ok THEN config.value.servers ELSE <<>>
    /\ pc' = IF config.ok THEN "validate" ELSE "aborted"

Load ==
    /\ pc = "load"
    /\ Loaded(FromStr(AppConfig, TextOf(source)))
    /\ UNCHANGED <<source, k, virtual_hosts, default_servers_per_port, servers, listeners,
                   answer, fs>>

BootNext == Load \/ (UNCHANGED source /\ (StartUp \/ Request \/ Answered))

BootSpec == BootInit /\ [][BootNext]_bootVars /\ WF_bootVars(UNCHANGED source /\ StartUp)

-----------------------------------------------------------------------------
(* Properties.                                                             *)

(* However a configuration is laid out, it is read as what was meant; one  *)
(* in which something slipped is refused, or the slip changed nothing.     *)
(* (Not played, since they would break this: a stray comma, or a word      *)
(* behind brackets, lets the rest of the file be dropped in silence; a tab *)
(* counts for no indentation, so that a last line it indents is skipped as *)
(* an unknown field; and a misspelt key of a field is skipped as one too.  *)
(* Nor are lists laid out otherwise than below their key, with a dash and  *)
(* its item on one line.)                                                  *)
LoadsWhatIsMeant ==
    \/ pc = "load"
    \/ file = source.meant
    \/ source.slip # "none" /\ file = <<>> /\ pc = "aborted"
=============================================================================
