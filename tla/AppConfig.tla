------------------------------- MODULE AppConfig -------------------------------
(***************************************************************************)
(* How the daemon and the desktop client come by their configuration: the   *)
(* same code reads service_config.yml into AppConfig and client_config.yml  *)
(* into ClientConfig.  The members start with built-in defaults; a missing  *)
(* file is written with them; a file that cannot be parsed, or a value that *)
(* does not convert, leaves all of them alone.                              *)
(***************************************************************************)
CONSTANTS Keys,     \* the entries of the file, as "section.key"
          Values,   \* what an entry may say, the default among them
          Default,  \* the built-in value of every member
          Absent,   \* no file
          Broken    \* a file that is not YAML

\* An entry says a value, is missing, or does not convert (as<...> throws).
Missing == "missing"
Bad == "bad"
ConfigFiles == [Keys -> Values \cup {Missing, Bad}] \cup {Absent, Broken}

ASSUME ConfigAssumption ==
  /\ Default \in Values /\ {Missing, Bad, Absent} \cap Values = {}
  /\ Absent # Broken /\ {Absent, Broken} \cap [Keys -> Values \cup {Missing, Bad}] = {}

Members == [Keys -> Values]
DefaultMembers == [k \in Keys |-> Default]

\* The file after a start: write_default_config, unless its directory does not
\* let itself be written.
WrittenBack(file, writable) ==
  IF file = Absent /\ writable THEN DefaultMembers ELSE file

Readable(file) == file \notin {Absent, Broken} /\ \A k \in Keys : file[k] # Bad

\* Mutated form of ReadConfig: every entry is assigned as it is read, and an
\* exception leaves those before it.
ReadUntilBad(members, file) ==
  IF file \in {Absent, Broken} THEN members
  ELSE [k \in Keys |-> IF file[k] \in {Missing, Bad} THEN members[k] ELSE file[k]]

\* read_config_from_file: into locals first, then into the members at once.
ReadConfig(members, file) ==
  IF Readable(file)
  THEN [k \in Keys |-> IF file[k] = Missing THEN members[k] ELSE file[k]]
  ELSE members
===============================================================================
