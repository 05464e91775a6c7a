---------------------------- MODULE Configuration ----------------------------
(***************************************************************************)
(* config.Store (internal/config/config.go): what is accepted, what is     *)
(* repaired when it is read, and how it is replaced on disk.  An update    *)
(* holds s.mu while it writes a temporary file, flushes it and renames it  *)
(* over the old one; the process may die between any two of these.         *)
(* The module has no Next: Application composes it.                        *)
(***************************************************************************)
EXTENDS Naturals

CONSTANTS
    Windows,        \* is runtime.GOOS "windows"?
    DefaultConfig,  \* Default()
    Requested,      \* configurations that clients send
    Edited,         \* what users have written to the file: configurations and others
    Handler         \* HTTP requests that change the configuration, in one run of main

Absent == [file |-> "absent"]           \* there is no file
Unreadable == [file |-> "unreadable"]   \* the file is no JSON document
Loader == "loader"          \* main, while it loads the configuration
NoOne == "no one"           \* nobody holds the lock

\* All that one has to be told apart by: "size" stands for what a reset restores
\* besides the buffer, inRange for every check but those on the camera.
Config == [source : {"mock", "camera"}, device : BOOLEAN, pixelFormat : BOOLEAN,
           videoCodec : BOOLEAN, inRange : BOOLEAN, size : {"default", "chosen"},
           buffer : Nat, maxDuration : Nat]

ASSUME ConfigAssumption ==
    /\ Windows \in BOOLEAN
    /\ DefaultConfig \in Config /\ Requested \subseteq Config
    /\ Edited \subseteq Config \cup {Absent, Unreadable}
ASSUME HandlerAssumption == Loader \notin Handler /\ NoOne \notin Handler

VARIABLES
    file,       \* what is at s.path
    temporary,  \* the temporary file: "none", "partial" or "whole"
    cfg,        \* s.cfg
    writer,     \* who holds s.mu for writing
    saving      \* the configuration that it saves

storeVars == <<file, temporary, cfg, writer, saving>>

----------------------------------------------------------------------------

validate(c, requireCameraInput) ==
    /\ c.source = "camera" =>
        /\ c.device
        /\ c.videoCodec => Windows /\ ~c.pixelFormat
        /\ requireCameraInput => c.pixelFormat \/ c.videoCodec
    /\ c.inRange

\* Files of earlier versions name a pixel format and a codec.
normalized(c) ==
    IF c.source = "camera" /\ c.videoCodec
    THEN IF Windows THEN [c EXCEPT !.pixelFormat = FALSE]
                    ELSE [c EXCEPT !.videoCodec = FALSE]
    ELSE c

loadable(f) == f \in Config /\ validate(normalized(f), FALSE)

\* The default is a mock camera with every value in its range.
ASSUME DefaultAssumption == loadable(DefaultConfig) /\ normalized(DefaultConfig) = DefaultConfig

----------------------------------------------------------------------------
\* Load

\* Nothing has to be written: the file is as this version would have saved it.
LoadAsIs ==
    /\ loadable(file) /\ normalized(file) = file
    /\ cfg' = file
    /\ UNCHANGED <<file, temporary, writer, saving>>

\* The default, or the repaired configuration, is saved before it is used.
LoadAndSave ==
    /\ \/ file = Absent /\ saving' = DefaultConfig
       \/ loadable(file) /\ normalized(file) # file /\ saving' = normalized(file)
    /\ writer' = Loader /\ temporary' = "partial"
    /\ UNCHANGED <<file, cfg>>

----------------------------------------------------------------------------
\* Update and save

Readable == writer = NoOne

\* s.mu is taken, and a temporary file created in the same directory.
BeginSave(who, next) ==
    /\ writer = NoOne /\ validate(next, TRUE)
    /\ writer' = who /\ saving' = next /\ temporary' = "partial"
    /\ UNCHANGED <<file, cfg>>

\* Slip: the file itself is written.
WriteInPlace(who) ==
    /\ writer = who /\ temporary = "partial"
    /\ temporary' = "whole" /\ file' = Unreadable
    /\ UNCHANGED <<cfg, writer, saving>>

\* Write, Sync and Close
WriteTemporary(who) ==
    /\ writer = who /\ temporary = "partial"
    /\ temporary' = "whole"
    /\ UNCHANGED <<file, cfg, writer, saving>>

\* Slip: the temporary file stays.
SaveFailsUntidily(who) ==
    /\ writer = who
    /\ writer' = NoOne
    /\ UNCHANGED <<file, temporary, cfg, saving>>

\* Any step up to the renaming fails; the temporary file is removed.
SaveFails(who) ==
    /\ writer = who
    /\ temporary' = "none" /\ writer' = NoOne
    /\ UNCHANGED <<file, cfg, saving>>

\* The renaming, which replaces the file at once, and s.cfg before s.mu is released.
Replace(who) ==
    /\ writer = who /\ temporary = "whole"
    /\ file' = saving /\ cfg' = saving
    /\ temporary' = "none" /\ writer' = NoOne
    /\ UNCHANGED saving

----------------------------------------------------------------------------

StoreInit ==
    /\ file \in Edited /\ cfg = DefaultConfig
    /\ temporary = "none" /\ writer = NoOne /\ saving = DefaultConfig

\* The process has died, and with it what it had in memory.  A temporary file is
\* left behind; nobody looks at it again.
ForgetStore ==
    /\ cfg' = DefaultConfig /\ saving' = DefaultConfig
    /\ temporary' = "none" /\ writer' = NoOne
    /\ UNCHANGED file

StoreTypeOK ==
    /\ file \in Config \cup {Absent, Unreadable}
    /\ cfg \in Config /\ saving \in Config
    /\ temporary \in {"none", "partial", "whole"}
    /\ writer \in Handler \cup {Loader, NoOne}
    /\ writer = NoOne <=> temporary = "none"
=============================================================================
