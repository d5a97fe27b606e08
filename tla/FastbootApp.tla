----------------------------- MODULE FastbootApp -----------------------------
(***************************************************************************)
(* The fastboot application around the partition cache: efi_main of        *)
(* fastboot/main.c runs one command of its command line or starts the      *)
(* server, which publishes the partitions it lists and then looks up, for  *)
(* each flash: and erase:, the one it writes.                              *)
(***************************************************************************)
EXTENDS Gpt

CONSTANT MaxCalls   \* bound on the requests of one session

ASSUME FastbootAppAssumption == MaxCalls \in Nat

VARIABLES
    app,        \* where efi_main is
    ret,        \* what it has to return
    listed,     \* "no", "yes", or "wild" after a list that was refused
    published,  \* the partitions whose size and type are published, in order
    calls       \* requests of the session

vars == <<gptVars, app, ret, listed, published, calls>>

Commands == {"find_label", "flash_file", "erase", "boot"}
Lookups == Commands \ {"boot"}

\* Parameters after the name of the command.
Arity(cmd) == IF cmd = "flash_file" THEN 2 ELSE 1

AppInit ==
    /\ Init
    /\ app = "main" /\ ret = "none" /\ listed = "no" /\ published = << >> /\ calls = 0

Exit(status) == app' = "exit" /\ ret' = status

\* LoadedImageProtocol is refused.
NoLoadedImage ==
    /\ app = "main"
    /\ Fault
    /\ Exit("error")
    /\ UNCHANGED <<devices, disks, ndisk, npart, i, pc, call, answer, failed, listed, published, calls>>

\* What efi_main reads as argv[1] is the first word after the program's name;
\* without such a word it is whatever the stack holds, which it dereferences.
Option(argc) ==
    {"-h", "-c", "other"} \cup (IF argc < 2 THEN {"wild"} ELSE {})

Usage(argc) ==
    /\ app = "main"
    /\ "-h" \in Option(argc)
    /\ Exit("ok")
    /\ UNCHANGED <<gptVars, listed, published, calls>>

WildPointer(argc) ==
    /\ app = "main"
    /\ "wild" \in Option(argc)
    /\ app' = "crashed"
    /\ UNCHANGED <<gptVars, ret, listed, published, calls>>

\* -c without a command, with an unknown one, or with the wrong number of
\* parameters.
BadCommand(argc, cmd) ==
    /\ app = "main"
    /\ "-c" \in Option(argc)
    /\ argc < 3 \/ cmd \notin Commands \/ argc - 3 # Arity(cmd)
    /\ Exit("invalid")
    /\ UNCHANGED <<gptVars, listed, published, calls>>

\* -c find_label <label>, -c erase <label>, and -c flash_file <label> <file>
\* once the file has been read.
RunLookup(cmd, label) ==
    /\ app = "main" /\ cmd \in Lookups
    /\ Ask(label)
    /\ app' = cmd
    /\ UNCHANGED <<ret, listed, published, calls>>

\* The volume of the application or the file cannot be read.
FileFails ==
    /\ app = "main"
    /\ Fault
    /\ Exit("error")
    /\ UNCHANGED <<devices, disks, ndisk, npart, i, pc, call, answer, failed, listed, published, calls>>

\* -c boot <file> comes back only with an error.
BootFile ==
    /\ app = "main"
    /\ Exit("error")
    /\ UNCHANGED <<gptVars, listed, published, calls>>

\* The command has its partition or not; flash and erase may still fail.
CommandDone ==
    /\ app \in Lookups /\ pc = "idle"
    /\ \/ Exit(answer.status)
       \/ app # "find_label" /\ answer.status = "ok" /\ Exit("error")
    /\ UNCHANGED <<gptVars, listed, published, calls>>

-----------------------------------------------------------------------------
\* fastboot_start: publish_partsize asks for the list.
fastboot_start ==
    /\ app = "main"
    /\ Ask("list")
    /\ app' = "publish"
    /\ UNCHANGED <<ret, listed, published, calls>>

\* partition-size: and partition-type: of each partition of the list.  The
\* status of the call is not looked at: after an error the count and the list
\* are what the stack holds.
Nowhere == <<0, 0>>

publish_partsize ==
    /\ app = "publish" /\ pc = "idle"
    /\ IF answer.status = "ok"
       THEN app' = "session" /\ listed' = "yes" /\ published' = answer.parts
       ELSE /\ listed' = "wild"
            /\ \/ app' = "session" /\ published' \in {<< >>, <<Nowhere>>}
               \/ app' = "crashed" /\ UNCHANGED published
    /\ UNCHANGED <<gptVars, ret, calls>>

\* flash:<label> and erase:<label>.
Request(label) ==
    /\ app = "session" /\ calls < MaxCalls
    /\ Ask(label)
    /\ calls' = calls + 1
    /\ UNCHANGED <<app, ret, listed, published>>

\* fastboot_usb_start returns when the device is to reboot or to boot.
SessionEnds ==
    /\ app = "session" /\ pc = "idle"
    /\ Exit("ok")
    /\ UNCHANGED <<gptVars, listed, published, calls>>

AppStep ==
    \/ NoLoadedImage \/ FileFails \/ BootFile \/ CommandDone
    \/ \E argc \in 0 .. 5 :
          \/ Usage(argc) \/ WildPointer(argc)
          \/ \E cmd \in Commands \cup {"unknown"} : BadCommand(argc, cmd)
    \/ \E label \in Labels : Request(label) \/ \E cmd \in Lookups : RunLookup(cmd, label)
    \/ fastboot_start \/ publish_partsize \/ SessionEnds

Terminated == app \in {"exit", "crashed"} /\ UNCHANGED vars

Next ==
    \/ GptStep /\ UNCHANGED <<app, ret, listed, published, calls>>
    \/ AppStep
    \/ Terminated

Spec == AppInit /\ [][Next]_vars

-----------------------------------------------------------------------------
NameOf(p) == devices[p[1]].parts[p[2]].name
TypeOf(p) == devices[p[1]].parts[p[2]].type
OnDevices == UNION {{h} \X DOMAIN devices[h].parts : h \in Devs}

\* The published variables of that name; fastboot_getvar finds the last.
GetVar(label) == {k \in DOMAIN published : NameOf(published[k]) = label}

\* No two entries in use share the name, on whatever devices.
Unique(label) ==
    \A p, q \in {e \in OnDevices : TypeOf(e) # Null /\ NameOf(e) = label} : p = q

\* The list of gpt_list_partition fits what it allocates for it; and what
\* flash: and erase: of a name work on is what getvar partition-size: of that
\* name told the host before, unless the list was refused or two entries share
\* the name; a name that was not published is not found.  The empty name is
\* none of these: the list leaves it out and the lookup does not.
PublishedIsTarget ==
    /\ ListFits
    /\ \A label \in Labels \ {Unnamed} :
          app = "session" /\ listed = "yes" /\ answer.for = label =>
              IF GetVar(label) = {} THEN answer.status = "not_found"
              ELSE Unique(label) =>
                  \E k \in GetVar(label) :
                      /\ \A l \in GetVar(label) : l <= k
                      /\ answer.status = "ok" /\ answer.parts = <<published[k]>>

=============================================================================
