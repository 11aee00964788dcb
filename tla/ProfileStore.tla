------------------------------ MODULE ProfileStore ------------------------------
(***************************************************************************)
(* Twin profiles and raw nmap XML on disk (profile/store.py), as `scan`    *)
(* and `scan --import` read, parse and save them (cli/commands/scan.py,    *)
(* scan/import_.py, scan/xml_parser.py).  A file's name is its target and  *)
(* the second of the scan, both out of the XML, numbered when that name is *)
(* taken; files of another target or second never meet, so the saves of    *)
(* one target and second are modelled.  A text imported again, say the     *)
(* retained one of an earlier scan, shares both with itself.               *)
(* Nothing locks the directories.  How nmap comes to give a text, or none, *)
(* is NmapRunner's subject.                                                *)
(***************************************************************************)
EXTENDS Naturals

CONSTANTS
  Savers,      (* the invocations that may be scanning at once             *)
  MaxScans,    (* bound: the number of texts scanned or imported           *)
  MayFail      (* whether an invocation may be killed or a write may fail  *)

ASSUME StoreAssumption == MaxScans \in Nat /\ MayFail \in BOOLEAN

VARIABLES
  files,    (* files[d][n]: the file numbered n in directory d             *)
  scans,    (* the number of texts so far                                  *)
  saver,    (* saver[p]: where invocation p is                             *)
  disturbed (* history: whether saves have overlapped, or one has failed   *)
            (* between its two files                                       *)

vars == <<files, scans, saver, disturbed>>

Dirs    == {"profiles", "raw-xml"}
Numbers == 0..MaxScans          (* 0: the name without a number            *)

(* An empty file has been opened and not written; a torn one is neither    *)
(* one scan's text nor empty.                                              *)
Files  == [state : {"absent", "empty", "torn", "whole"}, scan : 0..MaxScans]
Absent == [state |-> "absent", scan |-> 0]
Empty  == [state |-> "empty", scan |-> 0]
Torn   == [state |-> "torn", scan |-> 0]
Whole(k) == [state |-> "whole", scan |-> k]

(* earlier is history: the profiles that existed when the save began.      *)
SaverRecords == [pc : {"idle", "parse", "probe", "open", "write"}, xml : Files,
                 dir : Dirs, number : Numbers, earlier : SUBSET Numbers]

TypeOK ==
  /\ files \in [Dirs -> [Numbers -> Files]]
  /\ scans \in 0..MaxScans
  /\ saver \in [Savers -> SaverRecords]
  /\ disturbed \in BOOLEAN

Idle == [pc |-> "idle", xml |-> Absent, dir |-> "profiles", number |-> 0, earlier |-> {}]

Init ==
  /\ files = [d \in Dirs |-> [n \in Numbers |-> Absent]]
  /\ scans = 0
  /\ saver = [p \in Savers |-> Idle]
  /\ disturbed = FALSE

-----------------------------------------------------------------------------

At(p, pc) == saver[p].pc = pc
File(p)   == files[saver[p].dir][saver[p].number]
Put(p, f) == files' = [files EXCEPT ![saver[p].dir][saver[p].number] = f]

Saving(p) == saver[p].pc \in {"probe", "open", "write"}

(* nmap gives a text, or `--import` names a file of the user's: it parses  *)
(* or it does not.  Or `--import` names a retained raw XML, which another  *)
(* invocation may be writing.                                              *)
Read(p) ==
  /\ At(p, "idle")
  /\ scans < MaxScans
  /\ scans' = scans + 1
  /\ \E text \in {Whole(scans + 1), Torn} \cup ({files["raw-xml"][n] : n \in Numbers} \ {Absent}) :
       saver' = [saver EXCEPT ![p] = [Idle EXCEPT !.pc = "parse", !.xml = text]]
  /\ UNCHANGED <<files, disturbed>>

(* ElementTree takes a document that is complete and nothing else.         *)
Parses(p) == saver[p].xml.state = "whole"

(* parse raises before anything is written.                                *)
Parse(p) ==
  /\ At(p, "parse")
  /\ saver' = [saver EXCEPT ![p] =
       IF Parses(p)
       THEN [@ EXCEPT !.pc = "probe", !.earlier = {n \in Numbers : files["profiles"][n] # Absent}]
       ELSE Idle]
  /\ disturbed' = (disturbed \/ (Parses(p) /\ \E q \in Savers : Saving(q)))
  /\ UNCHANGED <<files, scans>>

(* Mutant: the test for an existing file is the wrong way round.           *)
Taken_Inverted(p) == File(p) = Absent

(* Mutant: only profiles get a number when their name is taken.            *)
Taken_RawOverwritten(p) == File(p) # Absent /\ saver[p].dir = "profiles"

Taken(p) == File(p) # Absent

(* Mutant: only the first name is looked up.                               *)
Probe_Once(p) ==
  /\ At(p, "probe")
  /\ saver' = [saver EXCEPT ![p] = [@ EXCEPT !.pc = "open", !.number = IF Taken(p) THEN @ + 1 ELSE @]]
  /\ UNCHANGED <<files, scans, disturbed>>

(* _unique_path: one exists() of the counting loop.                        *)
Probe(p) ==
  /\ At(p, "probe")
  /\ saver' = IF Taken(p) THEN [saver EXCEPT ![p].number = @ + 1] ELSE [saver EXCEPT ![p].pc = "open"]
  /\ UNCHANGED <<files, scans, disturbed>>

(* write_text opens for writing: the file is created or truncated.         *)
Open(p) ==
  /\ At(p, "open")
  /\ Put(p, Empty)
  /\ saver' = [saver EXCEPT ![p].pc = "write"]
  /\ UNCHANGED <<scans, disturbed>>

(* After the profile the raw XML, numbered by itself; then it is done.     *)
SaveNext(p) ==
  saver' = [saver EXCEPT ![p] =
    IF @.dir = "profiles" THEN [@ EXCEPT !.pc = "probe", !.dir = "raw-xml", !.number = 0] ELSE Idle]

(* A text written over another invocation's may leave that one's tail.     *)
Write(p) ==
  /\ At(p, "write")
  /\ \/ Put(p, saver[p].xml)
     \/ File(p) # Empty /\ Put(p, Torn)
  /\ SaveNext(p)
  /\ UNCHANGED <<scans, disturbed>>

(* Whether an invocation that ends here leaves one of its two files.       *)
HalfSaved(p) == At(p, "write") \/ (Saving(p) /\ saver[p].dir = "raw-xml")

(* Killed, a directory that cannot be written, or, before there is a text  *)
(* to save, nmap or the settings at fault.                                 *)
Fail(p) ==
  /\ MayFail
  /\ ~ At(p, "idle")
  /\ saver' = [saver EXCEPT ![p] = Idle]
  /\ disturbed' = (disturbed \/ HalfSaved(p))
  /\ UNCHANGED <<files, scans>>

(* The disk fills up, or the kill comes, in the middle of the text.        *)
WriteCutShort(p) ==
  /\ MayFail
  /\ At(p, "write")
  /\ Put(p, Torn)
  /\ saver' = [saver EXCEPT ![p] = Idle]
  /\ disturbed' = TRUE
  /\ UNCHANGED scans

Step(p) == Read(p) \/ Parse(p) \/ Probe(p) \/ Open(p) \/ Write(p) \/ Fail(p) \/ WriteCutShort(p)

Next == \E p \in Savers : Step(p)

Spec == Init /\ [][Next]_vars

-----------------------------------------------------------------------------
(* A re-scan never alters or deletes a prior profile                       *)
(* (profile/store.py:50-53, docs/getting-started.md:96): a profile once    *)
(* saved keeps its text.                                                   *)
NeverOverwritten == [][\A n \in Numbers :
  files["profiles"][n].state = "whole" => UNCHANGED files["profiles"][n]]_vars

(* What holds of scans that overlap: the profile file a scan opens and     *)
(* writes is none of those that were there when it began, whatever became  *)
(* of the scans they are from.                                             *)
EarlierKept == \A p \in Savers :
  saver[p].pc \in {"open", "write"} /\ saver[p].dir = "profiles"
    => saver[p].number \notin saver[p].earlier

(* Profiles and raw XML correlate by name (profile/store.py:8-10), though  *)
(* each is numbered by itself, and what does not parse leaves no file      *)
(* (scan/import_.py:18-20): as long as no saves overlap and none fails     *)
(* between its two files, a profile and the raw XML of its number are of   *)
(* one scan or both absent, retained texts imported again included.        *)
Correlated ==
  ~ disturbed /\ (\A p \in Savers : ~ Saving(p)) => \A n \in Numbers :
    /\ files["profiles"][n] = files["raw-xml"][n]
    /\ files["profiles"][n].state \in {"absent", "whole"}

=============================================================================
