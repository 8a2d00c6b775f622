--------------------------- MODULE IngestionState ---------------------------
(***************************************************************************)
(* The ingestion state file (ingestion/state.py): what the last cycle knew  *)
(* of the provider's file, and how far it got with it.  The MD5 of the      *)
(* archive is the version it holds.                                         *)
(***************************************************************************)
EXTENDS Integers

CONSTANTS
    MaxVersion,     \* bound: versions the provider publishes
    LengthOf        \* LengthOf[v]: Content-Length of version v

Versions == 1 .. MaxVersion

ASSUME IngestionAssumption ==
    /\ MaxVersion \in Nat \ {0}
    /\ LengthOf \in [Versions -> Nat \ {0}]

VARIABLE stateFile

\* 0 is a header the provider did not send; a file is "absent", cut off by a
\* crash in the middle of save(), or "written".
NoState == [file |-> "absent", etag |-> 0, length |-> 0, checksum |-> 0, status |-> "none"]

FileIngestionState ==
    [file : {"absent", "torn", "written"}, etag : Versions \union {0},
     length : Nat, checksum : Versions \union {0},
     status : {"none", "extracted", "produced"}]

StateTypeOK == stateFile \in FileIngestionState

\* json.load of half a file raises; every caller lets it through.
Unreadable == stateFile.file = "torn"

\* has_new_content(): no state, an interrupted cycle, another ETag, another
\* length, or nothing to compare.
HasNewContent(etag, length) ==
    \/ stateFile.file = "absent"
    \/ stateFile.status # "produced"
    \/ IF etag # 0 /\ stateFile.etag # 0
         THEN etag # stateFile.etag
         ELSE length # 0 /\ stateFile.length # 0 => length # stateFile.length

\* save() by the downloader.
SaveExtracted(etag, length, version) ==
    stateFile' = [file |-> "written", etag |-> etag, length |-> length,
                  checksum |-> version, status |-> "extracted"]

\* mark_produced() by the scheduler: load, change the status, save.
MarkProduced ==
    stateFile' = IF stateFile.file = "absent"
                   THEN stateFile
                   ELSE [stateFile EXCEPT !.status = "produced"]

\* A crash in save(), between the truncation and the last byte.
TearStateFile == stateFile' = [NoState EXCEPT !.file = "torn"]

=============================================================================
