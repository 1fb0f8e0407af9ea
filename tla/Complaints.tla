----------------------------- MODULE Complaints -----------------------------
(***************************************************************************)
(* One complaint of a member of the public: filed, followed up with files  *)
(* by whoever holds its tracking code, and handled by the Authority.       *)
(* Uploads may be in flight together; each looks for room first, and its   *)
(* row is created only after its file has been stored.                     *)
(***************************************************************************)
EXTENDS Requests, Naturals, FiniteSets

CONSTANTS
  Files,     \* what may be uploaded
  MaxFiles,  \* MAX_COMPLAINT_ATTACHMENTS (3 in the code)
  Uploads,   \* uploads that may be in flight at once
  Handlers   \* requests of the Authority in flight

ASSUME MaxFilesAssumption == MaxFiles \in Nat \ {0}
ASSUME UploadsAssumption  == IsFiniteSet(Uploads) /\ Uploads # {}

VARIABLES
  complaint, \* status and resolvedAt
  blobs,     \* files in the storage
  attached,  \* rows of complaint_attachments that are not removed
  upload,    \* uploads in flight
  handler    \* requests of the Authority in flight

complaintVars == <<complaint, blobs, attached, upload, handler>>

OpenStatuses     == {"RECEIVED", "IN_REVIEW"}
TerminalStatuses == {"RESOLVED", "CLOSED"}    \* TERMINAL_STATUSES
ComplaintStatuses == OpenStatuses \cup TerminalStatuses

UploadRequests ==
  {Idle} \cup [pc : {"save", "create"}, file : Files]
HandlerRequests == {Idle} \cup [pc : {"status"}, status : ComplaintStatuses]

ComplaintsTypeOK ==
  /\ complaint \in [status : ComplaintStatuses \cup {"NONE"}, resolved : BOOLEAN]
  /\ blobs \in SUBSET Files /\ attached \in SUBSET Files
  /\ IsFiniteSet(attached)
  /\ upload \in [Uploads -> UploadRequests]
  /\ handler \in [Handlers -> HandlerRequests]

ComplaintsInit ==
  /\ complaint = [status |-> "NONE", resolved |-> FALSE]
  /\ blobs = {} /\ attached = {}
  /\ upload = [s \in Uploads |-> Idle]
  /\ handler = [h \in Handlers |-> Idle]

-----------------------------------------------------------------------------
(* file.  Its reference number is ReferenceSequence's subject.             *)
FileComplaint ==
  /\ complaint.status = "NONE"
  /\ complaint' = [complaint EXCEPT !.status = "RECEIVED"]
  /\ UNCHANGED <<blobs, attached, upload, handler>>

(* Mutant of HasRoom: the limit itself is let through.                     *)
HasRoomAtLimit == Cardinality(attached) <= MaxFiles
HasRoom        == Cardinality(attached) < MaxFiles

(* An upload stores its file first.  Mutant: it starts with the row.       *)
RowFirst   == "create"
FirstWrite == "save"

(* attach, up to the storing of the file: the case is open, has room.      *)
Attach(s, f) ==
  /\ complaint.status \in OpenStatuses
  /\ HasRoom
  /\ f \notin blobs /\ \A q \in Uploads : upload[q] # Idle => upload[q].file # f
  /\ Begin(upload, s, [pc |-> FirstWrite, file |-> f])
  /\ UNCHANGED <<complaint, blobs, attached, handler>>

SaveFile(s) ==
  /\ At(upload, s, "save")
  /\ blobs' = blobs \cup {upload[s].file}
  /\ Continue(upload, s, [upload[s] EXCEPT !.pc = "create"])
  /\ UNCHANGED <<complaint, attached, handler>>

CreateAttachment(s) ==
  /\ At(upload, s, "create")
  /\ attached' = attached \cup {upload[s].file}
  /\ Finish(upload, s)
  /\ UNCHANGED <<complaint, blobs, handler>>

(* The connection drops, the storage or the insert fails.                  *)
AbandonUpload(s) ==
  /\ Drop(upload, s)
  /\ UNCHANGED <<complaint, blobs, attached, handler>>

(* removeAttachment: the row is kept, marked as removed.                   *)
RemoveAttachment(f) ==
  /\ f \in attached
  /\ attached' = attached \ {f}
  /\ UNCHANGED <<complaint, blobs, upload, handler>>

(* updateStatus: any status to any other, or to itself with a new note.    *)
UpdateStatus(h, status) ==
  /\ complaint.status # "NONE"
  /\ Begin(handler, h, [pc |-> "status", status |-> status])
  /\ UNCHANGED <<complaint, blobs, attached, upload>>

WriteStatus(h) ==
  /\ At(handler, h, "status")
  /\ complaint' = [status   |-> handler[h].status,
                   resolved |-> handler[h].status \in TerminalStatuses]
  /\ Finish(handler, h)
  /\ UNCHANGED <<blobs, attached, upload>>

ComplaintsNext ==
  \/ FileComplaint
  \/ \E s \in Uploads : \/ SaveFile(s) \/ CreateAttachment(s) \/ AbandonUpload(s)
                        \/ \E f \in Files : Attach(s, f)
  \/ \E f \in Files : RemoveAttachment(f)
  \/ \E h \in Handlers : \/ WriteStatus(h)
                         \/ \E status \in ComplaintStatuses : UpdateStatus(h, status)

ComplaintsSpec == ComplaintsInit /\ [][ComplaintsNext]_complaintVars

-----------------------------------------------------------------------------
(* A complaint carries no more files than the limit ("You can attach up to *)
(* 3 files", attach's check).                                              *)
FilesWithinLimit == Cardinality(attached) <= MaxFiles

(* What is kept of it: the limit is passed by no more than the uploads     *)
(* that looked before one of them had created its row, one fewer than may  *)
(* be in flight together (attach counts, stores, and only then creates).   *)
OverrunBounded == Cardinality(attached) <= MaxFiles + Cardinality(Uploads) - 1

(* Whatever uploads fail or are removed half way, a file on a complaint is *)
(* in the storage: evidence listed can be opened (attach saves, and then   *)
(* creates the row; removeAttachment leaves the file).                     *)
EvidenceStored == attached \subseteq blobs
=============================================================================
