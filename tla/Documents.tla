------------------------------ MODULE Documents ------------------------------
(***************************************************************************)
(* The identifiers every component shares.  UploadDocumentHandler draws a  *)
(* fresh uuid per upload: it names the documents row, the Cloudinary       *)
(* object, the asynq task and the status topic of that document.           *)
(***************************************************************************)
CONSTANT Docs
=============================================================================
