------------------------------ MODULE MCUploads ------------------------------
(* Two designs for a cart that may hold one, an image that is stored as it *)
(* is and one that is stored with a derivative.                            *)
EXTENDS Uploads, TLC

MCKindOf == "d1" :> "design" @@ "d2" :> "design"
              @@ "gif" :> "passthrough" @@ "photo" :> "derived"

=============================================================================
