------------------------------- MODULE Upload -------------------------------
(***************************************************************************)
(* An upload (src/upload.rs): a spend, a file audit and the proof that one *)
(* secret x is behind both, verified together; and the audits of a file on *)
(* its own in the other layouts.  The client commits to a file, gets a     *)
(* challenge nonce, proves the blocks it asks for, and may reuse that file *)
(* proof in a later upload, while the clock and the list move on.          *)
(*                                                                         *)
(* A proof is represented by what it was made from, so the second, the     *)
(* file and the list version below are those its equations bind.  That the *)
(* spent token is valid and unspent is RedemptionServer's matter; what the *)
(* gaps of a list cover is RevocationList's.                               *)
(***************************************************************************)
EXTENDS FileBinding

CONSTANTS
    Secret,         \* secrets x, one a user
    Spender,        \* the user who uploads
    Emax,           \* the expiry of its token
    Sizes,          \* bound: file sizes
    Cuts,           \* bound: lengths of the blocks a caller cuts itself
    MaxStrays,      \* bound on the blocks committed under another key
    Nonces,         \* bound: challenge nonces
    Counts,         \* bound: numbers of blocks a client proves
    Blacklists,     \* bound: the blacklists a server may sign
    MaxVersion,     \* bound on revocation_list_version
    MaxTime         \* bound on the clock and on the seconds of proofs

ASSUME UploadAssumption ==
    /\ Spender \in Secret /\ Emax \in Nat /\ MaxTime \in Nat
    /\ \A x \in Secret : \E other \in Secret : other # x
    /\ Cuts \subseteq Seq(0..PointBytes)
    /\ Sizes \subseteq Nat /\ Counts \subseteq Nat /\ MaxStrays \in Nat

\* How many blocks a file can have.
BlockCounts ==
    {CeilDiv(size, BlockBytes(layout)) : size \in Sizes, layout \in Layout} \cup {Len(cut) : cut \in Cuts}

\* A nonce draws as many blocks of a file as it is asked for.
ASSUME NonceAssumption ==
    \A draw \in Nonces, n \in BlockCounts : \A target \in 0..(n - 1) :
        /\ <<n, target>> \in DOMAIN draw
        /\ draw[<<n, target>>] \subseteq 0..(n - 1)
        /\ Cardinality(draw[<<n, target>>]) = target

VARIABLES
    now,        \* seconds
    list,       \* the server's revocation list: version, second, handles
    session,    \* the client's committed file
    nonce,      \* the challenge nonce issued last
    fileProof,  \* the client's file proof: its nonce and number of blocks
    proof,      \* the client's UploadSpendProof, with its revocation proof
    accepted    \* history: what was verified last

vars == <<now, list, session, nonce, fileProof, proof, accepted>>

NoSession   == [size |-> -1]
NoNonce     == <<>>
NoFileProof == [count |-> -1]
NoProof     == [at |-> -1]
NoUpload    == [kind |-> "none"]

\* A file of distinct bytes.
File(size) == [b \in 1..size |-> b]

\* same_x_context: bytes of the caller's, which the verifier takes from the upload.
SameXContext == "context"

\* Another secret, for the blocks that are not the key owner's.
Other(key) == CHOOSE k \in Secret : k # key

CiphertextsOf(s) ==
    Blocks(s.layout, Pieces(File(s.size), s.lengths), s.key, s.strays, Other(s.key))
CommitmentOf(s) == Commitment(s.layout, File(s.size), CiphertextsOf(s))

\* An elligator commitment carries the key it is audited under; for the others
\* the verifier names the key, here that of the user who uploads.
AuditKey(s) == IF s.layout = "elligator" THEN s.key ELSE Spender

-----------------------------------------------------------------------------
(* What an upload's proofs bind                                            *)

\* derive_file_binding_generator.
FileBindingGenerator(at, version, c) == <<at, Emax, version, c>>

\* Mutant: the key is not compared with the secret of the spend.
SameXOfAnyKey(x, key) == TRUE

\* The statement is about the spend's commitment to x and the file's key, and
\* one secret opens both.
SameX(x, key) == x = key

\* verify_upload_spend_inner.
UploadHolds(p, at, version) ==
    LET c == CommitmentOf(session) IN
    /\ p.at = at /\ at <= Emax
    /\ session.layout = "packed"
    /\ SameX(Spender, session.key)
    /\ FileBindingGenerator(p.at, p.list, c) = FileBindingGenerator(at, version, c)
    /\ AuditHolds(FileProof(CiphertextsOf(session), c, p.file.nonce, p.file.count, session.key, SameXContext),
                  c, p.file.nonce, session.key, SameXContext)

-----------------------------------------------------------------------------
(* The revocation proof beside an upload                                   *)

\* The pair of identity points in place of a gap's signature.
Identity == -1

\* witness_inputs: the value is in a signed gap of the list, not expired.
Provable(value) == value \notin list.revoked /\ list.at <= value

\* verify_spend_not_revoked: the pairing equation holds for a gap signed in the
\* verifier's version, and for the identity pair; the commitment rebuilt from
\* the spend proof, which holds Emax less the second of that proof, and from
\* the second of the list is to the value of the revocation proof.
NotRevokedHolds(p, version, at) ==
    /\ p.notRevoked # NoProof
    /\ p.notRevoked.signed \in {version, Identity}
    /\ p.notRevoked.value = Emax - p.at + at

-----------------------------------------------------------------------------
Init ==
    /\ now = 0
    /\ list = [version |-> 0, at |-> 0, revoked |-> {}]
    /\ session = NoSession
    /\ nonce = NoNonce
    /\ fileProof = NoFileProof
    /\ proof = NoProof
    /\ accepted = NoUpload

\* create_*_file_commitment_auto under a key of the client's choice; the blocks
\* in `strays` were made in a session with another key.
Commit(layout, size, key) ==
    /\ session = NoSession
    /\ \E strays \in SUBSET (1..CeilDiv(size, BlockBytes(layout))) :
         /\ Cardinality(strays) <= MaxStrays
         /\ session' = [layout |-> layout, size |-> size, lengths |-> BlockLengths(layout, size),
                        key |-> key, strays |-> strays]
    /\ UNCHANGED <<now, list, nonce, fileProof, proof, accepted>>

\* create_file_commitment and create_private_file_commitment take blocks that
\* the caller has cut, of any lengths up to a point's payload.
CommitCut(layout, lengths, key) ==
    /\ session = NoSession
    /\ layout \in OnePoint
    /\ session' = [layout |-> layout, size |-> TotalLength(lengths), lengths |-> lengths,
                   key |-> key, strays |-> {}]
    /\ UNCHANGED <<now, list, nonce, fileProof, proof, accepted>>

\* The server has seen the commitment and draws a challenge, possibly again.
Challenge(n) ==
    /\ session # NoSession
    /\ nonce # n
    /\ nonce' = n
    /\ UNCHANGED <<now, list, session, fileProof, proof, accepted>>

\* create_*_file_proof, with a number of blocks of the client's choice.
ProveFile(count) ==
    /\ nonce # NoNonce
    /\ count <= Len(session.lengths)
    /\ fileProof' = [nonce |-> nonce, count |-> count]
    /\ UNCHANGED <<now, list, session, nonce, proof, accepted>>

\* An UploadSpendProof holds an AccountableFileProof, of a packed file: the
\* spend proof for a second of the client's choice, the generator for a list
\* version, and the file proof at hand.  The revocation proof beside it is from
\* the list of that moment, for the value that a check at second s rebuilds:
\* Emax if s is the second of the spend proof.
ProveUpload(version, at, s) ==
    /\ at <= Emax
    /\ fileProof # NoFileProof /\ session.layout = "packed"
    /\ LET value == Emax - at + s IN
       proof' = [at         |-> at,
                 list       |-> version,
                 file       |-> fileProof,
                 notRevoked |-> IF Provable(value) THEN [signed |-> list.version, value |-> value]
                                                   ELSE NoProof]
    /\ UNCHANGED <<now, list, session, nonce, fileProof, accepted>>

\* verify_upload_spend: version 0 stands for no list.  A failure changes nothing.
VerifyUpload ==
    /\ proof # NoProof
    /\ UploadHolds(proof, now, 0)
    /\ accepted' = [kind |-> "upload", revoked |-> {}]
    /\ UNCHANGED <<now, list, session, nonce, fileProof, proof>>

\* Mutant: the second of the list is not compared with that of the upload.
VerifyUploadAtAnySecond ==
    /\ proof # NoProof
    /\ UploadHolds(proof, now, list.version)
    /\ NotRevokedHolds(proof, list.version, list.at)
    /\ accepted' = [kind |-> "upload", revoked |-> list.revoked]
    /\ UNCHANGED <<now, list, session, nonce, fileProof, proof>>

\* verify_upload_spend_with_revocation.
VerifyUploadWithRevocation ==
    /\ proof # NoProof
    /\ list.at = now
    /\ UploadHolds(proof, now, list.version)
    /\ NotRevokedHolds(proof, list.version, list.at)
    /\ accepted' = [kind |-> "upload", revoked |-> list.revoked]
    /\ UNCHANGED <<now, list, session, nonce, fileProof, proof>>

\* The bytes a plain proof reveals, the last ones cut to the file's size.
Extend(bytes, b) == bytes \o b.revealed

Shown(p, c) ==
    LET bytes == FoldLeft(Extend, <<>>, p.blocks) IN
    IF c.layout = "plain" THEN SubSeq(bytes, 1, Least(c.size, Len(bytes))) ELSE <<>>

\* verify_*_file_proof_with_confidence on its own.
Audit ==
    /\ fileProof # NoFileProof
    /\ LET c == CommitmentOf(session)
           p == FileProof(CiphertextsOf(session), c, fileProof.nonce, fileProof.count,
                          session.key, SameXContext)
       IN
       /\ AuditHolds(p, c, nonce, AuditKey(session), SameXContext)
       /\ accepted' = [kind |-> "audit", shown |-> Shown(p, c)]
    /\ UNCHANGED <<now, list, session, nonce, fileProof, proof>>

Publish(revoked) ==
    /\ list.version < MaxVersion
    /\ list' = [version |-> list.version + 1, at |-> now, revoked |-> revoked]
    /\ UNCHANGED <<now, session, nonce, fileProof, proof, accepted>>

\* The same list under the same version, at the present second.
Resign ==
    /\ list.at # now
    /\ list' = [list EXCEPT !.at = now]
    /\ UNCHANGED <<now, session, nonce, fileProof, proof, accepted>>

Tick ==
    /\ now < MaxTime
    /\ now' = now + 1
    /\ UNCHANGED <<list, session, nonce, fileProof, proof, accepted>>

Next ==
    \/ \E layout \in Layout, size \in Sizes, key \in Secret : Commit(layout, size, key)
    \/ \E layout \in OnePoint, lengths \in Cuts : CommitCut(layout, lengths, Spender)
    \/ \E n \in Nonces : Challenge(n)
    \/ \E count \in Counts : ProveFile(count)
    \/ \E version \in {0, list.version}, at, s \in 0..MaxTime : ProveUpload(version, at, s)
    \/ VerifyUpload
    \/ VerifyUploadWithRevocation
    \/ Audit
    \/ \E revoked \in Blacklists : Publish(revoked)
    \/ Resign
    \/ Tick

Spec == Init /\ [][Next]_vars

-----------------------------------------------------------------------------
(* Properties                                                              *)

\* The blocks that the key of the audit does not open.
Unreadable ==
    LET blocks == CiphertextsOf(session) IN
    {i \in 1..Len(blocks) :
        \E j \in 1..Len(blocks[i].points) : blocks[i].points[j].key # AuditKey(session)}

\* Every block is full up to the last one with a byte in it.
CutFull == \A g, h \in 1..Len(session.lengths) :
    g < h /\ session.lengths[h] > 0 => session.lengths[g] = BlockBytes(session.layout)

\* A file that was accepted in an upload or an audit and is small enough to be
\* audited in full decrypts, byte for byte, with the secret behind the spend, or
\* of the key it was audited under.  A plain proof says nothing of the key its
\* blocks are encrypted under, nor an audit of how a caller has cut its blocks.
AcceptedRecoverable ==
    /\ accepted.kind # "none" /\ session.size <= FullAuditBytes /\ session.layout # "plain"
    /\ CutFull
    => DecryptFile(CiphertextsOf(session), CommitmentOf(session), AuditKey(session)) = File(session.size)

\* An auditor of a plain file audited in full has seen every byte that the key
\* of the audit makes of it, in order.
AuditShowsContent ==
    accepted.kind = "audit" /\ session.size <= FullAuditBytes /\ session.layout = "plain" =>
        accepted.shown = DecryptFile(CiphertextsOf(session), CommitmentOf(session), AuditKey(session))

\* If so many blocks are unreadable that an audit should notice, then of the
\* sets of blocks a nonce may ask for at most a share of 1 - confidence passes,
\* unless the cap on the number of challenges is reached.
AuditConfident ==
    /\ session # NoSession /\ nonce = NoNonce /\ now = 0 /\ list.version = 0
    /\ session.size > 0 /\ session.layout # "plain"
    =>
        LET blocks == CiphertextsOf(session)
            c      == CommitmentOf(session)
            n      == c.blocks
            count  == ExpectedCount(c)
            asked  == kSubset(count, 0..(n - 1))
            drawing(s) == [p \in {<<n, count>>} |-> s]
            passing == {s \in asked :
                AuditHolds(FileProof(blocks, c, drawing(s), count, session.key, SameXContext),
                           c, drawing(s), AuditKey(session), SameXContext)}
        IN
        Cardinality(Unreadable) >= BadBlocks(n) /\ (count < MaxChallenges \/ count = n)
            => Cardinality(passing) * Confidence[2]
                   <= (Confidence[2] - Confidence[1]) * Cardinality(asked)

\* An upload accepted with a list is from a spender whose handle that list does
\* not have.  The revocation proof may be of an earlier list and for another
\* value than the handle, and the spend proof for another second than it is
\* verified in.  This is about gaps the server signed, not about others that
\* the pairing equation may admit.
UploaderNotRevoked == accepted.kind = "upload" => Emax \notin accepted.revoked

\* The upload of a client that does what the code asks is accepted: a file with
\* a byte in it, its own key in every block, the number of blocks the verifier
\* expects, the present second and version.
HonestUploadAccepted ==
    /\ proof # NoProof
    /\ session.size > 0 /\ session.key = Spender /\ session.strays = {}
    /\ proof.file.count = ExpectedCount(CommitmentOf(session))
    /\ proof.at = now
    => UploadHolds(proof, now, proof.list)

\* Whatever the layout and the lengths of its blocks, decryption of a committed
\* file with its own key gives as many bytes as the file has; and it gives the
\* file itself if, and only if, all blocks up to the last with a byte in it are
\* full, as those are which the library cuts.
Retrievable ==
    session # NoSession /\ session.strays = {} /\ nonce = NoNonce =>
        LET file == DecryptFile(CiphertextsOf(session), CommitmentOf(session), session.key) IN
        /\ Len(file) = session.size
        /\ file = File(session.size) <=> CutFull
=============================================================================
