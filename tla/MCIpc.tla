------------------------------- MODULE MCIpc --------------------------------
EXTENDS Ipc

\* A region's or a plain object's rights; a view of a channel to share.
NewRightsDef == {{"READ", "GRANT", "DESTROY"}}
DerivedRightsDef == {{"READ", "WRITE"}}

\* Each kind of grant alone, and a move next to a derivation.
ShapesDef == {<<"Derive">>, <<"Move">>, <<"Transfer">>, <<"Move", "Derive">>}

\* Channels sent through channels.
ChannelShapesDef == {<<"Derive">>, <<"Move">>}

\* One object bounced back and forth.
MoveShapesDef == {<<"Move">>}
=============================================================================
