SPECIFICATION Spec
CONSTANT Sources <- Comments
INVARIANT CommentIsItsOwn
