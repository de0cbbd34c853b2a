SPECIFICATION Spec
CONSTANTS
    Polls = {1, 2, 3, 4, 5}
    FirstPolls = {1, 2, 3, 4}
    Mine = {1, 2, 3, 5}
    Voted = {2, 4}
    Marks = {4}
    Take = 2
    CommentIds = {1, 2}
    Theirs = {1}
    MaxClicks = 5
    None = None
INVARIANTS
    TypeOK
    ListIsComplete
    MarksAgree
    CommentsAgree
CHECK_DEADLOCK FALSE
