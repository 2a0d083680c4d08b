SPECIFICATION FairSpec
CONSTANT MaxInFlight = 2
INVARIANTS ListIsCurrent VoteIsSettled PollIsTrue ActsOnce VideoIsCurrent CardIsCurrent FeedIsSeamless CreationsAreCurrent InteractionsAreCurrent FollowIsCurrent ConversationIsCurrent SpacePostsAreCurrent SpaceHeaderIsCurrent SubscriptionIsCurrent EditIsCurrent PostIsCurrent CommentsAreCurrent EditedPostIsCurrent DraftIsSafe UploadIsPublished FormIsSaved
PROPERTIES LoadingEnds
CHECK_DEADLOCK FALSE
